------------------------ MODULE InvestigationProofs ------------------------
(***************************************************************************)
(* The investigation of a case for every set of facts, every set of        *)
(* answers of a model, and every number of corrections, days and cycles.   *)
(*                                                                         *)
(* CreatedOK says what one generation stores; the conjuncts of IInv follow *)
(* from it step by step.  That a deferred re-evaluation is neither lost    *)
(* nor left behind is a property of steps, and rests on the leading        *)
(* hypothesis being the best of the active ones.                           *)
(***************************************************************************)
EXTENDS Investigation, FiniteSetTheorems, TLAPS

\* Specs as generation sees them: citations are records.
RecordSpecs ==
  [category : Categories, supports : SUBSET Records, weakens : SUBSET Records, twice : BOOLEAN]

\* No hypothesis is younger than the last cycle.
GensBounded == \A h \in hypotheses : h.gen <= cycles

IInv ==
  /\ TypeOK
  /\ Grounded
  /\ OneGenerationLeads
  /\ LoneRecordIsCapped
  /\ GensBounded

-----------------------------------------------------------------------------
(* Arithmetic of confidence.                                               *)

LEMMA QuotientBounded ==
  ASSUME NEW a \in Nat, NEW d \in Nat \ {0}, NEW k \in Nat, a < (k + 1) * d
  PROVE  a \div d \in Nat /\ a \div d <= k
<1>1. a \div d \in Nat /\ (a \div d) * d <= a
  BY SMT
<1>2. SUFFICES ASSUME a \div d >= k + 1 PROVE FALSE
  BY <1>1
<1>3. (a \div d) * d >= (k + 1) * d
  BY <1>1, <1>2, SMT
<1> QED BY <1>1, <1>3, SMT

\* compute_confidence stays within [0, 1].
LEMMA ConfidenceTyped ==
  ASSUME NEW s \in Nat, NEW w \in Nat
  PROVE  Confidence(s, w) \in 0 .. Unit
<1> DEFINE d == s + w + 10
           a == Unit * s + d \div 2
<1>1. d \in Nat \ {0} /\ d \div 2 \in Nat /\ d \div 2 < d
  BY SMT
<1>2. a \in Nat /\ a < (10000 + 1) * d
  BY <1>1, SMT DEF Unit
<1>3. a \div d \in Nat /\ a \div d <= 10000
  <2> HIDE DEF a, d
  <2> QED BY <1>1, <1>2, QuotientBounded
<1>4. Confidence(s, w) = a \div d
  BY DEF Confidence
<1>5. Confidence(s, w) \in Nat /\ Confidence(s, w) <= Unit /\ Unit \in Nat
  <2> HIDE DEF a, d
  <2> QED BY <1>3, <1>4 DEF Unit
<1> QED BY <1>5, SMT

\* The 1 in the denominator caps what one record of the heaviest source can say.
LEMMA ConfidenceCapped ==
  ASSUME NEW s \in 0 .. 10, NEW w \in Nat
  PROVE  Confidence(s, w) <= 5000
<1> DEFINE d == s + w + 10
           a == Unit * s + d \div 2
<1>1. d \in Nat \ {0} /\ d \div 2 \in Nat /\ d \div 2 < d
  BY SMT
<1>2. a \in Nat /\ a < (5000 + 1) * d
  BY <1>1, SMT DEF Unit
<1>3. a \div d \in Nat /\ a \div d <= 5000
  <2> HIDE DEF a, d
  <2> QED BY <1>1, <1>2, QuotientBounded
<1> QED BY <1>3 DEF Confidence

-----------------------------------------------------------------------------
(* Weights.                                                                *)

LEMMA WeightTyped ==
  ASSUME NEW r \in Records
  PROVE  Weight(r) \in {5, 7, 9, 10}
<1>1. SourceOf[r.fact] \in DOMAIN Reliability
  BY FactsAssumption DEF Records
<1> QED BY <1>1 DEF Weight, Reliability

LEMMA CurrentFinite ==
  ASSUME version \in [Facts -> Nat]
  PROVE  Current \in SUBSET Records /\ IsFiniteSet(Current)
<1>1. IsFiniteSet(Known)
  BY FactsAssumption, FS_Subset DEF Known
<1> DEFINE row == [f \in Known |-> RecordOf(f)]
<1>2. row \in Surjection(Known, Current)
  BY DEF Surjection, Current
<1>3. IsFiniteSet(Current)
  BY <1>1, <1>2, FS_Surjection
<1>4. Current \in SUBSET Records
  BY DEF Current, Records, Known, RecordOf
<1> QED BY <1>3, <1>4

LEMMA WeightOfTyped ==
  ASSUME NEW records, IsFiniteSet(records)
  PROVE  WeightOf(records) \in Nat
<1> DEFINE at(w) == {r \in records : Weight(r) = w}
<1>1. \A w : Cardinality(at(w)) \in Nat
  BY FS_Subset, FS_CardinalityType
<1>2. WeightOf(records) = 10 * Cardinality(at(10)) + 9 * Cardinality(at(9))
                          + 7 * Cardinality(at(7)) + 5 * Cardinality(at(5))
  BY DEF WeightOf
<1> HIDE DEF at
<1> QED BY <1>1, <1>2, SMT

LEMMA WeightOfOne ==
  ASSUME NEW r \in Records
  PROVE  WeightOf({r}) \in 0 .. 10
<1> DEFINE at(w) == {x \in {r} : Weight(x) = w}
<1>1. \A w : at(w) = IF Weight(r) = w THEN {r} ELSE {}
  OBVIOUS
<1>2. Cardinality({r}) = 1 /\ Cardinality({}) = 0
  BY FS_Singleton, FS_EmptySet
<1>3. \A w : Cardinality(at(w)) = IF Weight(r) = w THEN 1 ELSE 0
  BY <1>1, <1>2
<1>4. WeightOf({r}) = 10 * Cardinality(at(10)) + 9 * Cardinality(at(9))
                      + 7 * Cardinality(at(7)) + 5 * Cardinality(at(5))
  BY DEF WeightOf
<1> HIDE DEF at
<1> QED BY <1>3, <1>4, WeightTyped, SMT

-----------------------------------------------------------------------------
(* Flags and specs.                                                        *)

EvidenceTyped ==
  /\ version \in [Facts -> Nat]
  /\ when \in [Facts -> Nat]

LEMMA FromKnown ==
  ASSUME NEW source
  PROVE  From(source) \in SUBSET Facts /\ Known \in SUBSET Facts
BY DEF From, Known

LEMMA RecordTyped ==
  ASSUME EvidenceTyped, NEW f \in Facts
  PROVE  RecordOf(f) \in Records
BY DEF EvidenceTyped, RecordOf, Records

\* detect_uncertainty raises flags that cite records of the evidence.
LEMMA RaisedTyped ==
  ASSUME EvidenceTyped
  PROVE  Raised \subseteq FlagRows
<1>1. Missing \subseteq FlagRows
  <2>1. Overdue \subseteq Facts
    BY DEF Overdue, Known
  <2> QED BY <2>1, RecordTyped DEF Missing, FlagRows
<1>2. Duplicate \subseteq FlagRows
  <2> DEFINE paid == From("payment")
             cited == {RecordOf(f) : f \in paid}
  <2>1. paid \in SUBSET Facts
    BY FromKnown
  <2>2. Cardinality(paid) \in Nat
    BY <2>1, FactsAssumption, FS_Subset, FS_CardinalityType
  <2>3. cited \in SUBSET Records
    BY <2>1, RecordTyped
  <2>4. \A f \in Duplicate : f = [kind |-> "duplicate", about |-> {}, number |-> Cardinality(paid),
                                  cites |-> cited]
    BY DEF Duplicate
  <2> HIDE DEF paid, cited
  <2> QED BY <2>2, <2>3, <2>4 DEF FlagRows
<1>3. Disputed \subseteq FlagRows
  <2> DEFINE both == From("contact_center_record") \cup From("fulfillment_update")
             cited == {RecordOf(f) : f \in both}
  <2>1. both \in SUBSET Facts
    BY FromKnown
  <2>2. cited \in SUBSET Records
    BY <2>1, RecordTyped
  <2>3. \A f \in Disputed : f = [kind |-> "contradictory", about |-> {}, number |-> 0,
                                 cites |-> cited]
    BY DEF Disputed
  <2> HIDE DEF both, cited
  <2> QED BY <2>2, <2>3 DEF FlagRows
<1>4. Stale \subseteq FlagRows
  <2>1. Newest \subseteq Facts
    BY DEF Newest, Known
  <2> DEFINE cited == {RecordOf(g) : g \in Newest}
  <2>2. cited \in SUBSET Records
    BY <2>1, RecordTyped
  <2>3. \A x \in Stale : \E f \in Facts :
           x = [kind |-> "stale", about |-> {}, number |-> when[f], cites |-> cited]
    BY <2>1 DEF Stale
  <2> HIDE DEF cited
  <2> QED BY <2>2, <2>3 DEF FlagRows, EvidenceTyped
<1> QED BY <1>1, <1>2, <1>3, <1>4 DEF Raised

LEMMA RuleSpecsTyped ==
  ASSUME NEW open \in SUBSET FlagRows
  PROVE  FromFlags(open) \subseteq RecordSpecs
<1>1. \A f \in open : CategoryOf(f) \subseteq Categories
  BY DEF CategoryOf, Categories
<1>2. \A f \in open : f.cites \in SUBSET Records
  BY DEF FlagRows
<1> DEFINE spec(f, c) == [category |-> c, supports |-> f.cites, weakens |-> {}, twice |-> FALSE]
<1>3. \A s \in FromFlags(open) : \E f \in open : \E c \in CategoryOf(f) : s = spec(f, c)
  BY Zenon DEF FromFlags
<1>4. \A f \in open : \A c \in CategoryOf(f) : spec(f, c) \in RecordSpecs
  BY <1>1, <1>2 DEF RecordSpecs
<1> HIDE DEF spec
<1> QED BY <1>3, <1>4

LEMMA AnswerSpecsTyped ==
  ASSUME EvidenceTyped, NEW answer \in Answers
  PROVE  FromAnswer(answer) \subseteq RecordSpecs
<1>1. answer \subseteq Specs
  BY AnswersAssumption
<1>2. ASSUME NEW s \in answer
      PROVE  /\ {RecordOf(f) : f \in s.supports} \in SUBSET Records
             /\ {RecordOf(f) : f \in s.weakens} \in SUBSET Records
             /\ s.category \in Categories /\ s.twice \in BOOLEAN
  <2>1. s \in Specs
    BY <1>1, <1>2
  <2> QED BY <2>1, RecordTyped DEF Specs
<1> QED BY <1>2 DEF FromAnswer, RecordSpecs

\* One spec is left for each category.
LEMMA MergedTyped ==
  ASSUME NEW specs \in SUBSET RecordSpecs
  PROVE  /\ Merged(specs) \subseteq RecordSpecs
         /\ \A m, n \in Merged(specs) : m.category = n.category => m = n
<1> DEFINE of(c) == {s \in specs : s.category = c}
           one(c) == [category |-> c, supports |-> UNION {s.supports : s \in of(c)},
                      weakens |-> UNION {s.weakens : s \in of(c)},
                      twice |-> \E s \in of(c) : s.twice /\ of(c) = {s}]
<1>1. Merged(specs) = {one(c) : c \in {s.category : s \in specs}}
  BY DEF Merged
<1>2. \A c : /\ UNION {s.supports : s \in of(c)} \in SUBSET Records
             /\ UNION {s.weakens : s \in of(c)} \in SUBSET Records
  BY DEF RecordSpecs
<1>3. \A c \in {s.category : s \in specs} : c \in Categories
  BY DEF RecordSpecs
<1>4. \A c : one(c).twice \in BOOLEAN
  OBVIOUS
<1>5. \A c \in Categories : one(c) \in RecordSpecs
  <2> HIDE DEF of
  <2> QED BY <1>2 DEF RecordSpecs
<1>6. \A c : one(c).category = c
  OBVIOUS
<1> HIDE DEF one
<1> QED BY <1>1, <1>3, <1>5, <1>6

-----------------------------------------------------------------------------
(* Generation.                                                             *)

LEMMA LinkedTyped ==
  ASSUME EvidenceTyped, NEW records \in SUBSET Records
  PROVE  /\ Linked(records) \in SUBSET Records
         /\ IsFiniteSet(Linked(records))
         /\ Linked(records) \subseteq Current
<1>1. IsFiniteSet(Current)
  BY CurrentFinite DEF EvidenceTyped
<1>2. Linked(records) \in SUBSET Current
  BY DEF Linked
<1>3. IsFiniteSet(Linked(records))
  BY <1>1, <1>2, FS_Subset
<1> QED BY <1>2, <1>3 DEF Linked

\* What holds of a hypothesis as it is stored.
StoredOK(h) ==
  /\ h \in Hypotheses
  /\ h.gen = cycles + 1 /\ h.active
  /\ h.supports # {} /\ h.supports \cup h.weakens \subseteq Current
  /\ (\E r \in h.supports : h.supports = {r}) /\ ~h.twice => h.confidence <= 5000

\* The hypothesis made of a merged spec.
Stored(m) ==
  [gen |-> cycles + 1, category |-> m.category, supports |-> Linked(m.supports),
   weakens |-> Linked(m.weakens), twice |-> m.twice, active |-> TRUE,
   confidence |-> Confidence(WeightOf(Linked(m.supports)) * (IF m.twice THEN 2 ELSE 1),
                             WeightOf(Linked(m.weakens)))]

LEMMA StoredIsOK ==
  ASSUME EvidenceTyped, cycles \in Nat, cycles < MaxCycles,
         NEW m \in RecordSpecs, Linked(m.supports) # {}
  PROVE  StoredOK(Stored(m))
<1> DEFINE for == Linked(m.supports)
           against == Linked(m.weakens)
           weight == WeightOf(for) * (IF m.twice THEN 2 ELSE 1)
<1>1. /\ for \in SUBSET Records /\ IsFiniteSet(for) /\ for \subseteq Current
      /\ against \in SUBSET Records /\ IsFiniteSet(against) /\ against \subseteq Current
  BY LinkedTyped DEF RecordSpecs
<1>2. WeightOf(for) \in Nat /\ WeightOf(against) \in Nat
  BY <1>1, WeightOfTyped
<1>3. weight \in Nat
  <2> HIDE DEF for
  <2> QED BY <1>2, SMT
<1>4. Confidence(weight, WeightOf(against)) \in 0 .. Unit
  <2> HIDE DEF weight, against
  <2> QED BY <1>2, <1>3, ConfidenceTyped
<1>5. ASSUME NEW r \in for, for = {r}, ~m.twice
      PROVE  Confidence(weight, WeightOf(against)) <= 5000
  <2>1. WeightOf(for) \in 0 .. 10
    BY <1>1, <1>5, WeightOfOne
  <2>2. weight \in 0 .. 10
    <3> HIDE DEF for
    <3> QED BY <2>1, <1>5, SMT
  <2> HIDE DEF weight, against
  <2> QED BY <2>2, <1>2, ConfidenceCapped
<1> DEFINE c == Confidence(weight, WeightOf(against))
<1>6. Stored(m) = [gen |-> cycles + 1, category |-> m.category, supports |-> for,
                   weakens |-> against, twice |-> m.twice, active |-> TRUE, confidence |-> c]
  BY DEF Stored
<1>7. cycles + 1 \in 1 .. MaxCycles
  BY BoundsAssumption, SMT
<1>8. m.category \in Categories /\ m.twice \in BOOLEAN /\ for # {}
  BY DEF RecordSpecs
<1>9. c \in 0 .. Unit
  BY <1>4
<1>10. (\E r \in for : for = {r}) /\ ~m.twice => c <= 5000
  BY <1>5
<1> HIDE DEF c, for, against, weight
<1>11. Stored(m) \in Hypotheses
  BY <1>1, <1>6, <1>7, <1>8, <1>9 DEF Hypotheses
<1> QED BY <1>1, <1>6, <1>8, <1>10, <1>11 DEF StoredOK

\* A generation stores sound hypotheses of different categories, or nothing.
CreatedOK(new) ==
  /\ \A h \in new : StoredOK(h)
  /\ \A g, h \in new : g.category = h.category => g = h

LEMMA CreatedIsOK ==
  ASSUME EvidenceTyped, cycles \in Nat, cycles < MaxCycles, NEW specs \in SUBSET RecordSpecs
  PROVE  CreatedOK(Created(specs))
<1>1. Created(specs) = {Stored(m) : m \in {n \in Merged(specs) : Linked(n.supports) # {}}}
  BY DEF Created, Stored
<1>2. \A m \in Merged(specs) : Linked(m.supports) # {} => StoredOK(Stored(m))
  BY MergedTyped, StoredIsOK
<1>3. \A m : Stored(m).category = m.category
  BY DEF Stored
<1> QED BY <1>1, <1>2, <1>3, MergedTyped DEF CreatedOK

\* Superseding a hypothesis leaves everything else of it alone.
LEMMA SupersededHypothesis ==
  ASSUME NEW h \in Hypotheses
  PROVE  LET old == [h EXCEPT !.active = FALSE]
         IN  /\ old \in Hypotheses /\ ~old.active
             /\ old.gen = h.gen /\ old.category = h.category
             /\ old.supports = h.supports /\ old.weakens = h.weakens
             /\ old.twice = h.twice /\ old.confidence = h.confidence
<1> DEFINE old == [h EXCEPT !.active = FALSE]
<1>1. old \in Hypotheses
  BY DEF Hypotheses
<1>2. ~old.active
  BY DEF Hypotheses
<1>3. old.gen = h.gen /\ old.category = h.category /\ old.confidence = h.confidence
  BY DEF Hypotheses
<1>4. old.supports = h.supports /\ old.weakens = h.weakens /\ old.twice = h.twice
  BY DEF Hypotheses
<1> QED BY <1>1, <1>2, <1>3, <1>4

-----------------------------------------------------------------------------
(* The steps.                                                              *)

LEMMA DriveTyped ==
  ASSUME flags' \subseteq FlagRows, NEW pending \in BOOLEAN, Drive(pending)
  PROVE  /\ reeval' \in BOOLEAN /\ live' \in {"none", "pending_approval", "approved"}
         /\ asked' \in Questions
<1>1. CASE HandBack(pending) \/ CarryOutInVain(pending)
  BY <1>1 DEF HandBack, CarryOutInVain, Nothing, Questions
<1>2. CASE DecideAnew
  <2>1. reeval' \in BOOLEAN /\ live' \in {"none", "pending_approval", "approved"}
    BY <1>2 DEF DecideAnew
  <2>2. asked' \in {[kind |-> "generic", about |-> {}], Nothing} => asked' \in Questions
    BY DEF Nothing, Questions
  <2>3. ASSUME NEW f \in Gaps', asked' = [kind |-> "missing", about |-> f.about]
        PROVE  asked' \in Questions
    <3>1. f.about \in SUBSET Facts
      BY DEF Gaps, FlagRows
    <3> QED BY <2>3, <3>1 DEF Questions
  <2> QED BY <1>2, <2>1, <2>2, <2>3 DEF DecideAnew
<1> QED BY <1>1, <1>2 DEF Drive

\* A generation that stores something replaces what was active, one that does not changes nothing.
LEMMA Replaced ==
  ASSUME TypeOK, NEW new, CreatedOK(new), new # {}, Generate(new)
  PROVE  /\ Active' = new
         /\ \E top \in Best(new) : primary' = [gen |-> top.gen, category |-> top.category]
         /\ \A h \in hypotheses' :
              h \in new \/ \E g \in hypotheses : h = [g EXCEPT !.active = FALSE]
<1>1. hypotheses' = {[h EXCEPT !.active = FALSE] : h \in hypotheses} \cup new
  BY DEF Generate, Superseded
<1>2. \A h \in hypotheses : ~[h EXCEPT !.active = FALSE].active
  BY SupersededHypothesis DEF TypeOK
<1>3. \A h \in new : h.active
  BY DEF CreatedOK, StoredOK
<1> DEFINE old == {[h EXCEPT !.active = FALSE] : h \in hypotheses}
<1>4. Active' = new
  <2>1. Active' = {h \in old \cup new : h.active}
    BY <1>1 DEF Active
  <2>2. \A h \in old : ~h.active
    BY <1>2
  <2> HIDE DEF old
  <2> QED BY <2>1, <2>2, <1>3
<1> QED BY <1>1, <1>4 DEF Generate

LEMMA Kept ==
  ASSUME Generate({})
  PROVE  hypotheses' = hypotheses /\ primary' = primary
BY DEF Generate, Superseded, Best

LEMMA RunKeepsIInv ==
  ASSUME IInv, NEW specs \in SUBSET RecordSpecs, Run(specs)
  PROVE  IInv'
<1> DEFINE new == Created(specs)
<1>1. EvidenceTyped /\ cycles \in Nat /\ cycles < MaxCycles
  BY BoundsAssumption DEF IInv, TypeOK, EvidenceTyped, Run
<1>2. CreatedOK(new)
  BY <1>1, CreatedIsOK
<1>3. Generate(new) /\ Drive(reeval \/ Shifted(new))
  BY DEF Run
<1> HIDE DEF new
<1>4. cycles' = cycles + 1 /\ cycles' \in 1 .. MaxCycles
  BY <1>1, BoundsAssumption, SMT DEF Run
<1>5. version' = version /\ clock' = clock /\ when' = when
  BY DEF Run
<1>6. flags' \subseteq FlagRows
  BY <1>1, RaisedTyped DEF Run, IInv, TypeOK
<1>7. /\ reeval' \in BOOLEAN /\ live' \in {"none", "pending_approval", "approved"}
      /\ asked' \in Questions
  <2>1. (reeval \/ Shifted(new)) \in BOOLEAN
    OBVIOUS
  <2> QED BY <2>1, <1>3, <1>6, DriveTyped
<1>8. \A r \in Current : r.version \in 1 .. version[r.fact]
  BY <1>1, SMT DEF Current, Known, RecordOf, EvidenceTyped
<1>9. CASE new = {}
  <2>1. hypotheses' = hypotheses /\ primary' = primary
    BY <1>3, <1>9, Kept
  <2>2. GensBounded'
    <3>1. \A h \in hypotheses : h.gen \in Nat /\ h.gen <= cycles
      BY DEF IInv, TypeOK, Hypotheses, GensBounded
    <3> QED BY <2>1, <3>1, <1>1, <1>4, SMT DEF GensBounded
  <2>3. TypeOK'
    <3>1. cycles' \in 0 .. MaxCycles
      BY <1>4, BoundsAssumption, SMT
    <3> QED BY <2>1, <3>1, <1>5, <1>6, <1>7 DEF IInv, TypeOK
  <2>4. Grounded' /\ LoneRecordIsCapped'
    BY <2>1, <1>5 DEF IInv, Grounded, LoneRecordIsCapped
  <2>5. OneGenerationLeads'
    BY <2>1 DEF IInv, OneGenerationLeads, Active, Leads
  <2> QED BY <2>2, <2>3, <2>4, <2>5, <1>7 DEF IInv
<1>10. CASE new # {}
  <2> DEFINE kept(h) == \E g \in hypotheses : h = [g EXCEPT !.active = FALSE]
  <2>1. /\ Active' = new
        /\ \E top \in Best(new) : primary' = [gen |-> top.gen, category |-> top.category]
        /\ \A h \in hypotheses' : h \in new \/ kept(h)
    BY <1>2, <1>3, <1>10, Replaced DEF IInv
  <2>2. \A h \in new : StoredOK(h)
    BY <1>2 DEF CreatedOK
  <2>3. hypotheses \subseteq Hypotheses
    BY DEF IInv, TypeOK
  <2>4. ASSUME NEW h, kept(h)
        PROVE  \E g \in hypotheses :
                 /\ h \in Hypotheses /\ h.gen = g.gen /\ h.supports = g.supports
                 /\ h.weakens = g.weakens /\ h.twice = g.twice /\ h.confidence = g.confidence
    <3>1. PICK g \in hypotheses : h = [g EXCEPT !.active = FALSE]
      BY <2>4
    <3> QED BY <3>1, <2>3, SupersededHypothesis
  <2> HIDE DEF kept
  <2>5. \A h \in hypotheses' : h \in Hypotheses
    BY <2>1, <2>2, <2>4 DEF StoredOK
  <2>6. GensBounded'
    <3>1. \A h \in hypotheses : h.gen \in Nat /\ h.gen <= cycles
      BY DEF IInv, TypeOK, Hypotheses, GensBounded
    <3>2. \A h \in hypotheses' : h.gen \in Nat /\ h.gen <= cycles + 1
      BY <2>1, <2>2, <2>4, <3>1, <1>1 DEF StoredOK
    <3> QED BY <3>2, <1>4 DEF GensBounded
  <2>7. Grounded'
    <3>1. ASSUME NEW h \in new
          PROVE  h.supports # {} /\ \A r \in h.supports \cup h.weakens : r.version \in 1 .. version[r.fact]
      BY <2>2, <1>8 DEF StoredOK
    <3>2. ASSUME NEW h, kept(h)
          PROVE  h.supports # {} /\ \A r \in h.supports \cup h.weakens : r.version \in 1 .. version[r.fact]
      BY <2>4, <3>2 DEF IInv, Grounded
    <3> QED BY <2>1, <3>1, <3>2, <1>5 DEF Grounded
  <2>8. LoneRecordIsCapped'
    <3>1. ASSUME NEW h \in new, NEW r \in h.supports, h.supports = {r}, ~h.twice
          PROVE  h.confidence <= 5000
      BY <2>2, <3>1 DEF StoredOK
    <3>2. ASSUME NEW h, kept(h), NEW r \in h.supports, h.supports = {r}, ~h.twice
          PROVE  h.confidence <= 5000
      BY <2>4, <3>2 DEF IInv, LoneRecordIsCapped
    <3> QED BY <2>1, <3>1, <3>2 DEF LoneRecordIsCapped
  <2>9. PICK top \in Best(new) : primary' = [gen |-> top.gen, category |-> top.category]
    BY <2>1
  <2>10. top \in new
    BY DEF Best
  <2>11. OneGenerationLeads'
    <3>1. Leads(top)'
      BY <2>9 DEF Leads
    <3>2. Best(Active)' = Best(new)
      BY <2>1 DEF Best
    <3>3. \A g, h \in new : g.gen = h.gen /\ (g.category = h.category => g = h)
      BY <1>2, <2>2 DEF CreatedOK, StoredOK
    <3> QED BY <2>1, <3>1, <3>2, <3>3 DEF OneGenerationLeads
  <2>12. TypeOK'
    <3>1. top.gen \in 1 .. MaxCycles /\ top.category \in Categories
      BY <2>2, <2>10 DEF StoredOK, Hypotheses
    <3>2. top.gen \in 0 .. MaxCycles /\ cycles' \in 0 .. MaxCycles
      BY <3>1, <1>4, BoundsAssumption, SMT
    <3>3. primary' \in [gen : 0 .. MaxCycles, category : Categories]
      BY <3>1, <3>2, <2>9
    <3> QED BY <2>5, <3>2, <3>3, <1>5, <1>6, <1>7 DEF IInv, TypeOK
  <2> QED BY <2>6, <2>7, <2>8, <2>11, <2>12, <1>7 DEF IInv
<1> QED BY <1>9, <1>10

\* What an approver decides, and how the case is driven on after an approval.
LEMMA RulingKeepsIInv ==
  ASSUME IInv, Reject \/ Approve \/ DriveApproved
  PROVE  IInv'
<1>1. /\ clock' = clock /\ version' = version /\ when' = when /\ flags' = flags
      /\ hypotheses' = hypotheses /\ primary' = primary /\ cycles' = cycles
  BY DEF Reject, Approve, DriveApproved
<1>2. flags' \subseteq FlagRows /\ reeval \in BOOLEAN /\ asked \in Questions
  BY <1>1 DEF IInv, TypeOK
<1>3. /\ reeval' \in BOOLEAN /\ live' \in {"none", "pending_approval", "approved"}
      /\ asked' \in Questions
  <2>1. CASE Reject \/ Approve
    BY <1>2, <2>1 DEF Reject, Approve
  <2>2. CASE DriveApproved
    BY <1>2, <2>2, DriveTyped DEF DriveApproved, Drive
  <2> QED BY <2>1, <2>2
<1>4. TypeOK'
  BY <1>1, <1>3 DEF IInv, TypeOK
<1>5. Grounded' /\ LoneRecordIsCapped' /\ GensBounded'
  BY <1>1 DEF IInv, Grounded, LoneRecordIsCapped, GensBounded
<1>6. OneGenerationLeads'
  BY <1>1 DEF IInv, OneGenerationLeads, Active, Leads
<1> QED BY <1>4, <1>5, <1>6 DEF IInv

LEMMA DeliverKeepsIInv ==
  ASSUME IInv, NEW f \in Facts, NEW delay \in Delays, Deliver(f, delay)
  PROVE  IInv'
<1>1. /\ clock' = clock /\ flags' = flags /\ hypotheses' = hypotheses /\ primary' = primary
      /\ reeval' = reeval /\ live' = live /\ asked' = asked /\ cycles' = cycles
  BY DEF Deliver
<1>2. version \in [Facts -> Nat] /\ when \in [Facts -> 0 .. MaxClock]
  BY DEF IInv, TypeOK
<1>3. version' = [version EXCEPT ![f] = @ + 1] /\ version[f] < MaxVersions[f]
  BY DEF Deliver
<1>4. \A g \in Facts : version'[g] = IF g = f THEN version[g] + 1 ELSE version[g]
  BY <1>2, <1>3
<1>5. version' \in [Facts -> Nat]
  BY <1>2, <1>3
<1>6. \A g \in Facts : version'[g] <= MaxVersions[g]
  <2>1. \A g \in Facts : version[g] <= MaxVersions[g] /\ MaxVersions[g] \in Nat
    BY BoundsAssumption DEF IInv, TypeOK
  <2> QED BY <1>2, <1>3, <1>4, <2>1
<1>7. when' \in [Facts -> 0 .. MaxClock]
  <2>1. clock - delay \in 0 .. MaxClock
    BY BoundsAssumption, SMT DEF Deliver, IInv, TypeOK
  <2> QED BY <1>2, <2>1 DEF Deliver
<1>8. TypeOK'
  BY <1>1, <1>5, <1>6, <1>7 DEF IInv, TypeOK
<1>9. Grounded'
  <2>1. ASSUME NEW h \in hypotheses, NEW r \in h.supports \cup h.weakens
        PROVE  r.version \in 1 .. version'[r.fact]
    <3>1. r.version \in 1 .. version[r.fact]
      BY DEF IInv, Grounded
    <3>2. r.fact \in Facts
      BY DEF IInv, TypeOK, Hypotheses, Records
    <3>3. version[r.fact] \in Nat /\ version'[r.fact] \in Nat /\ version[r.fact] <= version'[r.fact]
      BY <1>2, <1>4, <1>5, <3>2
    <3> QED BY <3>1, <3>3, SMT
  <2>2. \A h \in hypotheses : h.supports # {}
    BY DEF IInv, Grounded
  <2> QED BY <1>1, <2>1, <2>2 DEF Grounded
<1>10. LoneRecordIsCapped' /\ GensBounded'
  BY <1>1 DEF IInv, LoneRecordIsCapped, GensBounded
<1>11. OneGenerationLeads'
  BY <1>1 DEF IInv, OneGenerationLeads, Active, Leads
<1> QED BY <1>8, <1>9, <1>10, <1>11 DEF IInv

\* Time passes, or nothing does.
LEMMA QuietKeepsIInv ==
  ASSUME IInv, Tick \/ UNCHANGED vars
  PROVE  IInv'
<1>1. /\ version' = version /\ when' = when /\ flags' = flags /\ hypotheses' = hypotheses
      /\ primary' = primary /\ reeval' = reeval /\ live' = live /\ asked' = asked /\ cycles' = cycles
  BY DEF Tick, vars
<1>2. clock' \in 0 .. MaxClock
  BY BoundsAssumption, SMT DEF Tick, vars, IInv, TypeOK
<1>3. TypeOK'
  BY <1>1, <1>2 DEF IInv, TypeOK
<1>4. Grounded' /\ LoneRecordIsCapped' /\ GensBounded'
  BY <1>1 DEF IInv, Grounded, LoneRecordIsCapped, GensBounded
<1>5. OneGenerationLeads'
  BY <1>1 DEF IInv, OneGenerationLeads, Active, Leads
<1> QED BY <1>3, <1>4, <1>5 DEF IInv

LEMMA InitIInv ==
  ASSUME Init
  PROVE  IInv
<1>1. TypeOK
  <2>1. clock \in 0 .. MaxClock /\ cycles \in 0 .. MaxCycles
    BY BoundsAssumption, SMT DEF Init
  <2>2. version \in [Facts -> Nat] /\ \A f \in Facts : version[f] <= MaxVersions[f]
    BY BoundsAssumption DEF Init
  <2>3. when \in [Facts -> 0 .. MaxClock]
    BY BoundsAssumption DEF Init
  <2>4. primary \in [gen : 0 .. MaxCycles, category : Categories]
    BY BoundsAssumption DEF Init, Categories
  <2> QED BY <2>1, <2>2, <2>3, <2>4 DEF Init, TypeOK, Nothing, Questions
<1>2. Grounded /\ LoneRecordIsCapped /\ GensBounded
  BY DEF Init, Grounded, LoneRecordIsCapped, GensBounded
<1>3. OneGenerationLeads
  BY DEF Init, OneGenerationLeads, Active
<1> QED BY <1>1, <1>2, <1>3 DEF IInv

\* The specs of a run are the rules' or a model's.
LEMMA SpecsTyped ==
  ASSUME IInv
  PROVE  /\ FromFlags(flags \cup Raised) \in SUBSET RecordSpecs
         /\ \A answer \in Answers : FromAnswer(answer) \in SUBSET RecordSpecs
<1>1. EvidenceTyped
  BY BoundsAssumption DEF IInv, TypeOK, EvidenceTyped
<1>2. flags \cup Raised \in SUBSET FlagRows
  BY <1>1, RaisedTyped DEF IInv, TypeOK
<1> QED BY <1>1, <1>2, RuleSpecsTyped, AnswerSpecsTyped

LEMMA IInvKept ==
  ASSUME IInv, [Next]_vars
  PROVE  IInv'
<1>1. CASE Tick \/ UNCHANGED vars
  BY <1>1, QuietKeepsIInv
<1>2. CASE \E f \in Facts, delay \in Delays : Deliver(f, delay)
  BY <1>2, DeliverKeepsIInv
<1>3. CASE RunOnRules
  BY <1>3, SpecsTyped, RunKeepsIInv DEF RunOnRules
<1>4. CASE \E answer \in Answers : RunOnAnswer(answer)
  BY <1>4, SpecsTyped, RunKeepsIInv DEF RunOnAnswer
<1>5. CASE Reject \/ Approve \/ DriveApproved
  BY <1>5, RulingKeepsIInv
<1> QED BY <1>1, <1>2, <1>3, <1>4, <1>5 DEF Next

-----------------------------------------------------------------------------
(* The theorems.                                                           *)

LEMMA AlwaysIInv == Spec => []IInv
<1>1. Init => IInv
  BY InitIInv
<1>2. IInv /\ [Next]_vars => IInv'
  BY IInvKept
<1> QED BY <1>1, <1>2, PTL DEF Spec

\* Every variable holds a value of its kind; a confidence is one (hypothesis_engine.py:195-211).
THEOREM InvestigationTyped == Spec => []TypeOK
<1>1. IInv => TypeOK
  BY DEF IInv
<1> QED BY <1>1, AlwaysIInv, PTL

\* What a cycle stores cites the evidence as it stands.
LEMMA RunGrounds ==
  ASSUME IInv, NEW specs \in SUBSET RecordSpecs, Run(specs), NEW h \in hypotheses', h.gen = cycles'
  PROVE  h.supports # {} /\ h.supports \cup h.weakens \subseteq Current
<1> DEFINE new == Created(specs)
<1>1. EvidenceTyped /\ cycles \in Nat /\ cycles < MaxCycles /\ cycles' = cycles + 1
  BY BoundsAssumption DEF IInv, TypeOK, EvidenceTyped, Run
<1>2. CreatedOK(new)
  BY <1>1, CreatedIsOK
<1>3. Generate(new)
  BY DEF Run
<1> HIDE DEF new
<1>4. \A g \in hypotheses : g \in Hypotheses /\ g.gen \in Nat /\ g.gen < cycles'
  BY <1>1, SMT DEF IInv, TypeOK, Hypotheses, GensBounded
<1>5. h \notin hypotheses
  BY <1>1, <1>4
<1>6. \A g \in hypotheses : h # [g EXCEPT !.active = FALSE]
  <2>1. \A g \in hypotheses : [g EXCEPT !.active = FALSE].gen = g.gen
    BY <1>4, SupersededHypothesis
  <2>2. \A g \in hypotheses : g.gen # h.gen
    BY <1>1, <1>4
  <2> QED BY <2>1, <2>2
<1>7. h \in new
  BY <1>3, <1>5, <1>6 DEF Generate, Superseded
<1> QED BY <1>2, <1>7 DEF CreatedOK, StoredOK

\* Whatever a model answers and however evidence is corrected, a hypothesis is stored only on
\* evidence that is current by then, and so every hypothesis there ever is cites delivered evidence
\* (hypothesis_engine.py:236-261).
THEOREM AlwaysGrounded == Spec => GroundedWhenStored /\ []Grounded
<1>1. IInv => Grounded
  BY DEF IInv
<1>2. ASSUME IInv, [Next]_vars, NEW h \in hypotheses', cycles' # cycles, h.gen = cycles'
      PROVE  h.supports # {} /\ h.supports \cup h.weakens \subseteq Current
  <2>1. RunOnRules \/ \E answer \in Answers : RunOnAnswer(answer)
    BY <1>2 DEF Next, vars, Tick, Deliver, Reject, Approve, DriveApproved
  <2>2. CASE RunOnRules
    BY <1>2, <2>2, SpecsTyped, RunGrounds DEF RunOnRules
  <2>3. CASE \E answer \in Answers : RunOnAnswer(answer)
    BY <1>2, <2>3, SpecsTyped, RunGrounds DEF RunOnAnswer
  <2> QED BY <2>1, <2>2, <2>3
<1>3. IInv /\ [Next]_vars => \A h \in hypotheses' :
        cycles' # cycles /\ h.gen = cycles' =>
          h.supports # {} /\ h.supports \cup h.weakens \subseteq Current
  BY <1>2
<1> QED BY <1>1, <1>3, AlwaysIInv, PTL DEF Spec, GroundedWhenStored

\* The active hypotheses are one generation and the primary one is its strongest
\* (hypothesis_engine.py:283-297).
THEOREM OneGenerationAtATime == Spec => []OneGenerationLeads
<1>1. IInv => OneGenerationLeads
  BY DEF IInv
<1> QED BY <1>1, AlwaysIInv, PTL

\* One record cited once never says more than a half (hypothesis_engine.py:195-198).
THEOREM LoneRecordCapped == Spec => []LoneRecordIsCapped
<1>1. IInv => LoneRecordIsCapped
  BY DEF IInv
<1> QED BY <1>1, AlwaysIInv, PTL

\* The leading hypothesis is the best of the active ones, and the only one that leads.
LEMMA LeadIsBest ==
  ASSUME OneGenerationLeads, NEW h \in Lead
  PROVE  h \in Best(Active) /\ \A g \in Lead : g = h
<1>1. h \in Active /\ Leads(h) /\ hypotheses # {}
  BY DEF Lead, Active
<1>2. PICK top \in Best(Active) : Leads(top)
  BY <1>1 DEF OneGenerationLeads
<1>3. top \in Active
  BY DEF Best
<1>4. \A g \in Lead : g = top
  BY <1>2, <1>3 DEF OneGenerationLeads, Leads, Lead
<1> QED BY <1>2, <1>4

\* A cycle that finds an action waiting keeps what is to be re-evaluated.
LEMMA RunWaits ==
  ASSUME IInv, IInv', NEW specs \in SUBSET RecordSpecs, Run(specs), live = "pending_approval",
         \/ reeval
         \/ \E old \in Lead, top \in Lead' : Shift(old.confidence, top.confidence) > Delta
  PROVE  reeval'
<1> DEFINE new == Created(specs)
<1>1. EvidenceTyped /\ cycles \in Nat /\ cycles < MaxCycles
  BY BoundsAssumption DEF IInv, TypeOK, EvidenceTyped, Run
<1>2. CreatedOK(new)
  BY <1>1, CreatedIsOK
<1>3. Generate(new) /\ Drive(reeval \/ Shifted(new))
  BY DEF Run
<1> HIDE DEF new
<1>4. reeval' = (reeval \/ Shifted(new))
  BY <1>3 DEF Drive, HandBack, CarryOutInVain, DecideAnew
<1>5. ASSUME NEW old \in Lead, NEW top \in Lead', Shift(old.confidence, top.confidence) > Delta
      PROVE  Shifted(new)
  <2>1. old \in Best(Active) /\ \A g \in Lead : g = old
    BY LeadIsBest DEF IInv
  <2>2. old \in Hypotheses
    BY DEF IInv, TypeOK, Lead, Active
  <2>3. CASE new = {}
    <3>1. Lead' = Lead
      BY <1>3, <2>3, Kept DEF Lead, Active, Leads
    <3>2. top = old
      BY <2>1, <3>1
    <3>3. Shift(old.confidence, old.confidence) = 0
      BY <2>2, SMT DEF Shift, Hypotheses
    <3> QED BY <3>2, <3>3, <1>5, SMT DEF Delta
  <2>4. CASE new # {}
    <3>1. /\ Active' = new
          /\ \E best \in Best(new) : primary' = [gen |-> best.gen, category |-> best.category]
      BY <1>2, <1>3, <2>4, Replaced DEF IInv
    <3>2. PICK best \in Best(new) : primary' = [gen |-> best.gen, category |-> best.category]
      BY <3>1
    <3>3. top \in new /\ top.category = best.category
      BY <3>1, <3>2 DEF Lead, Leads
    <3>4. best \in new
      BY DEF Best
    <3>5. top \in Best(new)
      BY <3>3, <3>4, <1>2 DEF CreatedOK
    <3>6. Shift(top.confidence, old.confidence) > Delta
      <4>1. top \in Hypotheses
        BY <3>3, <1>2 DEF CreatedOK, StoredOK
      <4> QED BY <4>1, <2>2, <1>5, SMT DEF Shift, Hypotheses
    <3> QED BY <2>1, <3>5, <3>6 DEF Shifted
  <2> QED BY <2>3, <2>4
<1> QED BY <1>4, <1>5

\* Whatever approvers decide in between and however their requests end, a re-evaluation is taken
\* back only where the engine decides anew: not lost while an action waits, not taken back by a
\* rejection or by an execution in vain, and not left behind by the first cycle that finds nothing
\* in flight (nba_engine.py:143-163, hypothesis_engine.py:300-319, approvals.py:57-70).
THEOREM ReevaluationIsNotLost ==
  Spec => /\ ReevaluationWaits
          /\ [][reeval /\ ~reeval' => DecideAnew]_vars
<1> DEFINE Due ==
      reeval \/ \E old \in Lead, new \in Lead' : Shift(old.confidence, new.confidence) > Delta
<1>1. ASSUME IInv, IInv', [Next]_vars
      PROVE  cycles' # cycles /\ live = "pending_approval" /\ Due => reeval'
  <2> SUFFICES ASSUME live = "pending_approval", cycles' # cycles, Due
               PROVE  reeval'
    OBVIOUS
  <2>1. RunOnRules \/ \E answer \in Answers : RunOnAnswer(answer)
    BY <1>1 DEF Next, vars, Tick, Deliver, Reject, Approve, DriveApproved
  <2>2. CASE RunOnRules
    BY <1>1, <2>2, SpecsTyped, RunWaits DEF RunOnRules
  <2>3. CASE \E answer \in Answers : RunOnAnswer(answer)
    BY <1>1, <2>3, SpecsTyped, RunWaits DEF RunOnAnswer
  <2> QED BY <2>1, <2>2, <2>3
<1>2. ASSUME [Next]_vars, reeval, ~reeval'
      PROVE  DecideAnew
  BY <1>2 DEF Next, vars, Tick, Deliver, RunOnRules, RunOnAnswer, Run, Reject, Approve,
     DriveApproved, Drive, HandBack, CarryOutInVain
<1>3. ASSUME [Next]_vars, cycles' # cycles, live = "none"
      PROVE  ~reeval'
  BY <1>3 DEF Next, vars, Tick, Deliver, RunOnRules, RunOnAnswer, Run, Reject, Approve,
     DriveApproved, Drive, HandBack, CarryOutInVain, DecideAnew
<1>4. ASSUME IInv, IInv', [Next]_vars
      PROVE  /\ cycles' # cycles /\ live = "pending_approval" /\ Due => reeval'
             /\ reeval /\ ~reeval' => live # "pending_approval"
             /\ cycles' # cycles /\ live = "none" => ~reeval'
  BY <1>1, <1>2, <1>3, <1>4 DEF DecideAnew
<1>5. IInv /\ IInv' /\ [Next]_vars =>
        [/\ cycles' # cycles /\ live = "pending_approval" /\ Due => reeval'
         /\ reeval /\ ~reeval' => live # "pending_approval"
         /\ cycles' # cycles /\ live = "none" => ~reeval']_vars
  BY <1>4
<1>6. [Next]_vars => [reeval /\ ~reeval' => DecideAnew]_vars
  BY <1>2
<1> QED BY <1>5, <1>6, AlwaysIInv, PTL DEF Spec, ReevaluationWaits

-----------------------------------------------------------------------------
(* What evidence does to confidence.                                       *)

LEMMA ConfidenceIsNat ==
  ASSUME NEW s \in Nat, NEW w \in Nat
  PROVE  Confidence(s, w) \in Nat /\ Confidence(s, w) <= 10000
<1> DEFINE c == Confidence(s, w)
<1>1. c \in 0 .. Unit
  BY ConfidenceTyped
<1> HIDE DEF c
<1>2. c \in Nat /\ c <= 10000
  BY <1>1, SMT DEF Unit
<1> QED BY <1>2 DEF c

LEMMA QuotientAtLeast ==
  ASSUME NEW q \in Nat, NEW b \in Nat, NEW e \in Nat \ {0}, q * e <= b
  PROVE  q <= b \div e
<1> DEFINE r == b \div e
<1>1. r \in Nat /\ b < (r + 1) * e
  BY SMT
<1>2. SUFFICES ASSUME q >= r + 1 PROVE FALSE
  BY <1>1
<1> HIDE DEF r
<1>3. q * e >= (r + 1) * e
  BY <1>1, <1>2, SMT
<1>4. q * e \in Nat /\ (r + 1) * e \in Nat
  BY <1>1, SMT
<1> QED BY <1>1, <1>3, <1>4, SMT

\* More supporting weight never lowers confidence.
LEMMA SupportRaises ==
  ASSUME NEW s \in Nat, NEW w \in Nat, NEW k \in Nat
  PROVE  Confidence(s, w) <= Confidence(s + k, w)
<1> DEFINE c == Confidence(s, w)
           d == s + w + 10
           e == s + k + w + 10
           a == Unit * s + d \div 2
           b == Unit * (s + k) + e \div 2
<1>1. /\ d \in Nat \ {0} /\ e \in Nat \ {0} /\ e = d + k
      /\ d \div 2 \in Nat /\ e \div 2 \in Nat /\ d \div 2 <= e \div 2
  BY SMT
<1>2. c \in Nat /\ c <= 10000
  BY ConfidenceIsNat
<1>3. /\ a \in Nat /\ a = 10000 * s + d \div 2
      /\ b \in Nat /\ b = 10000 * s + 10000 * k + e \div 2
  BY <1>1, SMT DEF Unit
<1>4. c = a \div d /\ Confidence(s + k, w) = b \div e
  BY DEF Confidence
<1> HIDE DEF a, b, c, d, e
<1>5. c * d <= a
  BY <1>1, <1>3, <1>4, SMT
<1>6. c * k <= 10000 * k
  BY <1>2, SMT
<1>7. c * e = c * d + c * k
  BY <1>1, <1>2, SMT
<1>8. c * d \in Nat /\ c * k \in Nat
  BY <1>1, <1>2, SMT
<1>9. c * e <= b
  BY <1>1, <1>3, <1>5, <1>6, <1>7, <1>8, SMT
<1>10. c <= b \div e
  BY <1>1, <1>2, <1>3, <1>9, QuotientAtLeast
<1> QED BY <1>4, <1>10 DEF c

\* More weakening weight never raises it.
LEMMA DoubtLowers ==
  ASSUME NEW s \in Nat, NEW w \in Nat, NEW k \in Nat
  PROVE  Confidence(s, w + k) <= Confidence(s, w)
<1> DEFINE c == Confidence(s, w + k)
           d == s + w + 10
           e == s + (w + k) + 10
           a == Unit * s + e \div 2
           b == Unit * s + d \div 2
<1>1. /\ d \in Nat \ {0} /\ e \in Nat \ {0} /\ e = d + k
      /\ d \div 2 \in Nat /\ e \div 2 \in Nat /\ e \div 2 <= d \div 2 + k
  BY SMT
<1>2. c \in Nat
  BY ConfidenceIsNat
<1>3. a \in Nat /\ a = 10000 * s + e \div 2 /\ b \in Nat /\ b = 10000 * s + d \div 2
  BY <1>1, SMT DEF Unit
<1>4. c = a \div e /\ Confidence(s, w) = b \div d
  BY DEF Confidence
<1> HIDE DEF a, b, c, d, e
<1>5. c * e <= a
  BY <1>1, <1>3, <1>4, SMT
<1>6. c = 0 \/ c * k >= k
  BY <1>2, SMT
<1>7. c * e = c * d + c * k
  BY <1>1, <1>2, SMT
<1>8. c * d \in Nat /\ c * k \in Nat /\ (c = 0 => c * d = 0)
  BY <1>1, <1>2, SMT
<1>9. c * d <= b
  BY <1>1, <1>3, <1>5, <1>6, <1>7, <1>8, SMT
<1>10. c <= b \div d
  BY <1>1, <1>2, <1>3, <1>9, QuotientAtLeast
<1> QED BY <1>4, <1>10 DEF c

\* A record adds its weight, whatever it is.
LEMMA WeightGrows ==
  ASSUME NEW less, NEW more, IsFiniteSet(more), less \subseteq more
  PROVE  /\ WeightOf(less) \in Nat /\ WeightOf(more) \in Nat
         /\ WeightOf(less) <= WeightOf(more)
<1> DEFINE low(w) == Cardinality({r \in less : Weight(r) = w})
           high(w) == Cardinality({r \in more : Weight(r) = w})
<1>1. \A w : low(w) \in Nat /\ high(w) \in Nat /\ low(w) <= high(w)
  <2> TAKE w
  <2>1. /\ IsFiniteSet({r \in more : Weight(r) = w})
        /\ {r \in less : Weight(r) = w} \subseteq {r \in more : Weight(r) = w}
    BY FS_Subset
  <2> QED BY <2>1, FS_Subset, FS_CardinalityType
<1>2. /\ WeightOf(less) = 10 * low(10) + 9 * low(9) + 7 * low(7) + 5 * low(5)
      /\ WeightOf(more) = 10 * high(10) + 9 * high(9) + 7 * high(7) + 5 * high(5)
  BY DEF WeightOf
<1> HIDE DEF low, high
<1> QED BY <1>1, <1>2, SMT

\* "Corroboration from independent, reliable sources is what drives confidence up; weakening
\* evidence pulls it back down" (hypothesis_engine.py:195-199): for all sets of evidence, one more
\* record in support, or one less against, never makes a hypothesis less likely, the rounding to
\* four digits included.
THEOREM EvidenceDrivesConfidence ==
  ASSUME NEW supports, NEW corroborated, NEW weakens, NEW contested,
         IsFiniteSet(corroborated), supports \subseteq corroborated,
         IsFiniteSet(contested), weakens \subseteq contested
  PROVE  Confidence(WeightOf(supports), WeightOf(contested))
           <= Confidence(WeightOf(corroborated), WeightOf(weakens))
<1> DEFINE few == WeightOf(supports)
           many == WeightOf(corroborated)
           weak == WeightOf(weakens)
           strong == WeightOf(contested)
<1>1. few \in Nat /\ many \in Nat /\ few <= many /\ weak \in Nat /\ strong \in Nat /\ weak <= strong
  BY WeightGrows
<1> HIDE DEF few, many, weak, strong
<1>2. /\ many - few \in Nat /\ few + (many - few) = many
      /\ strong - weak \in Nat /\ weak + (strong - weak) = strong
  BY <1>1, SMT
<1>3. Confidence(few, strong) <= Confidence(many, strong)
  BY <1>1, <1>2, SupportRaises
<1>4. Confidence(many, strong) <= Confidence(many, weak)
  BY <1>1, <1>2, DoubtLowers
<1>5. Confidence(few, strong) \in Nat
  BY <1>1, ConfidenceIsNat
<1>6. Confidence(many, strong) \in Nat
  BY <1>1, ConfidenceIsNat
<1>7. Confidence(many, weak) \in Nat
  BY <1>1, ConfidenceIsNat
<1>8. Confidence(few, strong) <= Confidence(many, weak)
  BY <1>3, <1>4, <1>5, <1>6, <1>7, SMT
<1> QED BY <1>8 DEF few, many, weak, strong

-----------------------------------------------------------------------------
(* What becomes of a hypothesis.                                           *)

\* A step keeps every hypothesis with all it said; at most it is no longer active, and nothing
\* comes back or comes in except by the generation of a new cycle.
Preserved ==
  /\ \A h \in hypotheses : h \in hypotheses' \/ [h EXCEPT !.active = FALSE] \in hypotheses'
  /\ \A g \in hypotheses' :
       \/ \E h \in hypotheses : g = h \/ g = [h EXCEPT !.active = FALSE]
       \/ cycles' = cycles + 1 /\ g.gen = cycles'
  /\ primary' # primary => cycles' = cycles + 1 /\ primary'.gen = cycles'

LEMMA RunPreserves ==
  ASSUME IInv, NEW specs \in SUBSET RecordSpecs, Run(specs)
  PROVE  Preserved
<1> DEFINE new == Created(specs)
<1>1. EvidenceTyped /\ cycles \in Nat /\ cycles < MaxCycles
  BY BoundsAssumption DEF IInv, TypeOK, EvidenceTyped, Run
<1>2. CreatedOK(new)
  BY <1>1, CreatedIsOK
<1>3. Generate(new) /\ cycles' = cycles + 1
  BY DEF Run
<1> HIDE DEF new
<1>4. CASE new = {}
  BY <1>3, <1>4, Kept DEF Preserved
<1>5. CASE new # {}
  <2>1. hypotheses' = {[h EXCEPT !.active = FALSE] : h \in hypotheses} \cup new
    BY <1>3, <1>5 DEF Generate, Superseded
  <2>2. PICK top \in new : primary' = [gen |-> top.gen, category |-> top.category]
    BY <1>3, <1>5 DEF Generate, Best
  <2>3. \A h \in new : h.gen = cycles'
    BY <1>2, <1>3 DEF CreatedOK, StoredOK
  <2>4. primary'.gen = cycles'
    BY <2>2, <2>3
  <2> QED BY <1>3, <2>1, <2>3, <2>4 DEF Preserved
<1> QED BY <1>4, <1>5

\* "The original hypothesis is preserved, just marked superseded -- never deleted"
\* (tests/test_hypothesis_engine.py:77): no correction of the evidence, no answer of a model and
\* no decision rewrites what an earlier cycle concluded or revives it, and the case only ever turns
\* to a hypothesis of the cycle that runs.
THEOREM ConclusionsArePreserved == Spec => [][Preserved]_vars
<1>1. ASSUME IInv, [Next]_vars
      PROVE  [Preserved]_vars
  <2>1. CASE RunOnRules
    BY <1>1, <2>1, SpecsTyped, RunPreserves DEF RunOnRules
  <2>2. CASE \E answer \in Answers : RunOnAnswer(answer)
    BY <1>1, <2>2, SpecsTyped, RunPreserves DEF RunOnAnswer
  <2>3. CASE UNCHANGED << hypotheses, primary >>
    BY <2>3 DEF Preserved
  <2> QED BY <1>1, <2>1, <2>2, <2>3 DEF Next, Tick, Deliver, Reject, Approve, DriveApproved
<1>2. IInv /\ [Next]_vars => [Preserved]_vars
  BY <1>1
<1> QED BY <1>2, AlwaysIInv, PTL DEF Spec
=============================================================================
