---------------------------- MODULE Investigation ----------------------------
(***************************************************************************)
(* What went wrong with one order: the flags that time raises over its     *)
(* evidence, the hypotheses generated from flags or by a language model,   *)
(* their confidence, and what the next-best-action engine asks for         *)
(* (reconciliation/reconciler.py, engine/hypothesis_engine.py, the first   *)
(* branches of engine/nba_engine.py).                                      *)
(*                                                                         *)
(* A record of evidence is the fact it reports, which is the identifier of *)
(* the source, and a version: a correction supersedes the version before.  *)
(* EvidenceStore models the rows behind a fact, their repetitions and the  *)
(* timeline; here time is counted in days, every payment is captured,      *)
(* every fulfilment delivered and every contact a dispute of receipt.      *)
(***************************************************************************)
EXTENDS Integers, FiniteSets

CONSTANTS
  Facts,
  SourceOf,        \* the kind of source that reports a fact
  Answers,         \* what a model may answer: sets of specs
  Delays,          \* days after which a fact may be delivered
  MaxVersions,     \* bound: deliveries of each fact
  MaxClock,        \* bound: days
  MaxCycles        \* bound: cycles of the case

\* SOURCE_RELIABILITY, in tenths.
Reliability ==
  [order |-> 10, payment |-> 10, store_transaction |-> 10, fulfillment_update |-> 9,
   return |-> 9, itsm_incident |-> 9, contact_center_record |-> 7, web_app_event |-> 5]

Categories ==
  {"duplicate_charge", "fulfillment_never_started", "refund_not_issued",
   "customer_disputes_receipt", "another"}

\* What a model proposes: the facts it cites (one that has not been delivered stands for an id
\* it invents), and whether it names the supporting ones a second time.
Specs == [category : Categories, supports : SUBSET Facts, weakens : SUBSET Facts, twice : BOOLEAN]

ASSUME FactsAssumption == IsFiniteSet(Facts) /\ SourceOf \in [Facts -> DOMAIN Reliability]
ASSUME AnswersAssumption == Answers \subseteq SUBSET Specs
ASSUME BoundsAssumption ==
  /\ Delays \subseteq Nat
  /\ MaxVersions \in [Facts -> Nat] /\ MaxClock \in Nat /\ MaxCycles \in Nat

VARIABLES
  clock,
  version,     \* of the current record of each fact, 0 for none
  when,        \* occurred_at of that record
  flags,       \* open uncertainty flags; about and number stand for the description
  hypotheses,  \* every hypothesis of the case; gen is the cycle that stored it
  primary,     \* cycle and category of the leading hypothesis, cycle 0 for none
  reeval,      \* needs_reevaluation
  live,        \* status of the action in flight, "none" for none
  asked,       \* what the last decision asks evidence for
  cycles

vars == << clock, version, when, flags, hypotheses, primary, reeval, live, asked, cycles >>

Records == [fact : Facts, version : Nat]

Unit == 10000  \* confidence is counted in ten-thousandths

FlagRows ==
  [kind : {"missing", "duplicate", "contradictory", "stale"}, about : SUBSET Facts,
   number : Nat, cites : SUBSET Records]

Hypotheses ==
  [gen : 1 .. MaxCycles, category : Categories, supports : SUBSET Records,
   weakens : SUBSET Records, twice : BOOLEAN, confidence : 0 .. Unit, active : BOOLEAN]

Questions == [kind : {"nothing", "generic", "missing"}, about : SUBSET Facts]
Nothing == [kind |-> "nothing", about |-> {}]

Known == {f \in Facts : version[f] > 0}
RecordOf(f) == [fact |-> f, version |-> version[f]]
Current == {RecordOf(f) : f \in Known}
From(source) == {f \in Known : SourceOf[f] = source}

-----------------------------------------------------------------------------
(* detect_uncertainty.                                                     *)

\* EXPECTED_FOLLOWUPS: an order is overdue after an hour, that is on the next day.
Followup == [order |-> "payment", payment |-> "fulfillment_update", return |-> "payment"]
Window == [order |-> 0, payment |-> 2, return |-> 3]
StaleAfter == 2

Answered(f) == \E g \in From(Followup[SourceOf[f]]) : when[g] >= when[f]

Overdue ==
  {f \in Known : SourceOf[f] \in DOMAIN Followup /\ clock > when[f] + Window[SourceOf[f]]}

Missing ==
  {[kind |-> "missing", about |-> {f}, number |-> 0, cites |-> {RecordOf(f)}] :
     f \in {g \in Overdue : ~Answered(g)}}

Duplicate ==
  LET paid == From("payment")
  IN  {[kind |-> "duplicate", about |-> {}, number |-> n, cites |-> {RecordOf(f) : f \in paid}] :
         n \in {Cardinality(paid)} \ {0, 1}}

Disputed ==
  LET contacts == From("contact_center_record")
      deliveries == From("fulfillment_update")
  IN  IF contacts = {} \/ deliveries = {} THEN {}
      ELSE {[kind |-> "contradictory", about |-> {}, number |-> 0,
             cites |-> {RecordOf(f) : f \in contacts \cup deliveries}]}

Newest == {f \in Known : \A g \in Known : when[g] <= when[f]}

Stale ==
  {[kind |-> "stale", about |-> {}, number |-> when[f], cites |-> {RecordOf(g) : g \in Newest}] :
     f \in {g \in Newest : when[g] < clock - StaleAfter}}

\* A flag with the description of an open one is not raised again, and none is ever resolved.
Raised ==
  {f \in Missing \cup Duplicate \cup Disputed \cup Stale :
     ~\E old \in flags : old.kind = f.kind /\ old.about = f.about /\ old.number = f.number}

-----------------------------------------------------------------------------
(* generate_or_update_hypotheses.                                          *)

Weight(r) == Reliability[SourceOf[r.fact]]

WeightOf(records) ==
  LET count(w) == Cardinality({r \in records : Weight(r) = w})
  IN  10 * count(10) + 9 * count(9) + 7 * count(7) + 5 * count(5)

\* Mutant: the constant that stands for doubt is forgotten.
ConfidenceWithoutDoubt(supports, weakens) == (Unit * supports) \div (supports + weakens)

\* Mutant: weakening evidence is taken off the supporting.
ConfidenceOfBalance(supports, weakens) ==
  (Unit * (supports - weakens)) \div (supports + weakens + 10)

\* compute_confidence, rounded, of weights in tenths.
Confidence(supports, weakens) ==
  (Unit * supports + (supports + weakens + 10) \div 2) \div (supports + weakens + 10)

\* _FLAG_CATEGORY_RULES: a flag whose description no rule matches proposes nothing.
CategoryOf(flag) ==
  CASE flag.kind = "duplicate"     -> {"duplicate_charge"}
    [] flag.kind = "contradictory" -> {"customer_disputes_receipt"}
    [] flag.kind = "missing"       ->
         UNION {CASE SourceOf[f] = "payment" -> {"fulfillment_never_started"}
                  [] SourceOf[f] = "return"  -> {"refund_not_issued"}
                  [] OTHER                   -> {} : f \in flag.about}
    [] OTHER -> {}

FromFlags(open) ==
  UNION {{[category |-> c, supports |-> f.cites, weakens |-> {}, twice |-> FALSE] :
            c \in CategoryOf(f)} : f \in open}

FromAnswer(answer) ==
  {[category |-> s.category, supports |-> {RecordOf(f) : f \in s.supports},
    weakens |-> {RecordOf(f) : f \in s.weakens}, twice |-> s.twice] : s \in answer}

\* _merge_by_category: the ids of merged specs are named once each, those of a single spec are
\* left as they were.
Merged(specs) ==
  LET of(c) == {s \in specs : s.category = c}
  IN  {[category |-> c, supports |-> UNION {s.supports : s \in of(c)},
        weakens |-> UNION {s.weakens : s \in of(c)},
        twice |-> \E s \in of(c) : s.twice /\ of(c) = {s}] : c \in {s.category : s \in specs}}

\* Mutant: whatever is cited is linked.
LinkedUnchecked(records) == records

\* valid_support and valid_weaken: citations outside the current evidence are dropped.
Linked(records) == records \cap Current

\* A spec left without support is discarded; confidence is computed from the links.
Created(specs) ==
  {[gen |-> cycles + 1, category |-> m.category, supports |-> Linked(m.supports),
    weakens |-> Linked(m.weakens), twice |-> m.twice, active |-> TRUE,
    confidence |-> Confidence(WeightOf(Linked(m.supports)) * (IF m.twice THEN 2 ELSE 1),
                              WeightOf(Linked(m.weakens)))] :
     m \in {n \in Merged(specs) : Linked(n.supports) # {}}}

Active == {h \in hypotheses : h.active}
Leads(h) == h.gen = primary.gen /\ h.category = primary.category

\* Mutant: what was active is superseded whether anything takes its place or not.
SupersededAlways(new) == {[h EXCEPT !.active = FALSE] : h \in hypotheses}

\* With nothing created the case keeps its hypotheses.
Superseded(new) ==
  IF new = {} THEN hypotheses ELSE {[h EXCEPT !.active = FALSE] : h \in hypotheses}

\* settings.reevaluation_confidence_delta
Delta == 1500

Shift(a, b) == IF a > b THEN a - b ELSE b - a

Best(hs) == {h \in hs : \A g \in hs : g.confidence <= h.confidence}

\* Mutant: any hypothesis stands for the one that led.
ShiftedFromWeakest(new) ==
  \E top \in Best(new), old \in {h \in Active : \A g \in Active : h.confidence <= g.confidence} :
     Shift(top.confidence, old.confidence) > Delta

\* The new leading hypothesis against the best of those that were active.
Shifted(new) ==
  \E top \in Best(new), old \in Best(Active) : Shift(top.confidence, old.confidence) > Delta

Generate(new) ==
  /\ hypotheses' = Superseded(new) \cup new
  /\ \/ new = {} /\ UNCHANGED primary
     \/ \E top \in Best(new) : primary' = [gen |-> top.gen, category |-> top.category]

-----------------------------------------------------------------------------
(* decide_next_action.                                                     *)

ConfidenceActionThreshold == 6000

Lead == {h \in Active : Leads(h)}
Doubtful == \E h \in Lead : h.confidence < ConfidenceActionThreshold
Gaps == {f \in flags : f.kind = "missing"}

\* An action that waits for an approval is handed back, and ends the request: a re-evaluation
\* waits for it.
HandBack(pending) ==
  /\ live = "pending_approval" /\ live' = live
  /\ reeval' = pending /\ asked' = Nothing

\* An approved one is carried out; one that fails, or is left for review, ends the request too,
\* before anything is decided.
CarryOutInVain(pending) ==
  /\ live = "approved" /\ live' = "none"
  /\ reeval' = pending /\ asked' = Nothing

\* No action is in flight, or the approved one has been carried out: the rows the request has
\* written so far decide.  What follows the request for evidence is CasePipeline's, here it may
\* leave an action that waits.
DecideAnew ==
  /\ live # "pending_approval"
  /\ reeval' = FALSE
  /\ \/ /\ Lead' = {} /\ live' = "none"
        /\ asked' = [kind |-> "generic", about |-> {}]
     \/ /\ Doubtful' /\ live' = "none"
        /\ \E f \in Gaps' : asked' = [kind |-> "missing", about |-> f.about]
     \/ /\ Lead' # {} /\ ~(Doubtful' /\ Gaps' # {})
        /\ live' \in {"none", "pending_approval"} /\ asked' = Nothing

\* advance_case until it stalls; pending is needs_reevaluation as the cycle has left it.
Drive(pending) == HandBack(pending) \/ CarryOutInVain(pending) \/ DecideAnew

-----------------------------------------------------------------------------
(* What happens.                                                           *)

Init ==
  /\ clock = 0
  /\ version = [f \in Facts |-> 0]
  /\ when = [f \in Facts |-> 0]
  /\ flags = {} /\ hypotheses = {}
  /\ primary = [gen |-> 0, category |-> "another"]
  /\ reeval = FALSE /\ live = "none"
  /\ asked = Nothing
  /\ cycles = 0

Tick ==
  /\ clock < MaxClock
  /\ clock' = clock + 1
  /\ UNCHANGED << version, when, flags, hypotheses, primary, reeval, live, asked, cycles >>

\* POST /ingestion/evidence: a new fact or a correction of one.  The same request runs the cycle
\* of an open case, that is Run right after this step, unless its case_id names another case.
Deliver(f, delay) ==
  /\ version[f] < MaxVersions[f] /\ delay <= clock
  /\ version' = [version EXCEPT ![f] = @ + 1]
  /\ when' = [when EXCEPT ![f] = clock - delay]
  /\ UNCHANGED << clock, flags, hypotheses, primary, reeval, live, asked, cycles >>

\* run_case_cycle, the rules or a model proposing the specs.
Run(specs) ==
  /\ cycles < MaxCycles
  /\ cycles' = cycles + 1
  /\ flags' = flags \cup Raised
  /\ LET new == Created(specs)
     IN  Generate(new) /\ Drive(reeval \/ Shifted(new))
  /\ UNCHANGED << clock, version, when >>

RunOnRules == Run(FromFlags(flags \cup Raised))
RunOnAnswer(answer) == Run(FromAnswer(answer))

\* POST /approvals/{id}/decide.  A rejection ends the request: nothing is decided again, and what
\* was to be re-evaluated stays so until the next cycle.
Reject ==
  /\ live = "pending_approval" /\ live' = "none"
  /\ UNCHANGED << clock, version, when, flags, hypotheses, primary, reeval, asked, cycles >>

\* An approval is committed ...
Approve ==
  /\ live = "pending_approval" /\ live' = "approved"
  /\ UNCHANGED << clock, version, when, flags, hypotheses, primary, reeval, asked, cycles >>

\* ... and the same request drives the case on, or dies and leaves the action to the next cycle.
DriveApproved ==
  /\ live = "approved"
  /\ UNCHANGED << clock, version, when, flags, hypotheses, primary, cycles >>
  /\ CarryOutInVain(reeval) \/ DecideAnew

Next ==
  \/ Tick
  \/ \E f \in Facts, delay \in Delays : Deliver(f, delay)
  \/ RunOnRules
  \/ \E answer \in Answers : RunOnAnswer(answer)
  \/ Reject \/ Approve \/ DriveApproved

Spec == Init /\ [][Next]_vars

-----------------------------------------------------------------------------
(* Properties.                                                             *)

\* Every variable holds a value of its kind.
TypeOK ==
  /\ clock \in 0 .. MaxClock
  /\ version \in [Facts -> Nat] /\ \A f \in Facts : version[f] <= MaxVersions[f]
  /\ when \in [Facts -> 0 .. MaxClock]
  /\ flags \subseteq FlagRows
  /\ hypotheses \subseteq Hypotheses
  /\ primary \in [gen : 0 .. MaxCycles, category : Categories]
  /\ reeval \in BOOLEAN /\ live \in {"none", "pending_approval", "approved"}
  /\ asked \in Questions
  /\ cycles \in 0 .. MaxCycles

\* Every hypothesis the case has ever had cites a record in support, and only records that were
\* delivered (hypothesis_engine.py:5-8).
Grounded ==
  \A h \in hypotheses :
    /\ h.supports # {}
    /\ \A r \in h.supports \cup h.weakens : r.version \in 1 .. version[r.fact]

\* Whatever a model answers, and however the evidence has been corrected under a flag that is
\* still open, a cycle stores only hypotheses that cite a record in support and no record that
\* was never delivered or has been superseded by then (hypothesis_engine.py:5-8, 236-261).
GroundedWhenStored ==
  [][\A h \in hypotheses' :
       cycles' # cycles /\ h.gen = cycles' =>
         h.supports # {} /\ h.supports \cup h.weakens \subseteq Current]_vars

\* A case that has had a hypothesis has an active one, the active ones come from one generation
\* and compete under different categories, and the primary one is the strongest of them
\* (hypothesis_engine.py:283-297).
OneGenerationLeads ==
  /\ hypotheses # {} => \E h \in Best(Active) : Leads(h)
  /\ \A g, h \in Active : g.gen = h.gen /\ (g.category = h.category => g = h)

\* "A single supporting record never exceeds 0.5 confidence on its own"
\* (hypothesis_engine.py:195-198), when it is cited once.
LoneRecordIsCapped ==
  \A h \in hypotheses :
    (\E r \in h.supports : h.supports = {r}) /\ ~h.twice => h.confidence <= 5000

\* A cycle in which the confidence of the leading hypothesis shifts by more than the threshold
\* while an action waits for an approval leaves the case to be re-evaluated, and so does one that
\* found it so; no cycle and no approver takes that back before the engine can decide anew, and
\* the first cycle that finds no action in flight does: the re-evaluation is neither lost nor left
\* behind (README.md:62-65, nba_engine.py:143-163).
ReevaluationWaits ==
  [][/\ cycles' # cycles /\ live = "pending_approval"
        /\ \/ reeval
           \/ \E old \in Lead, new \in Lead' : Shift(old.confidence, new.confidence) > Delta
        => reeval'
     /\ reeval /\ ~reeval' => live # "pending_approval"
     /\ cycles' # cycles /\ live = "none" => ~reeval']_vars

\* The case stalls at "evidence that hasn't arrived yet" (orchestrator.py:3-5): a cycle asks for
\* the follow-up of a fact only when it has not arrived.
AsksForWhatIsMissing ==
  [][cycles' # cycles => \A f \in asked'.about : ~Answered(f)]_vars
=============================================================================
