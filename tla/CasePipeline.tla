---------------------------- MODULE CasePipeline ----------------------------
(***************************************************************************)
(* One case driven through the pipeline by HTTP requests: reconcile,       *)
(* generate hypotheses, then decide and execute next best actions until    *)
(* the loop stalls (engine/case_service.py, engine/nba_engine.py,          *)
(* engine/orchestrator.py, tools/executor.py, approvals/service.py and     *)
(* the routers that call them).                                            *)
(*                                                                         *)
(* A request works on one database session.  db is what is committed, tx   *)
(* is what the session of the running request sees; they differ only       *)
(* between the start of a request and its commit, and a crash of the       *)
(* process falls back to db.  What a connector did in the outside world    *)
(* (remedies, notices) survives a crash.                                   *)
(*                                                                         *)
(* Requests on the case are serial here: the next one starts when the      *)
(* session of the previous one has ended.                                  *)
(***************************************************************************)
EXTENDS RecoveryCatalog, FiniteSets

CONSTANTS
  Diagnoses,      \* what a generation may rank first: [category, confidence in percent]
  Exposures,      \* the financial exposures assess_impact may find, in cents
  Flags,          \* descriptions of the MISSING flags reconciliation may raise
  Outcomes,       \* how a connector call may end (see OutcomeKinds)
  Users,          \* the roles of the users who decide approvals
  MaxHypotheses,  \* bound: productive hypothesis generations
  MaxCrashes      \* bound: crashes of the process inside a request

Categories ==
  {"payment_captured_order_not_created", "order_confirmed_fulfillment_never_started",
   "fulfillment_shows_delivered_customer_disputes_receipt",
   "wrong_address_or_failed_delivery_attempt", "duplicate_charge",
   "return_received_refund_not_issued", "promised_promotion_or_price_not_honored",
   "in_store_and_online_order_conflict", "uncategorized"}

\* success: the effect took place.  review: it did, but something secondary failed.
\* failed: nothing took place.  lost: it took place, but every attempt timed out or raised.
OutcomeKinds == {"success", "review", "failed", "lost"}

ASSUME DiagnosesAssumption == Diagnoses \subseteq [category : Categories, confidence : 0 .. 100]
ASSUME ExposuresAssumption == Exposures \subseteq Nat
ASSUME FlagsAssumption == Flags \cap (OptionCodes \cup {"generic", "none"}) = {}
ASSUME OutcomesAssumption == Outcomes \subseteq OutcomeKinds
ASSUME UsersAssumption == Users \subseteq UserRole
ASSUME BoundsAssumption == MaxHypotheses \in Nat /\ MaxCrashes \in Nat

MaxAutoSteps == 12              \* case_service.MAX_AUTO_STEPS, range(12) in the router
ConfidenceActionThreshold == 60
ReevaluationDelta == 15

SystemicProneCategories ==
  {"order_confirmed_fulfillment_never_started", "wrong_address_or_failed_delivery_attempt",
   "fulfillment_shows_delivered_customer_disputes_receipt", "payment_captured_order_not_created"}

VARIABLES
  db,        \* committed rows of the case
  tx,        \* the rows as the running request's session sees them
  req,       \* control of the running request
  minted,    \* hypothesis ids handed out so far; ids are never reused
  remedies,  \* recoveries the connectors have carried out, in order
  notices,   \* customer messages the connectors have sent, in order
  crashes

vars == << db, tx, req, minted, remedies, notices, crashes >>

-----------------------------------------------------------------------------
(* Rows.                                                                   *)

\* What an action is about: the option code of a remedy (and of the notice about it), the
\* flag of an evidence request, "generic", or nothing.
Abouts == OptionCodes \cup Flags \cup {"generic", "none"}

\* An ActionRequest together with its Approval.  type, hyp and about are the parts of its
\* idempotency key; by is the role of the user who decided the approval.
Actions ==
  [type : ActionType, hyp : Nat, about : Abouts,
   status : ActionStatus, gated : BOOLEAN,
   role : ApproverRoles \cup {"none"}, by : UserRole \cup {"none"}, cost : Nat]

Key(a) == << a.type, a.hyp, a.about >>

NotAssessed == -1

\* The primary hypothesis; id 0 stands for none.  exposure is its impact assessment.
Hypotheses ==
  [id : Nat, category : Categories, confidence : 0 .. 100, exposure : Nat \cup {NotAssessed}]

NoHypothesis ==
  [id |-> 0, category |-> "uncategorized", confidence |-> 0, exposure |-> NotAssessed]

\* closed_at and closure_summary: the hypothesis and the remedy the summary names; hyp 0
\* while the case has never been closed.
Closures == [hyp : Nat, about : Abouts]

NeverClosed == [hyp |-> 0, about |-> "none"]

CaseRows ==
  [opened : BOOLEAN, status : CaseStatus, stage : Stages, reeval : BOOLEAN,
   evidence : BOOLEAN, itsm : BOOLEAN, missing : SUBSET Flags, hyp : Hypotheses,
   closure : Closures, actions : SUBSET Actions]

NewCase ==
  [opened |-> FALSE, status |-> "open", stage |-> IssueReported, reeval |-> FALSE,
   evidence |-> FALSE, itsm |-> FALSE, missing |-> {}, hyp |-> NoHypothesis,
   closure |-> NeverClosed, actions |-> {}]

\* taken: keys of the actions the loop of run_case_cycle has already returned.
Requests ==
  [phase : {"idle", "driving", "executing", "finished"}, kind : {"none", "cycle", "decide"},
   steps : 0 .. MaxAutoSteps, taken : SUBSET (ActionType \X Nat \X Abouts)]

Idle == [phase |-> "idle", kind |-> "none", steps |-> 0, taken |-> {}]

Started(kind) == [phase |-> "driving", kind |-> kind, steps |-> 0, taken |-> {}]

LiveActions(w) == {a \in w.actions : a.status \in LiveStatuses}
ActionsOfType(w, type) == {a \in w.actions : a.type = type}
\* Mutant: a failed action counts as done.
DoneOrFailed(w, type) == {a \in ActionsOfType(w, type) : a.status \in {"succeeded", "failed"}}

Done(w, type) == {a \in ActionsOfType(w, type) : a.status = "succeeded"}

\* Mutant: a later stage is overwritten by an earlier one.
WithStageAnyway(w, stage) == [w EXCEPT !.stage = stage]

WithStage(w, stage) == [w EXCEPT !.stage = LaterStage(w.stage, stage)]

WithStatus(w, a, status) ==
  [w EXCEPT !.actions = (@ \ {a}) \cup {[a EXCEPT !.status = status]}]

\* approvals.service.decide_approval: the approval and its action change together.
WithDecision(w, a, status, role) ==
  [w EXCEPT !.actions = (@ \ {a}) \cup {[a EXCEPT !.status = status, !.by = role]}]

NewAction(type, hyp, about, status) ==
  [type |-> type, hyp |-> hyp, about |-> about, status |-> status,
   gated |-> FALSE, role |-> "none", by |-> "none", cost |-> 0]
-----------------------------------------------------------------------------
(* The loop around decide_next_action.                                     *)

\* Mutants: no cap on the rounds; no look at what came back before; a failure does not stall.
StallsUncapped(a) ==
  \/ a.status \in StallingStatuses
  \/ req.kind = "cycle" /\ Key(a) \in req.taken
StallsWithoutTaken(a) ==
  a.status \in StallingStatuses \/ req.steps + 1 = MaxAutoSteps
StallsNotOnFailure(a) ==
  \/ a.status \in StallingStatuses \ {"failed"}
  \/ req.steps + 1 = MaxAutoSteps
  \/ req.kind = "cycle" /\ Key(a) \in req.taken

\* The loop ends on a stalling result, after MaxAutoSteps rounds and, in run_case_cycle
\* only, when the same action comes back.
Stalls(a) ==
  \/ a.status \in StallingStatuses
  \/ req.steps + 1 = MaxAutoSteps
  \/ req.kind = "cycle" /\ Key(a) \in req.taken

\* Mutant: the rounds are not counted.
LoopOnUncounted(w, a) ==
  /\ tx' = w
  /\ req' = [req EXCEPT !.phase = IF Stalls(a) THEN "finished" ELSE "driving",
                        !.taken = IF req.kind = "cycle" THEN @ \cup {Key(a)} ELSE @]

LoopOn(w, a) ==
  /\ tx' = w
  /\ req' = [req EXCEPT !.phase = IF Stalls(a) THEN "finished" ELSE "driving",
                        !.steps = @ + 1,
                        !.taken = IF req.kind = "cycle" THEN @ \cup {Key(a)} ELSE @]

\* decide_next_action returned None.
LoopEnds(w) ==
  /\ tx' = w
  /\ req' = [req EXCEPT !.phase = "finished"]

\* Mutant: approved actions are not picked up.
AdvanceProposedOnly(w, a) ==
  IF a.status = "proposed"
  THEN /\ tx' = WithStatus(w, a, "executing")
       /\ req' = [req EXCEPT !.phase = "executing"]
  ELSE LoopOn(w, a)

\* orchestrator.advance_case: what decide_next_action returned is executed at once unless
\* it waits for an approval or is already over.
Advance(w, a) ==
  IF a.status \in {"proposed", "approved"}
  THEN /\ tx' = WithStatus(w, a, "executing")
       /\ req' = [req EXCEPT !.phase = "executing"]
  ELSE LoopOn(w, a)

\* nba_engine._propose, after it has set status and stage in w: one row per idempotency
\* key, an existing one is handed back as it is.
Propose(w, a) ==
  \/ \E old \in w.actions : Key(old) = Key(a) /\ Advance(w, old)
  \/ /\ \A old \in w.actions : Key(old) # Key(a)
     /\ Advance([w EXCEPT !.actions = @ \cup {a}], a)

-----------------------------------------------------------------------------
(* decide_next_action, one action per branch.                              *)

\* The common part of every step of the server.
Driving == req.phase = "driving"
NoEffect == UNCHANGED << db, minted, remedies, notices, crashes >>

\* A live action is handed back whether or not a re-evaluation is pending.
ReturnLiveAction ==
  /\ Driving
  /\ \E a \in LiveActions(tx) : Advance(tx, a)
  /\ NoEffect

\* Mutant: a pending re-evaluation decides over the head of a live action.
DecidingOnReevaluation == Driving /\ (LiveActions(tx) = {} \/ tx.reeval)

\* Past the live action: the pending re-evaluation, if any, is taken up.
Deciding == Driving /\ LiveActions(tx) = {}
Current == [tx EXCEPT !.reeval = FALSE]

HasHypothesis == tx.hyp.id # 0
NeedsMoreEvidence == tx.hyp.confidence < ConfidenceActionThreshold /\ tx.missing # {}
Assessed == HasHypothesis /\ ~NeedsMoreEvidence /\ tx.hyp.exposure # NotAssessed
LooksSystemic ==
  /\ tx.hyp.category \in SystemicProneCategories
  /\ ActionsOfType(tx, "escalate_itsm") = {}
  /\ ~tx.itsm

\* 1. No hypothesis.
RequestAnyEvidence ==
  /\ Deciding
  /\ ~HasHypothesis
  /\ Propose([Current EXCEPT !.status = "pending_evidence"],
             NewAction("request_evidence", 0, "generic", "proposed"))
  /\ NoEffect

\* 2. Confidence too low and a flag to close; the query has no ORDER BY.
RequestMissingEvidence ==
  /\ Deciding
  /\ HasHypothesis /\ NeedsMoreEvidence
  /\ \E flag \in tx.missing :
       Propose(WithStage([Current EXCEPT !.status = "pending_evidence"], EvidenceChecked),
               NewAction("request_evidence", 0, flag, "proposed"))
  /\ NoEffect

\* 3. Assess the impact of this hypothesis, inline.
RunAnalysis ==
  /\ Deciding
  /\ HasHypothesis /\ ~NeedsMoreEvidence /\ tx.hyp.exposure = NotAssessed
  /\ \E exposure \in Exposures :
       LET a == NewAction("run_analysis", tx.hyp.id, "none", "succeeded")
       IN  LoopOn(WithStage([Current EXCEPT !.status = "investigating",
                                            !.hyp.exposure = exposure,
                                            !.actions = @ \cup {a}], ImpactAssessed), a)
  /\ NoEffect

\* 4. Possibly systemic: an incident before an individual remedy.
EscalateItsm ==
  /\ Deciding
  /\ Assessed /\ LooksSystemic
  /\ Propose([Current EXCEPT !.status = "investigating"],
             NewAction("escalate_itsm", tx.hyp.id, "none", "proposed"))
  /\ NoEffect

\* Mutant: only what was rejected under the leading hypothesis is out.
RejectedUnderLeader(w) ==
  {a.about : a \in {b \in ActionsOfType(w, "execute_recovery") :
                       b.status \in {"rejected", "failed"} /\ b.hyp = w.hyp.id}}

\* 5. Recovery.  The codes of every rejected or failed remedy of the case are out.
RejectedCodes(w) ==
  {a.about : a \in {b \in ActionsOfType(w, "execute_recovery") : b.status \in {"rejected", "failed"}}}

\* Mutant: each leading hypothesis gets a remedy of its own.
NeedsRecoveryPerHypothesis ==
  /\ Assessed /\ ~LooksSystemic
  /\ \A a \in Done(tx, "execute_recovery") : a.hyp # tx.hyp.id

NeedsRecovery == Assessed /\ ~LooksSystemic /\ Done(tx, "execute_recovery") = {}
Options == RankRecoveryOptions(tx.hyp.category, tx.hyp.exposure)

RecoveryAction(option) ==
  [type |-> "execute_recovery", hyp |-> tx.hyp.id, about |-> option.code,
   status |-> IF option.gated THEN "pending_approval" ELSE "proposed",
   gated |-> option.gated, role |-> IF option.gated THEN option.role ELSE "none",
   by |-> "none", cost |-> option.cost]

\* Mutant: a gated remedy is shown as in progress.
RecoveryStatusUngated(option) == "action_in_progress"

RecoveryStatus(option) == IF option.gated THEN "pending_approval" ELSE "action_in_progress"

ProposeRecovery ==
  /\ Deciding
  /\ NeedsRecovery
  /\ \E i \in DOMAIN Options :
       /\ IsChosen(Options, RejectedCodes(tx), i)
       /\ Propose(WithStage([Current EXCEPT !.status = RecoveryStatus(Options[i])],
                            RecoveryOptionsRanked),
                  RecoveryAction(Options[i]))
  /\ NoEffect

RecoveryOptionsExhausted ==
  /\ Deciding
  /\ NeedsRecovery
  /\ Remaining(Options, RejectedCodes(tx)) = {}
  /\ LoopEnds(Current)
  /\ NoEffect

\* 6. Tell the customer, once, what has been done.
Recovered == Assessed /\ ~LooksSystemic /\ Done(tx, "execute_recovery") # {}

\* Mutant: the message is drafted from any remedy of the case.
NotifyOfAnyRemedy ==
  /\ Deciding
  /\ Recovered
  /\ ActionsOfType(tx, "notify_customer") = {}
  /\ \E done \in ActionsOfType(tx, "execute_recovery") :
       Propose([Current EXCEPT !.status = "pending_customer_update"],
               NewAction("notify_customer", done.hyp, done.about, "proposed"))
  /\ NoEffect

NotifyCustomer ==
  /\ Deciding
  /\ Recovered
  /\ ActionsOfType(tx, "notify_customer") = {}
  /\ \E done \in Done(tx, "execute_recovery") :
       Propose([Current EXCEPT !.status = "pending_customer_update"],
               NewAction("notify_customer", done.hyp, done.about, "proposed"))
  /\ NoEffect

\* Mutants: closing without the customer having been told; closing once per hypothesis.
CloseOnRecovery ==
  /\ Deciding
  /\ Recovered
  /\ ActionsOfType(tx, "close_case") = {}
  /\ \E done \in Done(tx, "execute_recovery") :
       LET a == NewAction("close_case", tx.hyp.id, "none", "succeeded")
       IN  LoopOn(WithStage([Current EXCEPT !.status = "closed",
                                            !.closure = [hyp |-> tx.hyp.id, about |-> done.about],
                                            !.actions = @ \cup {a}], OutcomeRetained), a)
  /\ NoEffect
CloseAgain ==
  /\ Deciding
  /\ Recovered
  /\ Done(tx, "notify_customer") # {}
  /\ \A a \in ActionsOfType(tx, "close_case") : a.hyp # tx.hyp.id
  /\ \E done \in Done(tx, "execute_recovery") :
       LET a == NewAction("close_case", tx.hyp.id, "none", "succeeded")
       IN  LoopOn(WithStage([Current EXCEPT !.status = "closed",
                                            !.closure = [hyp |-> tx.hyp.id, about |-> done.about],
                                            !.actions = @ \cup {a}], OutcomeRetained), a)
  /\ NoEffect

\* 7. Close, inline.
CloseCase ==
  /\ Deciding
  /\ Recovered
  /\ Done(tx, "notify_customer") # {}
  /\ ActionsOfType(tx, "close_case") = {}
  /\ \E done \in Done(tx, "execute_recovery") :
       LET a == NewAction("close_case", tx.hyp.id, "none", "succeeded")
       IN  LoopOn(WithStage([Current EXCEPT !.status = "closed",
                                            !.closure = [hyp |-> tx.hyp.id, about |-> done.about],
                                            !.actions = @ \cup {a}], OutcomeRetained), a)
  /\ NoEffect

NothingToDo ==
  /\ Deciding
  /\ Recovered
  /\ ActionsOfType(tx, "notify_customer") # {}
  /\ Done(tx, "notify_customer") = {} \/ ActionsOfType(tx, "close_case") # {}
  /\ LoopEnds(Current)
  /\ NoEffect

-----------------------------------------------------------------------------
(* tools.executor.execute_action.                                          *)

StatusAfter(outcome) ==
  CASE outcome = "success" -> "succeeded"
    [] outcome = "review"  -> "needs_manual_review"
    [] OTHER               -> "failed"

StageAfter(w, a) ==
  CASE a.type \in {"escalate_itsm", "execute_recovery"} -> WithStage(w, ActionsCoordinated)
    [] a.type = "notify_customer" -> WithStage(w, CustomerUpdated)
    [] OTHER -> w

\* reconciler.reconcile_case: open flags are only ever added, and a case with evidence has a
\* timeline.
Reconciled(w, raised) ==
  IF w.evidence
  THEN WithStage([w EXCEPT !.missing = @ \cup raised], JourneyAssembled)
  ELSE w

\* A successful escalation brings the incident back as evidence.
WithIncident(w, raised) == Reconciled([w EXCEPT !.evidence = TRUE, !.itsm = TRUE], raised)

\* Mutant: the stage advances whatever the outcome.
ExecutedAnyway(w, a, outcome, raised) ==
  StageAfter(WithStatus(w, a, StatusAfter(outcome)), a)

Executed(w, a, outcome, raised) ==
  IF outcome \in {"success", "review"}
  THEN LET seen == IF a.type = "escalate_itsm" THEN WithIncident(w, raised) ELSE w
       IN  StageAfter(WithStatus(seen, a, StatusAfter(outcome)), a)
  ELSE WithStatus(w, a, StatusAfter(outcome))

\* What the connector did in the outside world.
Applied(ledger, a, type, outcome) ==
  IF a.type = type /\ outcome # "failed" THEN Append(ledger, a) ELSE ledger

FinishExecution ==
  /\ req.phase = "executing"
  /\ \E a \in tx.actions, outcome \in Outcomes, raised \in SUBSET Flags :
       /\ a.status = "executing"
       /\ a.type # "escalate_itsm" => raised = {}
       /\ LoopOn(Executed(tx, a, outcome, raised), [a EXCEPT !.status = StatusAfter(outcome)])
       /\ remedies' = Applied(remedies, a, "execute_recovery", outcome)
       /\ notices' = Applied(notices, a, "notify_customer", outcome)
  /\ UNCHANGED << db, minted, crashes >>

-----------------------------------------------------------------------------
(* run_case_cycle up to its loop, and the routes that call it.             *)

\* Evidence of the customer that has arrived by now.
Arrived(w, any, incident) ==
  [w EXCEPT !.evidence = @ \/ any \/ incident, !.itsm = @ \/ incident]

\* hypothesis_engine.generate_or_update_hypotheses with diagnosis d ranked first.
Generated(w, d, id) ==
  LET hyp   == [id |-> id, category |-> d.category, confidence |-> d.confidence,
                exposure |-> NotAssessed]
      shift == IF d.confidence > w.hyp.confidence THEN d.confidence - w.hyp.confidence
                                                  ELSE w.hyp.confidence - d.confidence
      next  == WithStage([w EXCEPT !.hyp = hyp], FailureLocated)
  IN  IF w.hyp.id # 0 /\ shift > ReevaluationDelta
      THEN [next EXCEPT !.reeval = TRUE, !.stage = FailureLocated]
      ELSE next

BeginCycle(w) ==
  \E any, incident \in BOOLEAN, raised \in SUBSET Flags :
    LET known == Reconciled(Arrived(w, any, incident), raised)
    IN  /\ ~known.evidence => raised = {}
        /\ req' = Started("cycle")
        /\ \/ tx' = known /\ UNCHANGED minted         \* nothing grounded to store
           \/ /\ known.evidence /\ minted < MaxHypotheses
              /\ minted' = minted + 1
              /\ \E d \in Diagnoses : tx' = Generated(known, d, minted + 1)

\* POST /cases
OpenCase ==
  /\ req.phase = "idle" /\ ~db.opened
  /\ BeginCycle([NewCase EXCEPT !.opened = TRUE])
  /\ UNCHANGED << db, remedies, notices, crashes >>

\* POST /cases/{id}/advance, and POST /ingestion/evidence for this case; neither looks at
\* the status of a case it is given by id.
AdvanceCase ==
  /\ req.phase = "idle" /\ db.opened
  /\ BeginCycle(db)
  /\ UNCHANGED << db, remedies, notices, crashes >>

-----------------------------------------------------------------------------
(* POST /approvals/{id}/decide.                                            *)

\* Mutant: any user of the queue decides.
MayDecideAnyRole(user, a) == a.status = "pending_approval"

MayDecide(user, a) == a.status = "pending_approval" /\ user \in {a.role, "admin"}

\* The decision is committed before the pipeline is driven on in a second transaction.
Approve ==
  /\ req.phase = "idle"
  /\ \E a \in db.actions, user \in Users :
       /\ MayDecide(user, a)
       /\ db' = WithDecision(db, a, "approved", user)
  /\ tx' = db'
  /\ req' = Started("decide")
  /\ UNCHANGED << minted, remedies, notices, crashes >>

Reject ==
  /\ req.phase = "idle"
  /\ \E a \in db.actions, user \in Users :
       /\ MayDecide(user, a)
       /\ db' = WithDecision(db, a, "rejected", user)
  /\ tx' = db'
  /\ UNCHANGED << req, minted, remedies, notices, crashes >>

-----------------------------------------------------------------------------
Commit ==
  /\ req.phase = "finished"
  /\ db' = tx
  /\ req' = Idle
  /\ UNCHANGED << tx, minted, remedies, notices, crashes >>

\* The process dies inside a request: the open transaction is lost, effects are not.
Crash ==
  /\ req.phase # "idle"
  /\ crashes < MaxCrashes
  /\ crashes' = crashes + 1
  /\ tx' = db
  /\ req' = Idle
  /\ UNCHANGED << db, minted, remedies, notices >>

Init ==
  /\ db = NewCase
  /\ tx = NewCase
  /\ req = Idle
  /\ minted = 0
  /\ remedies = << >>
  /\ notices = << >>
  /\ crashes = 0

\* Steps the server takes by itself once a request has come in.
ServerStep ==
  \/ ReturnLiveAction
  \/ RequestAnyEvidence
  \/ RequestMissingEvidence
  \/ RunAnalysis
  \/ EscalateItsm
  \/ ProposeRecovery
  \/ RecoveryOptionsExhausted
  \/ NotifyCustomer
  \/ CloseCase
  \/ NothingToDo
  \/ FinishExecution
  \/ Commit

Next ==
  \/ ServerStep
  \/ OpenCase
  \/ AdvanceCase
  \/ Approve
  \/ Reject
  \/ Crash

\* A request that has been accepted is run to its end by the event loop; nobody has to send
\* one, and the connectors answer or time out.
Spec == Init /\ [][Next]_vars /\ WF_vars(ServerStep)

-----------------------------------------------------------------------------
(* Properties.                                                             *)

\* Every variable holds what the columns it stands for can hold.
TypeOK ==
  /\ db \in CaseRows
  /\ tx \in CaseRows
  /\ req \in Requests
  /\ minted \in 0 .. MaxHypotheses
  /\ remedies \in Seq(Actions)
  /\ notices \in Seq(Actions)
  /\ crashes \in 0 .. MaxCrashes

\* nba_engine.py promises that a case advances by at most one live action at a time: two
\* requests, a re-evaluation or a retried call never leave a second one in flight.
OneLiveAction ==
  \A w \in {db, tx} : \A a, b \in LiveActions(w) : a = b

\* Money gate: whatever a connector was asked to do that costs the threshold or more, or is
\* the exceptional remedy, was approved by the role its option names or by an admin.  The
\* delivery remedy is left out: its builder never asks for approval.
ApprovalGate ==
  \A i \in DOMAIN remedies :
    LET r == remedies[i]
    IN  \/ r.cost < Threshold /\ r.about # "exceptional_remedy"
        \/ r.about = "reroute_or_reattempt_delivery"
        \/ r.by \in {r.role, "admin"} /\ r.role # "none"

\* Once a remedy has been rejected by a human, or has failed, the engine never puts the same
\* option forward again, under whichever hypothesis later leads.
RejectedStaysOut ==
  \A w \in {db, tx} :
    \A a, b \in ActionsOfType(w, "execute_recovery") :
      a.status \in LiveStatuses /\ b.status \in {"rejected", "failed"} => a.about # b.about

\* A case ends up with one successful remedy, and none is in flight next to it.
OneRemedySucceeds ==
  \A w \in {db, tx} :
    \A a \in Done(w, "execute_recovery"), b \in ActionsOfType(w, "execute_recovery") :
      b.status \in LiveStatuses \cup {"succeeded"} => a = b

\* Every remedy the outside world saw is on record in the rows of the case, but for one that
\* each crash may have rolled back: a request never carries out more than one remedy before
\* it stalls or commits.
RemediesAccounted ==
  Len(remedies) <= crashes + Cardinality({a \in ActionsOfType(tx, "execute_recovery") :
                                            a.status \in {"succeeded", "needs_manual_review", "failed"}})

\* customer_messaging.py: a message never speaks of something that has not happened.  The
\* remedy it names has been carried out, whatever was rolled back meanwhile.
ToldWhatHappened ==
  \A n \in DOMAIN notices :
    \E r \in DOMAIN remedies :
      remedies[r].hyp = notices[n].hyp /\ remedies[r].about = notices[n].about

\* A closed case has been put right: one remedy succeeded, the customer was told about that
\* one, the summary names it, and nothing is still in flight or awaits an approval.
ClosedIsJustified ==
  \A w \in {db, tx} :
    w.status = "closed" =>
      /\ LiveActions(w) = {}
      /\ \E a \in Done(w, "execute_recovery"), n \in Done(w, "notify_customer") :
           /\ a.hyp = n.hyp /\ a.about = n.about
           /\ w.closure.about = a.about

\* README: the summary a case closes with is frozen.  Later evidence, new hypotheses and
\* further cycles do not rewrite it.
ClosureFrozen ==
  [][db.closure # NeverClosed => db'.closure = db.closure]_vars

\* README: the stage that is displayed is never turned back, but for one reason: a new
\* hypothesis leads whose confidence is off by more than the threshold, and then the case is
\* located again at the least.  New evidence, retries and further decisions cannot do it.
Reevaluates(v, w) ==
  /\ v.hyp.id # 0 /\ w.hyp.id # v.hyp.id
  /\ \/ w.hyp.confidence - v.hyp.confidence > ReevaluationDelta
     \/ v.hyp.confidence - w.hyp.confidence > ReevaluationDelta
  /\ w.stage >= FailureLocated

StageFallsOnReevaluation ==
  [][db'.stage < db.stage => Reevaluates(db, db')]_vars

\* A case with an approval to decide says so in its status, so that the queue and the case
\* list agree, through deferred re-evaluations and cycles that find nothing new.
PendingIsVisible ==
  \A w \in {db, tx} :
    (\E a \in w.actions : a.status = "pending_approval") => w.status = "pending_approval"

\* The displayed stage never claims an action, a message or a closure that did not succeed,
\* although executions fail and re-evaluation moves the stage back.
StageClaimsHappened ==
  \A w \in {db, tx} :
    LET effective(types) == \E a \in w.actions :
                              a.type \in types /\ a.status \in {"succeeded", "needs_manual_review"}
    IN  /\ w.stage = ActionsCoordinated => effective({"escalate_itsm", "execute_recovery"})
        /\ w.stage = CustomerUpdated => effective({"notify_customer"})
        /\ w.stage = OutcomeRetained => w.closure # NeverClosed

\* What is committed is settled: no proposed or executing action is ever left behind, and an
\* approved one only while the request that approved it is still at work or has crashed.
SettledWhenCommitted ==
  \A a \in db.actions :
    /\ a.status \notin {"proposed", "executing"}
    /\ a.status = "approved" => crashes > 0 \/ req.kind = "decide"

\* run_case_cycle stalls by itself: while a case has no more than seven flags for missing evidence
\* the cap on its rounds does not cut it short (theorem CyclesStall of RoundsProofs).
CycleStallsByItself ==
  req.kind = "cycle" => req.steps < MaxAutoSteps

\* Every request that is taken up ends, whatever the engine decides on the way.
RequestTerminates ==
  req.phase # "idle" ~> req.phase = "idle"

\* An approval that was given is acted upon without anybody calling again, unless the process
\* crashes between the two transactions of the request.
ApprovedIsCarriedOut ==
  (\E a \in db.actions : a.status = "approved")
    ~> (crashes > 0 \/ \A a \in db.actions : a.status # "approved")

\* The case as the rest of the system sees it.
Progress(w) ==
  [remedied |-> Done(w, "execute_recovery") # {},
   told     |-> Done(w, "notify_customer") # {},
   closed   |-> w.closure # NeverClosed]

Lifecycle ==
  INSTANCE CaseLifecycle WITH
    saved <- Progress(db), working <- Progress(tx), paid <- Len(remedies), sent <- Len(notices)

\* The pipeline keeps the promise of CaseLifecycle: no second remedy or message while one is on
\* record, through rejections, failures, new hypotheses, re-evaluations and crashes.
FollowsLifecycle == Lifecycle!Spec

-----------------------------------------------------------------------------
(* What the documents say and the code does not keep.                      *)

\* tools/base.py: a partial success is not a full retry of the primary effect.  No remedy
\* with the same option is carried out twice on one case.
EffectNotRepeated ==
  \A i, j \in DOMAIN remedies : remedies[i].about = remedies[j].about => i = j

\* ingestion.py: evidence drives open cases only; enums.py: a closed case that is taken up
\* again is "reopened".
ClosedOnlyReopens ==
  [][db.status = "closed" => db'.status \in {"closed", "reopened"}]_vars
=============================================================================
