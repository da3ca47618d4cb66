------------------------- MODULE CasePipelineProofs -------------------------
(***************************************************************************)
(* Safety of CasePipeline for every value of its constants.                *)
(*                                                                         *)
(* A row of the case is Sound when its actions respect each other: one is  *)
(* live, none of the live ones repeats a rejected option, money was        *)
(* cleared before it moved, a pending approval shows in the status, and    *)
(* one remedy succeeds.  Both the committed row and the session's row are  *)
(* sound; every operation of the session keeps them so because it either   *)
(* leaves the actions alone, adds one while none is live, or moves the one *)
(* live action on.                                                         *)
(***************************************************************************)
EXTENDS CasePipeline, TLAPS

\* A remedy that may be carried out.
Cleared(a) ==
  \/ a.cost < Threshold /\ a.about # "exceptional_remedy"
  \/ a.about = "reroute_or_reattempt_delivery"
  \/ a.by \in {a.role, "admin"} /\ a.role # "none"

OneLive(w) == \A a, b \in LiveActions(w) : a = b

GateKept(w) ==
  \A a \in ActionsOfType(w, "execute_recovery") :
    /\ a.status \notin {"pending_approval", "rejected"} => Cleared(a)
    /\ a.status = "pending_approval" => a.role # "none"

RejectedOut(w) ==
  \A a, b \in ActionsOfType(w, "execute_recovery") :
    a.status \in LiveStatuses /\ b.status \in {"rejected", "failed"} => a.about # b.about

OneSuccess(w) ==
  \A a \in Done(w, "execute_recovery"), b \in ActionsOfType(w, "execute_recovery") :
    b.status \in LiveStatuses \cup {"succeeded"} => a = b

PendingShown(w) ==
  (\E a \in w.actions : a.status = "pending_approval") => w.status = "pending_approval"

Sound(w) ==
  /\ OneLive(w)
  /\ GateKept(w)
  /\ RejectedOut(w)
  /\ OneSuccess(w)
  /\ PendingShown(w)

\* The loop runs only while rounds are left.
RoundsLeft == req.phase \in {"driving", "executing"} => req.steps < MaxAutoSteps

IInv ==
  /\ TypeOK
  /\ RoundsLeft
  /\ Sound(db)
  /\ Sound(tx)
  /\ ApprovalGate

-----------------------------------------------------------------------------
(* The catalog.                                                            *)

\* What holds of every option: gated ones name an approver, and an ungated one is cheap or
\* is the delivery remedy.
GoodOptions ==
  {o \in RecoveryOption :
     /\ o.gated => o.role \in ApproverRoles
     /\ \/ o.gated
        \/ o.code = "reroute_or_reattempt_delivery"
        \/ o.cost < Threshold /\ o.code # "exceptional_remedy"}

LEMMA ShareIsNat ==
  ASSUME NEW e \in Nat, NEW p \in Nat
  PROVE  Share(e, p) \in Nat
<1>1. e * p \in Nat  OBVIOUS
<1>2. (e * p + 50) \div 100 \in Nat  BY <1>1
<1> QED  BY <1>2 DEF Share

\* A priced option is gated from the threshold on, whatever its cost.
LEMMA PricedIsGood ==
  ASSUME NEW code \in OptionCodes \ {"exceptional_remedy"}, NEW cost \in Nat,
         NEW role \in ApproverRoles
  PROVE  Priced(code, cost, role) \in GoodOptions
<1> DEFINE gate == cost >= Threshold
           o == [code |-> code, cost |-> cost, gated |-> gate, role |-> role]
<1>1. gate \in BOOLEAN  OBVIOUS
<1>2. gate \/ cost < Threshold  BY ThresholdAssumption
<1> HIDE DEF gate
<1>3. o \in RecoveryOption  BY <1>1 DEF RecoveryOption
<1>4. o \in GoodOptions  BY <1>2, <1>3 DEF GoodOptions
<1> QED  BY <1>4 DEF Priced, gate

\* Every option rank_recovery_options returns is a good one.
LEMMA RankedAreGood ==
  ASSUME NEW category \in Categories, NEW exposure \in Nat,
         NEW i \in DOMAIN RankRecoveryOptions(category, exposure)
  PROVE  RankRecoveryOptions(category, exposure)[i] \in GoodOptions
<1> DEFINE builders == CategoryOptions(category, exposure)
<1>1. Apology \in GoodOptions
  BY ThresholdAssumption DEF Apology, Ungated, GoodOptions, RecoveryOption, OptionCodes
<1>2. Exceptional \in GoodOptions
  BY DEF Exceptional, GoodOptions, RecoveryOption, OptionCodes, ApproverRoles
<1>3. builders \in Seq(GoodOptions)
  <2>1. /\ Share(exposure, 30) \in Nat /\ Share(exposure, 10) \in Nat
        /\ Share(exposure, 15) \in Nat /\ Share(exposure, 20) \in Nat
    BY ShareIsNat
  <2>2. AtMost(2500, Share(exposure, 10)) \in Nat
    BY <2>1 DEF AtMost
  <2>3. /\ Priced("reverse_duplicate_charge", exposure, "finance_approver") \in GoodOptions
        /\ Priced("expedited_reshipment", Share(exposure, 30), "supervisor") \in GoodOptions
        /\ Priced("full_refund", exposure, "finance_approver") \in GoodOptions
        /\ Priced("replacement_order", exposure, "supervisor") \in GoodOptions
        /\ Priced("goodwill_credit", AtMost(2500, Share(exposure, 10)), "supervisor") \in GoodOptions
        /\ Priced("issue_outstanding_refund", exposure, "finance_approver") \in GoodOptions
        /\ Priced("price_adjustment", exposure, "supervisor") \in GoodOptions
        /\ Priced("manual_reconciliation_credit", Share(exposure, 20), "supervisor") \in GoodOptions
    BY <2>1, <2>2, PricedIsGood DEF OptionCodes, ApproverRoles
  <2>4. Ungated("reroute_or_reattempt_delivery", Share(exposure, 15)) \in GoodOptions
    BY <2>1 DEF Ungated, GoodOptions, RecoveryOption, OptionCodes
  <2> QED  BY <2>3, <2>4 DEF CategoryOptions, Categories
<1>4. RankRecoveryOptions(category, exposure) \in Seq(GoodOptions)
  BY <1>1, <1>2, <1>3 DEF RankRecoveryOptions
<1> QED  BY <1>4
-----------------------------------------------------------------------------
(* How an operation on the actions of a row keeps it sound.                *)

\* Nothing changes but columns no part of soundness looks at.
LEMMA SoundSame ==
  ASSUME NEW v, NEW w, Sound(v), w.actions = v.actions, w.status = v.status
  PROVE  Sound(w)
BY DEF Sound, OneLive, GateKept, RejectedOut, OneSuccess, PendingShown,
       LiveActions, ActionsOfType, Done

\* While nothing is live the status is free.
LEMMA SoundQuiet ==
  ASSUME NEW v, NEW w, Sound(v), w.actions = v.actions, LiveActions(v) = {}
  PROVE  Sound(w)
<1>1. \A a \in v.actions : a.status # "pending_approval"
  BY DEF LiveActions, LiveStatuses
<1> QED
  BY <1>1 DEF Sound, OneLive, GateKept, RejectedOut, OneSuccess, PendingShown,
              LiveActions, ActionsOfType, Done

\* One action is added while nothing is live: a recovery only if none has succeeded, its
\* option is not out, and it waits for its approver or needs none.
LEMMA SoundAdd ==
  ASSUME NEW v, NEW w, NEW a, Sound(v), LiveActions(v) = {},
         w.actions = v.actions \cup {a},
         a.status = "pending_approval" => w.status = "pending_approval",
         a.type = "execute_recovery" =>
           /\ a.status \in {"proposed", "pending_approval"}
           /\ a.status = "proposed" => Cleared(a)
           /\ a.status = "pending_approval" => a.role # "none"
           /\ a.about \notin RejectedCodes(v)
           /\ Done(v, "execute_recovery") = {}
  PROVE  Sound(w)
<1>0. \A x \in v.actions : x.status \notin LiveStatuses
  BY DEF LiveActions
<1>1. OneLive(w)
  BY <1>0 DEF OneLive, LiveActions
<1>2. GateKept(w)
  BY DEF GateKept, Sound, ActionsOfType
<1>3. RejectedOut(w)
  BY <1>0 DEF RejectedOut, Sound, ActionsOfType, RejectedCodes, LiveStatuses
<1>4. OneSuccess(w)
  BY <1>0 DEF OneSuccess, Sound, ActionsOfType, Done, LiveStatuses
<1>5. PendingShown(w)
  BY <1>0 DEF PendingShown, LiveStatuses
<1> QED  BY <1>1, <1>2, <1>3, <1>4, <1>5 DEF Sound

\* The live action moves on, past its approval.
LEMMA SoundMove ==
  ASSUME NEW v, NEW w, NEW a \in v.actions, NEW b, Sound(v), a.status \in LiveStatuses,
         w.actions = (v.actions \ {a}) \cup {b}, w.status = v.status,
         b.type = a.type, b.about = a.about,
         b.status \in ActionStatus \ {"proposed", "pending_approval"},
         a.type = "execute_recovery" => b.status = "rejected" \/ Cleared(b)
  PROVE  Sound(w)
<1>0. \A x \in v.actions \ {a} : x.status \notin LiveStatuses
  BY DEF Sound, OneLive, LiveActions
<1>1. OneLive(w)
  BY <1>0 DEF OneLive, LiveActions
<1>2. GateKept(w)
  BY DEF GateKept, Sound, ActionsOfType
<1>3. RejectedOut(w)
  <2> SUFFICES ASSUME NEW x \in ActionsOfType(w, "execute_recovery"),
                      NEW y \in ActionsOfType(w, "execute_recovery"),
                      x.status \in LiveStatuses, y.status \in {"rejected", "failed"}
               PROVE  x.about # y.about
    BY DEF RejectedOut
  <2>1. x = b /\ y # b
    BY <1>0 DEF ActionsOfType, LiveStatuses
  <2>2. y \in ActionsOfType(v, "execute_recovery") /\ a \in ActionsOfType(v, "execute_recovery")
    BY <2>1 DEF ActionsOfType
  <2> QED  BY <2>1, <2>2 DEF Sound, RejectedOut
<1>4. OneSuccess(w)
  <2> SUFFICES ASSUME NEW x \in Done(w, "execute_recovery"),
                      NEW y \in ActionsOfType(w, "execute_recovery"),
                      y.status \in LiveStatuses \cup {"succeeded"}, x # y
               PROVE  FALSE
    BY DEF OneSuccess
  <2>1. CASE x = b
    <3>1. y \in Done(v, "execute_recovery") /\ y # a /\ a \in ActionsOfType(v, "execute_recovery")
      BY <2>1, <1>0 DEF Done, ActionsOfType
    <3> QED  BY <3>1 DEF Sound, OneSuccess
  <2>2. CASE x # b /\ y = b
    <3>1. x \in Done(v, "execute_recovery") /\ x # a /\ a \in ActionsOfType(v, "execute_recovery")
      BY <2>2 DEF Done, ActionsOfType
    <3> QED  BY <3>1 DEF Sound, OneSuccess
  <2>3. CASE x # b /\ y # b
    BY <2>3 DEF Sound, OneSuccess, Done, ActionsOfType
  <2> QED  BY <2>1, <2>2, <2>3
<1>5. PendingShown(w)
  BY <1>0 DEF PendingShown, Sound, LiveStatuses
<1> QED  BY <1>1, <1>2, <1>3, <1>4, <1>5 DEF Sound

-----------------------------------------------------------------------------
(* Types of the operations on a row.                                       *)

LEMMA StageType ==
  ASSUME NEW w \in CaseRows, NEW stage \in Stages
  PROVE  /\ WithStage(w, stage) \in CaseRows
         /\ WithStage(w, stage).actions = w.actions
         /\ WithStage(w, stage).status = w.status
<1>1. LaterStage(w.stage, stage) \in Stages
  BY DEF LaterStage, CaseRows
<1> QED  BY <1>1 DEF WithStage, CaseRows

LEMMA StatusType ==
  ASSUME NEW w \in CaseRows, NEW a \in w.actions, NEW status \in ActionStatus
  PROVE  /\ WithStatus(w, a, status) \in CaseRows
         /\ WithStatus(w, a, status).status = w.status
         /\ WithStatus(w, a, status).actions = (w.actions \ {a}) \cup {[a EXCEPT !.status = status]}
         /\ [a EXCEPT !.status = status] \in Actions
<1>1. a \in Actions  BY DEF CaseRows
<1>2. [a EXCEPT !.status = status] \in Actions  BY <1>1 DEF Actions
<1> QED  BY <1>2 DEF WithStatus, CaseRows

LEMMA StageConstants ==
  /\ JourneyAssembled \in Stages /\ FailureLocated \in Stages /\ EvidenceChecked \in Stages
  /\ ImpactAssessed \in Stages /\ RecoveryOptionsRanked \in Stages
  /\ ActionsCoordinated \in Stages /\ CustomerUpdated \in Stages /\ OutcomeRetained \in Stages
BY DEF Stages, IssueReported, JourneyAssembled, FailureLocated, EvidenceChecked, ImpactAssessed,
       RecoveryOptionsRanked, ActionsCoordinated, CustomerUpdated, OutcomeRetained
-----------------------------------------------------------------------------
(* The steps of the loop.                                                  *)

\* What a step of the loop leaves behind.
LoopKept == tx' \in CaseRows /\ Sound(tx') /\ req' \in Requests /\ RoundsLeft'

LEMMA LoopOnKeeps ==
  ASSUME req \in Requests, req.steps < MaxAutoSteps,
         NEW w \in CaseRows, Sound(w), NEW a \in Actions, LoopOn(w, a)
  PROVE  LoopKept
<1>1. Key(a) \in ActionType \X Nat \X Abouts
  BY DEF Key, Actions
<1>2. req.steps \in Nat /\ req.steps + 1 \in 0 .. MaxAutoSteps
  BY DEF Requests, MaxAutoSteps
<1>3. req' \in Requests
  BY <1>1, <1>2 DEF LoopOn, Requests
<1>4. RoundsLeft'
  BY <1>2 DEF LoopOn, Requests, RoundsLeft, Stalls, MaxAutoSteps
<1> QED  BY <1>3, <1>4 DEF LoopOn, LoopKept

LEMMA LoopEndsKeeps ==
  ASSUME req \in Requests, NEW w \in CaseRows, Sound(w), LoopEnds(w)
  PROVE  LoopKept
BY DEF LoopEnds, Requests, RoundsLeft, LoopKept

LEMMA AdvanceKeeps ==
  ASSUME req \in Requests, req.steps < MaxAutoSteps,
         NEW w \in CaseRows, Sound(w), NEW a \in w.actions, Advance(w, a)
  PROVE  LoopKept
<1>0. a \in Actions  BY DEF CaseRows
<1>1. CASE a.status \in {"proposed", "approved"}
  <2> DEFINE b == [a EXCEPT !.status = "executing"]
  <2>1. /\ tx' = WithStatus(w, a, "executing")
        /\ req' = [req EXCEPT !.phase = "executing"]
    BY <1>1 DEF Advance
  <2>2. "executing" \in ActionStatus  BY DEF ActionStatus
  <2>3. /\ tx' \in CaseRows /\ tx'.status = w.status
        /\ tx'.actions = (w.actions \ {a}) \cup {b}
    BY <2>1, <2>2, StatusType
  <2>4. /\ b.type = a.type /\ b.about = a.about /\ b.status = "executing"
        /\ b.cost = a.cost /\ b.by = a.by /\ b.role = a.role
    BY <1>0 DEF Actions
  <2>5. a.type = "execute_recovery" => Cleared(b)
    BY <1>1, <2>4 DEF Sound, GateKept, ActionsOfType, Cleared
  <2>6. a.status \in LiveStatuses
    BY <1>1 DEF LiveStatuses
  <2>7. b.status \in ActionStatus \ {"proposed", "pending_approval"}
    BY <2>4 DEF ActionStatus
  <2> HIDE DEF b
  <2>8. Sound(tx')
    BY <2>3, <2>4, <2>5, <2>6, <2>7, SoundMove
  <2>9. req' \in Requests /\ RoundsLeft'
    BY <2>1 DEF Requests, RoundsLeft
  <2> QED  BY <2>3, <2>8, <2>9 DEF LoopKept
<1>2. CASE a.status \notin {"proposed", "approved"}
  <2>1. LoopOn(w, a)  BY <1>2 DEF Advance
  <2> QED  BY <1>0, <2>1, LoopOnKeeps
<1> QED  BY <1>1, <1>2

\* v is the row the engine decided on, w the same with another status, stage or flag.
LEMMA ProposeKeeps ==
  ASSUME req \in Requests, req.steps < MaxAutoSteps,
         NEW v, Sound(v), LiveActions(v) = {},
         NEW w \in CaseRows, w.actions = v.actions,
         NEW a \in Actions,
         a.status = "pending_approval" => w.status = "pending_approval",
         a.type = "execute_recovery" =>
           /\ a.status \in {"proposed", "pending_approval"}
           /\ a.status = "proposed" => Cleared(a)
           /\ a.status = "pending_approval" => a.role # "none"
           /\ a.about \notin RejectedCodes(v)
           /\ Done(v, "execute_recovery") = {},
         Propose(w, a)
  PROVE  LoopKept
<1>1. CASE \E old \in w.actions : Key(old) = Key(a) /\ Advance(w, old)
  <2>1. Sound(w)  BY SoundQuiet
  <2> QED  BY <1>1, <2>1, AdvanceKeeps
<1>2. CASE Advance([w EXCEPT !.actions = @ \cup {a}], a)
  <2> DEFINE u == [w EXCEPT !.actions = @ \cup {a}]
  <2>1. u \in CaseRows /\ u.actions = v.actions \cup {a} /\ u.status = w.status
    BY DEF CaseRows
  <2>2. Advance(u, a)  BY <1>2
  <2> HIDE DEF u
  <2>3. Sound(u)  BY <2>1, SoundAdd
  <2>4. a \in u.actions  BY <2>1
  <2> QED  BY <2>1, <2>2, <2>3, <2>4, AdvanceKeeps
<1> QED  BY <1>1, <1>2 DEF Propose

\* A decision step touches the session and its control only.
LEMMA SessionStep ==
  ASSUME IInv, LoopKept, NoEffect
  PROVE  IInv'
BY DEF IInv, TypeOK, LoopKept, NoEffect, ApprovalGate

LEMMA DrivingFacts ==
  ASSUME IInv, Driving
  PROVE  /\ req \in Requests /\ req.steps < MaxAutoSteps
         /\ tx \in CaseRows /\ Sound(tx)
BY DEF IInv, TypeOK, Driving, RoundsLeft

\* The row decided on, with the re-evaluation taken up and another status.
LEMMA CurrentType ==
  ASSUME tx \in CaseRows, NEW status \in CaseStatus
  PROVE  /\ [Current EXCEPT !.status = status] \in CaseRows
         /\ [Current EXCEPT !.status = status].actions = tx.actions
         /\ [Current EXCEPT !.status = status].status = status
BY DEF Current, CaseRows

LEMMA NewActionType ==
  ASSUME NEW type \in ActionType, NEW hyp \in Nat,
         NEW about \in Abouts, NEW status \in ActionStatus
  PROVE  /\ NewAction(type, hyp, about, status) \in Actions
         /\ NewAction(type, hyp, about, status).type = type
         /\ NewAction(type, hyp, about, status).status = status
BY DEF NewAction, Actions

LEMMA AboutsMembers ==
  "generic" \in Abouts /\ "none" \in Abouts /\ Flags \subseteq Abouts /\ OptionCodes \subseteq Abouts
BY DEF Abouts

LEMMA ReturnLiveActionKeeps ==
  ASSUME IInv, ReturnLiveAction
  PROVE  IInv'
<1>1. PICK a \in LiveActions(tx) : Advance(tx, a)
  BY DEF ReturnLiveAction
<1>2. a \in tx.actions  BY DEF LiveActions
<1>3. LoopKept
  BY <1>1, <1>2, DrivingFacts, AdvanceKeeps DEF ReturnLiveAction
<1> QED  BY <1>3, SessionStep DEF ReturnLiveAction

LEMMA RequestAnyEvidenceKeeps ==
  ASSUME IInv, RequestAnyEvidence
  PROVE  IInv'
<1> DEFINE w == [Current EXCEPT !.status = "pending_evidence"]
           a == NewAction("request_evidence", 0, "generic", "proposed")
<1>1. Deciding /\ Propose(w, a) /\ NoEffect
  BY DEF RequestAnyEvidence
<1>2. w \in CaseRows /\ w.actions = tx.actions
  BY <1>1, DrivingFacts, CurrentType DEF CaseStatus, Deciding
<1>3. a \in Actions /\ a.type = "request_evidence" /\ a.status = "proposed"
  BY NewActionType, AboutsMembers DEF ActionType, ActionStatus
<1> HIDE DEF w, a
<1>4. LoopKept
  BY <1>1, <1>2, <1>3, DrivingFacts, ProposeKeeps DEF Deciding
<1> QED  BY <1>1, <1>4, SessionStep

LEMMA RequestMissingEvidenceKeeps ==
  ASSUME IInv, RequestMissingEvidence
  PROVE  IInv'
<1>1. PICK flag \in tx.missing :
        Propose(WithStage([Current EXCEPT !.status = "pending_evidence"], EvidenceChecked),
                NewAction("request_evidence", 0, flag, "proposed"))
  BY DEF RequestMissingEvidence
<1> DEFINE u == [Current EXCEPT !.status = "pending_evidence"]
           w == WithStage(u, EvidenceChecked)
           a == NewAction("request_evidence", 0, flag, "proposed")
<1>2. Deciding /\ NoEffect
  BY DEF RequestMissingEvidence
<1>3. u \in CaseRows /\ u.actions = tx.actions
  BY <1>2, DrivingFacts, CurrentType DEF CaseStatus, Deciding
<1>4. w \in CaseRows /\ w.actions = tx.actions
  BY <1>3, StageType, StageConstants
<1>5. flag \in Flags
  BY <1>2, DrivingFacts DEF CaseRows, Deciding
<1>6. a \in Actions /\ a.type = "request_evidence" /\ a.status = "proposed"
  BY <1>5, NewActionType, AboutsMembers DEF ActionType, ActionStatus
<1>7. Propose(w, a)  BY <1>1
<1> HIDE DEF w, a
<1>8. LoopKept
  BY <1>2, <1>4, <1>6, <1>7, DrivingFacts, ProposeKeeps DEF Deciding
<1> QED  BY <1>2, <1>8, SessionStep

LEMMA EscalateItsmKeeps ==
  ASSUME IInv, EscalateItsm
  PROVE  IInv'
<1> DEFINE w == [Current EXCEPT !.status = "investigating"]
           a == NewAction("escalate_itsm", tx.hyp.id, "none", "proposed")
<1>1. Deciding /\ Propose(w, a) /\ NoEffect
  BY DEF EscalateItsm
<1>2. w \in CaseRows /\ w.actions = tx.actions
  BY <1>1, DrivingFacts, CurrentType DEF CaseStatus, Deciding
<1>3. tx.hyp.id \in Nat
  BY <1>1, DrivingFacts DEF CaseRows, Hypotheses, Deciding
<1>a. /\ "escalate_itsm" \in ActionType /\ "proposed" \in ActionStatus
      /\ "none" \in Abouts
  BY AboutsMembers DEF ActionType, ActionStatus
<1>4. a \in Actions /\ a.type = "escalate_itsm" /\ a.status = "proposed"
  BY <1>3, <1>a, NewActionType
<1> HIDE DEF w, a
<1>5. LoopKept
  BY <1>1, <1>2, <1>4, DrivingFacts, ProposeKeeps DEF Deciding
<1> QED  BY <1>1, <1>5, SessionStep

LEMMA RunAnalysisKeeps ==
  ASSUME IInv, RunAnalysis
  PROVE  IInv'
<1> DEFINE a == NewAction("run_analysis", tx.hyp.id, "none", "succeeded")
<1>1. PICK exposure \in Exposures :
        LoopOn(WithStage([Current EXCEPT !.status = "investigating",
                                         !.hyp.exposure = exposure,
                                         !.actions = @ \cup {a}], ImpactAssessed), a)
  BY DEF RunAnalysis
<1> DEFINE u == [Current EXCEPT !.status = "investigating",
                                !.hyp.exposure = exposure,
                                !.actions = @ \cup {a}]
           w == WithStage(u, ImpactAssessed)
<1>2. Deciding /\ NoEffect
  BY DEF RunAnalysis
<1>3. tx \in CaseRows /\ Sound(tx) /\ LiveActions(tx) = {}
  BY <1>2, DrivingFacts DEF Deciding
<1>4. tx.hyp.id \in Nat
  BY <1>3 DEF CaseRows, Hypotheses
<1>5. a \in Actions /\ a.type = "run_analysis" /\ a.status = "succeeded"
  <2>1. "run_analysis" \in ActionType /\ "succeeded" \in ActionStatus
    BY DEF ActionType, ActionStatus
  <2> QED  BY <1>4, <2>1, NewActionType, AboutsMembers
<1> HIDE DEF a
<1>6. u \in CaseRows /\ u.actions = tx.actions \cup {a}
  <2>1. [tx.hyp EXCEPT !.exposure = exposure] \in Hypotheses
    BY <1>3, ExposuresAssumption DEF CaseRows, Hypotheses
  <2> QED  BY <1>3, <1>5, <2>1 DEF Current, CaseRows, CaseStatus
<1>7. w \in CaseRows /\ w.actions = tx.actions \cup {a}
  BY <1>6, StageType, StageConstants
<1>8. LoopOn(w, a)  BY <1>1
<1> HIDE DEF w
<1>9. Sound(w)
  BY <1>3, <1>5, <1>7, SoundAdd
<1>10. LoopKept
  BY <1>2, <1>5, <1>7, <1>8, <1>9, DrivingFacts, LoopOnKeeps DEF Deciding
<1> QED  BY <1>2, <1>10, SessionStep

\* The option the engine chooses is a good one and is not out.
LEMMA ChosenIsGood ==
  ASSUME tx \in CaseRows, NeedsRecovery,
         NEW i \in DOMAIN Options, IsChosen(Options, RejectedCodes(tx), i)
  PROVE  Options[i] \in GoodOptions /\ Options[i].code \notin RejectedCodes(tx)
<1>1. tx.hyp.category \in Categories /\ tx.hyp.exposure \in Nat
  BY DEF CaseRows, Hypotheses, NeedsRecovery, Assessed
<1>2. Options[i] \in GoodOptions
  BY <1>1, RankedAreGood DEF Options
<1>3. Options[i].code \notin RejectedCodes(tx)
  BY DEF IsChosen, Substantive, Remaining
<1> QED  BY <1>2, <1>3

LEMMA RecoveryActionGood ==
  ASSUME tx \in CaseRows, NEW o \in GoodOptions
  PROVE  /\ RecoveryAction(o) \in Actions
         /\ RecoveryAction(o).type = "execute_recovery"
         /\ RecoveryAction(o).about = o.code
         /\ RecoveryAction(o).status \in {"proposed", "pending_approval"}
         /\ RecoveryAction(o).status = "proposed" => Cleared(RecoveryAction(o))
         /\ RecoveryAction(o).status = "pending_approval" =>
              RecoveryAction(o).role # "none" /\ RecoveryStatus(o) = "pending_approval"
         /\ RecoveryStatus(o) \in CaseStatus
<1>1. /\ o.code \in OptionCodes /\ o.cost \in Nat /\ o.gated \in BOOLEAN
      /\ o.role \in ApproverRoles \cup {"none"}
      /\ o.gated => o.role \in ApproverRoles
      /\ \/ o.gated
         \/ o.code = "reroute_or_reattempt_delivery"
         \/ o.cost < Threshold /\ o.code # "exceptional_remedy"
  BY DEF GoodOptions, RecoveryOption
<1>2. tx.hyp.id \in Nat
  BY DEF CaseRows, Hypotheses
<1> DEFINE a == RecoveryAction(o)
<1>3. CASE o.gated
  <2>1. a = [type |-> "execute_recovery", hyp |-> tx.hyp.id, about |-> o.code,
             status |-> "pending_approval", gated |-> o.gated, role |-> o.role,
             by |-> "none", cost |-> o.cost]
    BY <1>3 DEF RecoveryAction
  <2>2. a \in Actions
    BY <1>1, <1>2, <2>1, AboutsMembers DEF Actions, ActionType, ActionStatus
  <2>3. o.role # "none"
    BY <1>1, <1>3 DEF ApproverRoles
  <2>4. RecoveryStatus(o) = "pending_approval" /\ "pending_approval" \in CaseStatus
    BY <1>3 DEF RecoveryStatus, CaseStatus
  <2> QED  BY <2>1, <2>2, <2>3, <2>4
<1>4. CASE ~o.gated
  <2>1. a = [type |-> "execute_recovery", hyp |-> tx.hyp.id, about |-> o.code,
             status |-> "proposed", gated |-> o.gated, role |-> "none",
             by |-> "none", cost |-> o.cost]
    BY <1>4 DEF RecoveryAction
  <2>2. a \in Actions
    BY <1>1, <1>2, <2>1, AboutsMembers DEF Actions, ActionType, ActionStatus
  <2>3. Cleared(a)
    BY <1>1, <1>4, <2>1 DEF Cleared
  <2>4. RecoveryStatus(o) = "action_in_progress" /\ "action_in_progress" \in CaseStatus
    BY <1>4 DEF RecoveryStatus, CaseStatus
  <2> QED  BY <2>1, <2>2, <2>3, <2>4
<1> QED  BY <1>3, <1>4

LEMMA ProposeRecoveryKeeps ==
  ASSUME IInv, ProposeRecovery
  PROVE  IInv'
<1>1. PICK i \in DOMAIN Options :
        /\ IsChosen(Options, RejectedCodes(tx), i)
        /\ Propose(WithStage([Current EXCEPT !.status = RecoveryStatus(Options[i])],
                             RecoveryOptionsRanked),
                   RecoveryAction(Options[i]))
  BY DEF ProposeRecovery
<1>2. Deciding /\ NeedsRecovery /\ NoEffect
  BY DEF ProposeRecovery
<1> DEFINE o == Options[i]
           u == [Current EXCEPT !.status = RecoveryStatus(o)]
           w == WithStage(u, RecoveryOptionsRanked)
           a == RecoveryAction(o)
<1>3. tx \in CaseRows /\ Sound(tx) /\ LiveActions(tx) = {}
  BY <1>2, DrivingFacts DEF Deciding
<1>4. o \in GoodOptions /\ o.code \notin RejectedCodes(tx)
  BY <1>1, <1>2, <1>3, ChosenIsGood
<1> HIDE DEF o
<1>5. /\ a \in Actions /\ a.type = "execute_recovery" /\ a.about = o.code
      /\ a.status \in {"proposed", "pending_approval"}
      /\ a.status = "proposed" => Cleared(a)
      /\ a.status = "pending_approval" => a.role # "none" /\ RecoveryStatus(o) = "pending_approval"
      /\ RecoveryStatus(o) \in CaseStatus
  BY <1>3, <1>4, RecoveryActionGood
<1>6. u \in CaseRows /\ u.actions = tx.actions /\ u.status = RecoveryStatus(o)
  BY <1>3, <1>5, CurrentType
<1>7. w \in CaseRows /\ w.actions = tx.actions /\ w.status = RecoveryStatus(o)
  BY <1>6, StageType, StageConstants
<1>8. Done(tx, "execute_recovery") = {}
  BY <1>2 DEF NeedsRecovery
<1>9. Propose(w, a)
  BY <1>1 DEF o
<1> HIDE DEF w, a
<1>10. LoopKept
  BY <1>2, <1>3, <1>4, <1>5, <1>7, <1>8, <1>9, DrivingFacts, ProposeKeeps DEF Deciding
<1> QED  BY <1>2, <1>10, SessionStep

\* The two branches in which decide_next_action returns None.
LEMMA NoneKeeps ==
  ASSUME IInv, Deciding, LoopEnds(Current), NoEffect
  PROVE  IInv'
<1>1. req \in Requests /\ tx \in CaseRows /\ Sound(tx)
  BY DrivingFacts DEF Deciding
<1>2. Current \in CaseRows /\ Current.actions = tx.actions /\ Current.status = tx.status
  BY <1>1 DEF Current, CaseRows
<1>3. Sound(Current)
  BY <1>1, <1>2, SoundSame
<1>4. LoopKept
  BY <1>1, <1>2, <1>3, LoopEndsKeeps
<1> QED  BY <1>4, SessionStep

LEMMA NotifyCustomerKeeps ==
  ASSUME IInv, NotifyCustomer
  PROVE  IInv'
<1>1. PICK done \in Done(tx, "execute_recovery") :
        Propose([Current EXCEPT !.status = "pending_customer_update"],
                NewAction("notify_customer", done.hyp, done.about, "proposed"))
  BY DEF NotifyCustomer
<1> DEFINE w == [Current EXCEPT !.status = "pending_customer_update"]
           a == NewAction("notify_customer", done.hyp, done.about, "proposed")
<1>2. Deciding /\ NoEffect
  BY DEF NotifyCustomer
<1>3. w \in CaseRows /\ w.actions = tx.actions
  BY <1>2, DrivingFacts, CurrentType DEF CaseStatus, Deciding
<1>4. done.hyp \in Nat /\ done.about \in Abouts
  BY <1>2, DrivingFacts DEF Deciding, CaseRows, Actions, Done, ActionsOfType
<1>a. "notify_customer" \in ActionType /\ "proposed" \in ActionStatus
  BY DEF ActionType, ActionStatus
<1>5. a \in Actions /\ a.type = "notify_customer" /\ a.status = "proposed"
  BY <1>4, <1>a, NewActionType
<1>6. Propose(w, a)  BY <1>1
<1> HIDE DEF w, a
<1>7. LoopKept
  BY <1>2, <1>3, <1>5, <1>6, DrivingFacts, ProposeKeeps DEF Deciding
<1> QED  BY <1>2, <1>7, SessionStep

LEMMA CloseCaseKeeps ==
  ASSUME IInv, CloseCase
  PROVE  IInv'
<1> DEFINE a == NewAction("close_case", tx.hyp.id, "none", "succeeded")
<1>1. PICK done \in Done(tx, "execute_recovery") :
        LoopOn(WithStage([Current EXCEPT !.status = "closed",
                                         !.closure = [hyp |-> tx.hyp.id, about |-> done.about],
                                         !.actions = @ \cup {a}], OutcomeRetained), a)
  BY DEF CloseCase
<1> DEFINE u == [Current EXCEPT !.status = "closed",
                                !.closure = [hyp |-> tx.hyp.id, about |-> done.about],
                                !.actions = @ \cup {a}]
           w == WithStage(u, OutcomeRetained)
<1>2. Deciding /\ NoEffect
  BY DEF CloseCase
<1>3. tx \in CaseRows /\ Sound(tx) /\ LiveActions(tx) = {}
  BY <1>2, DrivingFacts DEF Deciding
<1>4. tx.hyp.id \in Nat
  BY <1>3 DEF CaseRows, Hypotheses
<1>5. a \in Actions /\ a.type = "close_case" /\ a.status = "succeeded"
  <2>1. "close_case" \in ActionType /\ "succeeded" \in ActionStatus
    BY DEF ActionType, ActionStatus
  <2> QED  BY <1>4, <2>1, NewActionType, AboutsMembers
<1> HIDE DEF a
<1>6. u \in CaseRows /\ u.actions = tx.actions \cup {a}
  <2>1. done \in Actions
    BY <1>3 DEF CaseRows, Done, ActionsOfType
  <2>2. [hyp |-> tx.hyp.id, about |-> done.about] \in Closures
    BY <1>4, <2>1 DEF Closures, Actions
  <2> QED  BY <1>3, <1>5, <2>2 DEF Current, CaseRows, CaseStatus
<1>7. w \in CaseRows /\ w.actions = tx.actions \cup {a}
  BY <1>6, StageType, StageConstants
<1>8. LoopOn(w, a)  BY <1>1
<1> HIDE DEF w
<1>9. Sound(w)
  BY <1>3, <1>5, <1>7, SoundAdd
<1>10. LoopKept
  BY <1>2, <1>5, <1>7, <1>8, <1>9, DrivingFacts, LoopOnKeeps DEF Deciding
<1> QED  BY <1>2, <1>10, SessionStep

-----------------------------------------------------------------------------
(* The executor.                                                           *)

LEMMA StatusAfterType ==
  ASSUME NEW outcome
  PROVE  StatusAfter(outcome) \in {"succeeded", "needs_manual_review", "failed"}
BY DEF StatusAfter

\* Reconciling leaves the actions and the status of the case alone.
LEMMA ReconciledType ==
  ASSUME NEW w \in CaseRows, NEW raised \in SUBSET Flags
  PROVE  /\ Reconciled(w, raised) \in CaseRows
         /\ Reconciled(w, raised).actions = w.actions
         /\ Reconciled(w, raised).status = w.status
<1> DEFINE u == [w EXCEPT !.missing = @ \cup raised]
<1>1. u \in CaseRows /\ u.actions = w.actions /\ u.status = w.status
  BY DEF CaseRows
<1> HIDE DEF u
<1>2. /\ WithStage(u, JourneyAssembled) \in CaseRows
      /\ WithStage(u, JourneyAssembled).actions = w.actions
      /\ WithStage(u, JourneyAssembled).status = w.status
  BY <1>1, StageType, StageConstants
<1> QED  BY <1>2 DEF Reconciled, u

LEMMA WithIncidentType ==
  ASSUME NEW w \in CaseRows, NEW raised \in SUBSET Flags
  PROVE  /\ WithIncident(w, raised) \in CaseRows
         /\ WithIncident(w, raised).actions = w.actions
         /\ WithIncident(w, raised).status = w.status
<1> DEFINE u == [w EXCEPT !.evidence = TRUE, !.itsm = TRUE]
<1>1. u \in CaseRows /\ u.actions = w.actions /\ u.status = w.status
  BY DEF CaseRows
<1> HIDE DEF u
<1> QED  BY <1>1, ReconciledType DEF WithIncident, u

LEMMA StageAfterType ==
  ASSUME NEW w \in CaseRows, NEW a
  PROVE  /\ StageAfter(w, a) \in CaseRows
         /\ StageAfter(w, a).actions = w.actions
         /\ StageAfter(w, a).status = w.status
BY StageType, StageConstants DEF StageAfter

\* What the executor leaves of the row: the action with its final status.
LEMMA ExecutedType ==
  ASSUME NEW w \in CaseRows, NEW a \in w.actions, NEW outcome, NEW raised \in SUBSET Flags
  PROVE  /\ Executed(w, a, outcome, raised) \in CaseRows
         /\ Executed(w, a, outcome, raised).status = w.status
         /\ Executed(w, a, outcome, raised).actions
              = (w.actions \ {a}) \cup {[a EXCEPT !.status = StatusAfter(outcome)]}
<1> DEFINE seen == IF a.type = "escalate_itsm" THEN WithIncident(w, raised) ELSE w
           final == StatusAfter(outcome)
<1>1. seen \in CaseRows /\ seen.actions = w.actions /\ seen.status = w.status
  BY WithIncidentType
<1>2. final \in ActionStatus
  BY StatusAfterType DEF ActionStatus
<1> HIDE DEF seen, final
<1>3. /\ WithStatus(seen, a, final) \in CaseRows
      /\ WithStatus(seen, a, final).status = w.status
      /\ WithStatus(seen, a, final).actions = (w.actions \ {a}) \cup {[a EXCEPT !.status = final]}
  <2>1. a \in seen.actions  BY <1>1
  <2>2. /\ WithStatus(seen, a, final) \in CaseRows
        /\ WithStatus(seen, a, final).status = seen.status
        /\ WithStatus(seen, a, final).actions
             = (seen.actions \ {a}) \cup {[a EXCEPT !.status = final]}
    BY <1>1, <1>2, <2>1, StatusType
  <2> QED  BY <1>1, <2>2
<1>4. /\ StageAfter(WithStatus(seen, a, final), a) \in CaseRows
      /\ StageAfter(WithStatus(seen, a, final), a).status = w.status
      /\ StageAfter(WithStatus(seen, a, final), a).actions
           = (w.actions \ {a}) \cup {[a EXCEPT !.status = final]}
  BY <1>3, StageAfterType
<1>5. /\ WithStatus(w, a, final) \in CaseRows
      /\ WithStatus(w, a, final).status = w.status
      /\ WithStatus(w, a, final).actions = (w.actions \ {a}) \cup {[a EXCEPT !.status = final]}
  BY <1>2, StatusType
<1> QED  BY <1>4, <1>5 DEF Executed, seen, final

LEMMA FinishExecutionKeeps ==
  ASSUME IInv, FinishExecution
  PROVE  IInv'
<1>1. PICK a \in tx.actions, outcome \in Outcomes, raised \in SUBSET Flags :
        /\ a.status = "executing"
        /\ LoopOn(Executed(tx, a, outcome, raised), [a EXCEPT !.status = StatusAfter(outcome)])
        /\ remedies' = Applied(remedies, a, "execute_recovery", outcome)
        /\ notices' = Applied(notices, a, "notify_customer", outcome)
  BY DEF FinishExecution
<1> DEFINE b == [a EXCEPT !.status = StatusAfter(outcome)]
           w == Executed(tx, a, outcome, raised)
<1>2. /\ req \in Requests /\ req.steps < MaxAutoSteps /\ tx \in CaseRows /\ Sound(tx)
  BY DEF IInv, TypeOK, RoundsLeft, FinishExecution
<1>3. a \in Actions  BY <1>2 DEF CaseRows
<1>4. w \in CaseRows /\ w.status = tx.status /\ w.actions = (tx.actions \ {a}) \cup {b}
  BY <1>2, ExecutedType
<1>5. /\ b \in Actions /\ b.status \in {"succeeded", "needs_manual_review", "failed"}
      /\ b.type = a.type /\ b.about = a.about /\ b.cost = a.cost /\ b.by = a.by /\ b.role = a.role
  BY <1>3, StatusAfterType DEF Actions, ActionStatus
<1>6. a.type = "execute_recovery" => Cleared(a)
  BY <1>1, <1>2 DEF Sound, GateKept, ActionsOfType
<1>7. a.type = "execute_recovery" => Cleared(b)
  BY <1>5, <1>6 DEF Cleared
<1>8. LoopOn(w, b)  BY <1>1
<1> HIDE DEF w, b
<1>9. Sound(w)
  BY <1>1, <1>2, <1>4, <1>5, <1>7, SoundMove DEF LiveStatuses, ActionStatus
<1>10. LoopKept
  BY <1>2, <1>4, <1>5, <1>8, <1>9, LoopOnKeeps
<1>11. remedies' \in Seq(Actions) /\ notices' \in Seq(Actions)
  BY <1>1, <1>3 DEF IInv, TypeOK, Applied
<1>12. ApprovalGate'
  <2>1. CASE remedies' = remedies
    BY <2>1 DEF IInv, ApprovalGate
  <2>2. CASE remedies' = Append(remedies, a) /\ a.type = "execute_recovery"
    BY <2>2, <1>3, <1>6 DEF IInv, TypeOK, ApprovalGate, Cleared
  <2> QED  BY <1>1, <2>1, <2>2 DEF Applied
<1> QED
  BY <1>10, <1>11, <1>12 DEF FinishExecution, IInv, TypeOK, LoopKept

-----------------------------------------------------------------------------
(* The start of a cycle, the decisions and the end of a request.           *)

\* Evidence that arrives touches neither the actions nor the status.
LEMMA ArrivedType ==
  ASSUME NEW w \in CaseRows, NEW any \in BOOLEAN, NEW incident \in BOOLEAN
  PROVE  /\ Arrived(w, any, incident) \in CaseRows
         /\ Arrived(w, any, incident).actions = w.actions
         /\ Arrived(w, any, incident).status = w.status
<1>1. w.evidence \in BOOLEAN /\ w.itsm \in BOOLEAN  BY DEF CaseRows
<1>2. (w.evidence \/ any \/ incident) \in BOOLEAN /\ (w.itsm \/ incident) \in BOOLEAN
  BY <1>1
<1> QED  BY <1>2 DEF Arrived, CaseRows

\* Nor does a new leading hypothesis.
LEMMA GeneratedType ==
  ASSUME NEW w \in CaseRows, NEW d \in Diagnoses, NEW id \in Nat
  PROVE  /\ Generated(w, d, id) \in CaseRows
         /\ Generated(w, d, id).actions = w.actions
         /\ Generated(w, d, id).status = w.status
<1> DEFINE hyp == [id |-> id, category |-> d.category, confidence |-> d.confidence,
                   exposure |-> NotAssessed]
           u == [w EXCEPT !.hyp = hyp]
           next == WithStage(u, FailureLocated)
           back == [next EXCEPT !.reeval = TRUE, !.stage = FailureLocated]
<1>1. hyp \in Hypotheses
  BY DiagnosesAssumption DEF Hypotheses
<1> HIDE DEF hyp
<1>2. u \in CaseRows /\ u.actions = w.actions /\ u.status = w.status
  BY <1>1 DEF CaseRows
<1> HIDE DEF u
<1>3. next \in CaseRows /\ next.actions = w.actions /\ next.status = w.status
  BY <1>2, StageType, StageConstants
<1> HIDE DEF next
<1>4. back \in CaseRows /\ back.actions = w.actions /\ back.status = w.status
  BY <1>3, StageConstants DEF CaseRows
<1> HIDE DEF back
<1>5. Generated(w, d, id) = back \/ Generated(w, d, id) = next
  BY DEF Generated, back, next, u, hyp
<1> QED  BY <1>3, <1>4, <1>5

LEMMA StartedType ==
  ASSUME NEW kind \in {"none", "cycle", "decide"}
  PROVE  Started(kind) \in Requests /\ Started(kind).steps < MaxAutoSteps
BY DEF Started, Requests, MaxAutoSteps

LEMMA BeginCycleKeeps ==
  ASSUME IInv, NEW w \in CaseRows, Sound(w), BeginCycle(w)
  PROVE  LoopKept /\ minted' \in 0 .. MaxHypotheses
<1>1. PICK any \in BOOLEAN, incident \in BOOLEAN, raised \in SUBSET Flags :
        LET known == Reconciled(Arrived(w, any, incident), raised)
        IN  /\ req' = Started("cycle")
            /\ \/ tx' = known /\ UNCHANGED minted
               \/ /\ minted < MaxHypotheses
                  /\ minted' = minted + 1
                  /\ \E d \in Diagnoses : tx' = Generated(known, d, minted + 1)
  BY DEF BeginCycle
<1> DEFINE known == Reconciled(Arrived(w, any, incident), raised)
<1>2. known \in CaseRows /\ known.actions = w.actions /\ known.status = w.status
  BY ArrivedType, ReconciledType
<1>3. minted \in 0 .. MaxHypotheses /\ MaxHypotheses \in Nat
  BY BoundsAssumption DEF IInv, TypeOK
<1>4. \/ tx' = known /\ minted' = minted
      \/ /\ minted < MaxHypotheses /\ minted' = minted + 1
         /\ \E d \in Diagnoses : tx' = Generated(known, d, minted + 1)
  BY <1>1
<1> HIDE DEF known
<1>5. tx' \in CaseRows /\ tx'.actions = w.actions /\ tx'.status = w.status
  <2>1. minted + 1 \in Nat  BY <1>3
  <2> QED  BY <1>2, <1>4, <2>1, GeneratedType
<1>6. Sound(tx')
  BY <1>5, SoundSame
<1>7. req' \in Requests /\ RoundsLeft'
  BY <1>1, StartedType DEF RoundsLeft
<1>8. minted' \in 0 .. MaxHypotheses
  BY <1>3, <1>4
<1> QED  BY <1>5, <1>6, <1>7, <1>8 DEF LoopKept

LEMMA NewCaseType == NewCase \in CaseRows /\ NewCase.actions = {}
BY AboutsMembers
   DEF NewCase, CaseRows, CaseStatus, Stages, IssueReported, OutcomeRetained, Hypotheses,
       NoHypothesis, NotAssessed, Categories, Closures, NeverClosed

LEMMA SoundEmpty ==
  ASSUME NEW w, w.actions = {}
  PROVE  Sound(w)
BY DEF Sound, OneLive, GateKept, RejectedOut, OneSuccess, PendingShown,
       LiveActions, ActionsOfType, Done

LEMMA OpenCaseKeeps ==
  ASSUME IInv, OpenCase
  PROVE  IInv'
<1> DEFINE w == [NewCase EXCEPT !.opened = TRUE]
<1>1. w \in CaseRows /\ w.actions = {}
  BY NewCaseType DEF CaseRows
<1>2. BeginCycle(w)  BY DEF OpenCase
<1> HIDE DEF w
<1>3. LoopKept /\ minted' \in 0 .. MaxHypotheses
  BY <1>1, <1>2, SoundEmpty, BeginCycleKeeps
<1> QED  BY <1>3 DEF OpenCase, IInv, TypeOK, LoopKept, ApprovalGate

LEMMA AdvanceCaseKeeps ==
  ASSUME IInv, AdvanceCase
  PROVE  IInv'
<1>1. db \in CaseRows /\ Sound(db) /\ BeginCycle(db)
  BY DEF AdvanceCase, IInv, TypeOK
<1>2. LoopKept /\ minted' \in 0 .. MaxHypotheses
  BY <1>1, BeginCycleKeeps
<1> QED  BY <1>2 DEF AdvanceCase, IInv, TypeOK, LoopKept, ApprovalGate

\* A decision by the role the approval names, or by an admin, moves the live action on.
LEMMA DecisionKeeps ==
  ASSUME IInv, NEW a \in db.actions, NEW user \in Users, MayDecide(user, a),
         NEW status \in {"approved", "rejected"}, db' = WithDecision(db, a, status, user)
  PROVE  db' \in CaseRows /\ Sound(db')
<1> DEFINE b == [a EXCEPT !.status = status, !.by = user]
<1>1. db \in CaseRows /\ Sound(db)  BY DEF IInv, TypeOK
<1>2. user \in UserRole  BY UsersAssumption
<1>3. status \in ActionStatus  BY DEF ActionStatus
<1>4. /\ db' \in CaseRows /\ db'.status = db.status
      /\ db'.actions = (db.actions \ {a}) \cup {b}
  <2>1. b \in Actions
    BY <1>1, <1>2, <1>3 DEF CaseRows, Actions
  <2>2. db' = [db EXCEPT !.actions = (@ \ {a}) \cup {b}]
    BY DEF WithDecision
  <2> HIDE DEF b
  <2> QED  BY <1>1, <2>1, <2>2 DEF CaseRows
<1>5. /\ b.type = a.type /\ b.about = a.about /\ b.role = a.role
      /\ b.status = status /\ b.by = user
  BY <1>1 DEF CaseRows, Actions
<1> HIDE DEF b
<1>6. a.status \in LiveStatuses  BY DEF MayDecide, LiveStatuses
<1>7. b.status \in ActionStatus \ {"proposed", "pending_approval"}
  BY <1>5 DEF ActionStatus
<1>8. a.type = "execute_recovery" => Cleared(b)
  BY <1>1, <1>5 DEF MayDecide, Cleared, Sound, GateKept, ActionsOfType
<1>9. Sound(db')
  BY <1>1, <1>4, <1>5, <1>6, <1>7, <1>8, SoundMove
<1> QED  BY <1>4, <1>9

LEMMA ApproveKeeps ==
  ASSUME IInv, Approve
  PROVE  IInv'
<1>1. db' \in CaseRows /\ Sound(db')
  BY DecisionKeeps DEF Approve
<1>2. req' \in Requests /\ RoundsLeft'
  BY StartedType DEF Approve, RoundsLeft
<1> QED  BY <1>1, <1>2 DEF Approve, IInv, TypeOK, ApprovalGate

LEMMA RejectKeeps ==
  ASSUME IInv, Reject
  PROVE  IInv'
<1>1. db' \in CaseRows /\ Sound(db')
  BY DecisionKeeps DEF Reject
<1> QED  BY <1>1 DEF Reject, IInv, TypeOK, RoundsLeft, ApprovalGate

LEMMA EndOfRequestKeeps ==
  ASSUME IInv, Commit \/ Crash
  PROVE  IInv'
<1>1. Idle \in Requests /\ Idle.phase = "idle"
  BY DEF Idle, Requests, MaxAutoSteps
<1>2. CASE Commit
  BY <1>1, <1>2 DEF Commit, IInv, TypeOK, RoundsLeft, ApprovalGate
<1>3. CASE Crash
  <2>1. crashes' \in 0 .. MaxCrashes
    BY <1>3, BoundsAssumption DEF Crash, IInv, TypeOK
  <2> QED  BY <1>1, <1>3, <2>1 DEF Crash, IInv, TypeOK, RoundsLeft, ApprovalGate
<1> QED  BY <1>2, <1>3

-----------------------------------------------------------------------------
(* The theorems.                                                           *)

LEMMA InitKeeps ==
  ASSUME Init
  PROVE  IInv
<1>1. db \in CaseRows /\ tx \in CaseRows /\ Sound(db) /\ Sound(tx)
  BY NewCaseType, SoundEmpty DEF Init
<1>2. req \in Requests /\ RoundsLeft
  BY DEF Init, Idle, Requests, RoundsLeft, MaxAutoSteps
<1>3. /\ minted \in 0 .. MaxHypotheses /\ crashes \in 0 .. MaxCrashes
      /\ remedies = << >> /\ notices = << >>
  BY BoundsAssumption DEF Init
<1> QED  BY <1>1, <1>2, <1>3 DEF IInv, TypeOK, ApprovalGate

LEMMA NextKeeps ==
  ASSUME IInv, [Next]_vars
  PROVE  IInv'
<1>1. CASE ReturnLiveAction  BY <1>1, ReturnLiveActionKeeps
<1>2. CASE RequestAnyEvidence  BY <1>2, RequestAnyEvidenceKeeps
<1>3. CASE RequestMissingEvidence  BY <1>3, RequestMissingEvidenceKeeps
<1>4. CASE RunAnalysis  BY <1>4, RunAnalysisKeeps
<1>5. CASE EscalateItsm  BY <1>5, EscalateItsmKeeps
<1>6. CASE ProposeRecovery  BY <1>6, ProposeRecoveryKeeps
<1>7. CASE RecoveryOptionsExhausted  BY <1>7, NoneKeeps DEF RecoveryOptionsExhausted
<1>8. CASE NotifyCustomer  BY <1>8, NotifyCustomerKeeps
<1>9. CASE CloseCase  BY <1>9, CloseCaseKeeps
<1>10. CASE NothingToDo  BY <1>10, NoneKeeps DEF NothingToDo
<1>11. CASE FinishExecution  BY <1>11, FinishExecutionKeeps
<1>12. CASE Commit \/ Crash  BY <1>12, EndOfRequestKeeps
<1>13. CASE OpenCase  BY <1>13, OpenCaseKeeps
<1>14. CASE AdvanceCase  BY <1>14, AdvanceCaseKeeps
<1>15. CASE Approve  BY <1>15, ApproveKeeps
<1>16. CASE Reject  BY <1>16, RejectKeeps
<1>17. CASE UNCHANGED vars
  BY <1>17 DEF vars, IInv, TypeOK, RoundsLeft, ApprovalGate
<1> QED
  BY <1>1, <1>2, <1>3, <1>4, <1>5, <1>6, <1>7, <1>8, <1>9, <1>10, <1>11, <1>12, <1>13, <1>14,
     <1>15, <1>16, <1>17 DEF Next, ServerStep

\* The inductive invariant holds in every behaviour: the rows the database and the session
\* hold are sound whatever the engine decides and however the connectors answer.
THEOREM Inductive == Spec => []IInv
<1>1. Init => IInv  BY InitKeeps
<1>2. IInv /\ [Next]_vars => IInv'  BY NextKeeps
<1> QED  BY <1>1, <1>2, PTL DEF Spec

\* Every column of the rows and every counter of the request keeps to its type.
THEOREM TypeCorrect == Spec => []TypeOK
<1>1. IInv => TypeOK  BY DEF IInv
<1> QED  BY <1>1, Inductive, PTL

\* decide_next_action and _propose leave at most one action in flight, for every catalog,
\* every number of hypotheses and every sequence of requests and crashes.
THEOREM AtMostOneLive == Spec => []OneLiveAction
<1>1. IInv => OneLiveAction  BY DEF IInv, Sound, OneLive, OneLiveAction
<1> QED  BY <1>1, Inductive, PTL

\* No connector is asked for a remedy of the threshold or more without the approval of the
\* role that its option names, the delivery remedy excepted.
THEOREM MoneyIsGated == Spec => []ApprovalGate
<1>1. IInv => ApprovalGate  BY DEF IInv
<1> QED  BY <1>1, Inductive, PTL

\* An option that was rejected or has failed is never put forward again.
THEOREM RejectionIsFinal == Spec => []RejectedStaysOut
<1>1. IInv => RejectedStaysOut  BY DEF IInv, Sound, RejectedOut, RejectedStaysOut
<1> QED  BY <1>1, Inductive, PTL

\* At most one remedy of a case succeeds and none is in flight next to it.
THEOREM OneRemedy == Spec => []OneRemedySucceeds
<1>1. IInv => OneRemedySucceeds  BY DEF IInv, Sound, OneSuccess, OneRemedySucceeds
<1> QED  BY <1>1, Inductive, PTL

\* An approval that waits for its decision shows in the status of the case.
THEOREM PendingShows == Spec => []PendingIsVisible
<1>1. IInv => PendingIsVisible  BY DEF IInv, Sound, PendingShown, PendingIsVisible
<1> QED  BY <1>1, Inductive, PTL
=============================================================================
