--------------------------- MODULE LifecycleProofs ---------------------------
(***************************************************************************)
(* CasePipeline keeps the promise of CaseLifecycle, for every value of its *)
(* constants, and what its rows claim has happened.                        *)
(*                                                                         *)
(* A row of the case is Honest when each claim it makes is backed by an    *)
(* action: a message by the remedy it names, the closure by a remedy and a *)
(* message about it, the stage by an action that took effect.  A step of   *)
(* the pipeline changes a row in one of five ways (KeptRow, AddedRow,      *)
(* ClosedRow, MovedRow, FinishedRow); the lemmas of the first half say     *)
(* what each way preserves, those of the second which way each step takes. *)
(***************************************************************************)
EXTENDS CasePipelineProofs

\* The stages that claim something.
ClaimingStages == {ActionsCoordinated, CustomerUpdated, OutcomeRetained}

\* A message that has been drafted is about a remedy that has succeeded.
Backed(w) ==
  \A n \in ActionsOfType(w, "notify_customer") :
    \E r \in Done(w, "execute_recovery") : r.hyp = n.hyp /\ r.about = n.about

OneNotice(w) ==
  \A n, m \in ActionsOfType(w, "notify_customer") : n = m

\* The summary names the remedy the customer was told about.
ClosureBacked(w) ==
  w.closure # NeverClosed =>
    /\ ActionsOfType(w, "close_case") # {}
    /\ \E r \in Done(w, "execute_recovery"), n \in Done(w, "notify_customer") :
         r.hyp = n.hyp /\ r.about = n.about /\ w.closure.about = r.about

\* A closed case has a summary, and nothing is in flight.
ClosedQuiet(w) ==
  w.status = "closed" => w.closure # NeverClosed /\ LiveActions(w) = {}

Effective(w, types) ==
  \E a \in w.actions : a.type \in types /\ a.status \in {"succeeded", "needs_manual_review"}

StageHonest(w) ==
  /\ w.stage = ActionsCoordinated => Effective(w, {"escalate_itsm", "execute_recovery"})
  /\ w.stage = CustomerUpdated => Effective(w, {"notify_customer"})
  /\ w.stage = OutcomeRetained => w.closure # NeverClosed

Honest(w) ==
  /\ Backed(w)
  /\ OneNotice(w)
  /\ ClosureBacked(w)
  /\ ClosedQuiet(w)
  /\ StageHonest(w)

\* Every remedy that succeeded according to the row was carried out.
Ledgered(w, ledger) ==
  \A r \in Done(w, "execute_recovery") :
    \E i \in DOMAIN ledger : ledger[i].hyp = r.hyp /\ ledger[i].about = r.about

\* How far the live action has come when a request is in a phase.
Phased(w, phase) ==
  \A a \in LiveActions(w) :
    /\ phase = "executing" => a.status = "executing"
    /\ phase = "finished" => a.status = "pending_approval"
    /\ phase \in {"idle", "driving"} => a.status \in {"pending_approval", "approved"}

-----------------------------------------------------------------------------
(* The ways in which a step changes a row.                                 *)

\* The columns no decision but a closing touches.
SameFile(v, w) == w.closure = v.closure /\ w.opened = v.opened

USE DEF SameFile

Unclaiming(v, w) == w.stage = v.stage \/ w.stage \notin ClaimingStages
NotClosing(v, w) == w.status = v.status \/ w.status # "closed"

KeptRow(v, w) ==
  /\ w.actions = v.actions /\ SameFile(v, w)
  /\ Unclaiming(v, w) /\ NotClosing(v, w)

\* b is new, and no action was live.
AddedRow(v, w, b) ==
  /\ LiveActions(v) = {}
  /\ w.actions = v.actions \cup {b} /\ SameFile(v, w)
  /\ Unclaiming(v, w) /\ w.status # "closed"
  /\ b.type # "close_case"
  /\ \/ b.status \in {"executing", "pending_approval"}
     \/ b.type = "run_analysis" /\ b.status = "succeeded"
  /\ b.status = "pending_approval" => b.type = "execute_recovery"
  /\ b.type = "escalate_itsm" => ActionsOfType(v, "escalate_itsm") = {}
  /\ b.type = "notify_customer" =>
       /\ ActionsOfType(v, "notify_customer") = {}
       /\ \E r \in Done(v, "execute_recovery") : r.hyp = b.hyp /\ r.about = b.about
  /\ b.type = "execute_recovery" => \A x \in v.actions : Key(x) # Key(b)

ClosedRow(v, w, b) ==
  /\ LiveActions(v) = {}
  /\ w.actions = v.actions \cup {b} /\ w.opened = v.opened
  /\ b.type = "close_case" /\ b.status = "succeeded"
  /\ ActionsOfType(v, "close_case") = {} /\ Done(v, "notify_customer") # {}
  /\ \E r \in Done(v, "execute_recovery") : w.closure.about = r.about
  /\ w.closure # NeverClosed
  /\ w.stage \in {v.stage, OutcomeRetained} \/ w.stage \notin ClaimingStages

\* The live action a becomes b, which has not run.
MovedRow(v, w, a, b) ==
  /\ a \in v.actions /\ a.status \in LiveStatuses
  /\ w.actions = (v.actions \ {a}) \cup {b} /\ SameFile(v, w)
  /\ w.stage = v.stage /\ w.status = v.status
  /\ b.type = a.type /\ b.hyp = a.hyp /\ b.about = a.about
  /\ b.status \in {"executing", "approved", "rejected"}
  /\ b.status # "executing" => a.status = "pending_approval"

\* The action a has run and becomes b.
FinishedRow(v, w, a, b) ==
  /\ a \in v.actions /\ a.status = "executing"
  /\ w.actions = (v.actions \ {a}) \cup {b} /\ SameFile(v, w)
  /\ w.status = v.status
  /\ b.type = a.type /\ b.hyp = a.hyp /\ b.about = a.about
  /\ b.status \in {"succeeded", "needs_manual_review", "failed"}
  /\ \/ Unclaiming(v, w)
     \/ /\ b.status # "failed"
        /\ \/ w.stage = ActionsCoordinated /\ b.type \in {"escalate_itsm", "execute_recovery"}
           \/ w.stage = CustomerUpdated /\ b.type = "notify_customer"

-----------------------------------------------------------------------------
(* What they preserve.                                                     *)

LEMMA StagesDiffer ==
  /\ ActionsCoordinated # CustomerUpdated /\ CustomerUpdated # OutcomeRetained
  /\ ActionsCoordinated # OutcomeRetained
  /\ JourneyAssembled \notin ClaimingStages /\ FailureLocated \notin ClaimingStages
  /\ EvidenceChecked \notin ClaimingStages /\ ImpactAssessed \notin ClaimingStages
  /\ RecoveryOptionsRanked \notin ClaimingStages /\ IssueReported \notin ClaimingStages
BY DEF ClaimingStages, ActionsCoordinated, CustomerUpdated, OutcomeRetained, JourneyAssembled,
       FailureLocated, EvidenceChecked, ImpactAssessed, RecoveryOptionsRanked, IssueReported

\* Where actions are only added, or moved on without losing an effect, what is effective stays.
LEMMA StageKept ==
  ASSUME NEW v, NEW w, StageHonest(v), Unclaiming(v, w),
         w.closure = v.closure,
         \A a \in v.actions : a.status \in {"succeeded", "needs_manual_review"} => a \in w.actions
  PROVE  StageHonest(w)
BY DEF StageHonest, Unclaiming, ClaimingStages, Effective

LEMMA KeptHonest ==
  ASSUME NEW v, NEW w, Honest(v), KeptRow(v, w)
  PROVE  Honest(w)
<1>1. StageHonest(w)
  BY StageKept DEF Honest, KeptRow
<1>2. ClosedQuiet(w)
  BY DEF Honest, KeptRow, NotClosing, ClosedQuiet, LiveActions
<1> QED
  BY <1>1, <1>2 DEF Honest, KeptRow, Backed, OneNotice, ClosureBacked, ActionsOfType, Done

LEMMA AddedHonest ==
  ASSUME NEW v, NEW w, NEW b, Honest(v), AddedRow(v, w, b)
  PROVE  Honest(w)
<1>1. /\ Done(v, "execute_recovery") \subseteq Done(w, "execute_recovery")
      /\ Done(v, "notify_customer") \subseteq Done(w, "notify_customer")
      /\ ActionsOfType(v, "close_case") \subseteq ActionsOfType(w, "close_case")
  BY DEF AddedRow, Done, ActionsOfType
<1>2. Backed(w)
  BY <1>1 DEF Honest, Backed, AddedRow, ActionsOfType
<1>3. OneNotice(w)
  BY DEF Honest, OneNotice, AddedRow, ActionsOfType
<1>4. ClosureBacked(w)
  BY <1>1 DEF Honest, ClosureBacked, AddedRow
<1>5. ClosedQuiet(w)
  BY DEF ClosedQuiet, AddedRow
<1>6. StageHonest(w)
  BY StageKept DEF Honest, AddedRow
<1> QED  BY <1>2, <1>3, <1>4, <1>5, <1>6 DEF Honest

LEMMA ClosedHonest ==
  ASSUME NEW v, NEW w, NEW b, Honest(v), Sound(v), ClosedRow(v, w, b)
  PROVE  Honest(w)
<1>1. /\ Done(w, "execute_recovery") = Done(v, "execute_recovery")
      /\ Done(w, "notify_customer") = Done(v, "notify_customer")
      /\ ActionsOfType(w, "notify_customer") = ActionsOfType(v, "notify_customer")
      /\ b \in ActionsOfType(w, "close_case")
  BY DEF ClosedRow, Done, ActionsOfType
<1>2. Backed(w) /\ OneNotice(w)
  BY <1>1 DEF Honest, Backed, OneNotice
<1>3. PICK r \in Done(v, "execute_recovery") : w.closure.about = r.about
  BY DEF ClosedRow
<1>4. PICK n \in Done(v, "notify_customer") : TRUE
  BY DEF ClosedRow
<1>5. r.hyp = n.hyp /\ r.about = n.about
  <2>1. PICK q \in Done(v, "execute_recovery") : q.hyp = n.hyp /\ q.about = n.about
    BY <1>4 DEF Honest, Backed, Done
  <2>2. q \in ActionsOfType(v, "execute_recovery") /\ q.status = "succeeded"
    BY <2>1 DEF Done
  <2>3. q = r
    BY <1>3, <2>2 DEF Sound, OneSuccess
  <2> QED  BY <2>1, <2>3
<1>6. ClosureBacked(w)
  BY <1>1, <1>3, <1>4, <1>5 DEF ClosureBacked
<1>7. ClosedQuiet(w)
  BY DEF ClosedQuiet, ClosedRow, LiveActions, LiveStatuses
<1>8. StageHonest(w)
  <2>1. /\ w.stage = ActionsCoordinated => v.stage = ActionsCoordinated
        /\ w.stage = CustomerUpdated => v.stage = CustomerUpdated
    BY StagesDiffer DEF ClosedRow, ClaimingStages
  <2>2. \A types : Effective(v, types) => Effective(w, types)
    BY DEF ClosedRow, Effective
  <2> QED  BY <2>1, <2>2 DEF Honest, StageHonest, ClosedRow
<1> QED  BY <1>2, <1>6, <1>7, <1>8 DEF Honest

LEMMA MovedHonest ==
  ASSUME NEW v, NEW w, NEW a, NEW b, Honest(v), MovedRow(v, w, a, b)
  PROVE  /\ Honest(w)
         /\ Done(w, "execute_recovery") = Done(v, "execute_recovery")
         /\ Done(w, "notify_customer") = Done(v, "notify_customer")
<1>1. a.status # "succeeded" /\ a.status # "needs_manual_review" /\ b.status # "succeeded"
  BY DEF MovedRow, LiveStatuses
<1>2. /\ Done(w, "execute_recovery") = Done(v, "execute_recovery")
      /\ Done(w, "notify_customer") = Done(v, "notify_customer")
  BY <1>1 DEF MovedRow, Done, ActionsOfType
<1>3. Backed(w)
  BY <1>2 DEF Honest, Backed, MovedRow, ActionsOfType
<1>4. OneNotice(w)
  BY DEF Honest, OneNotice, MovedRow, ActionsOfType
<1>5. ActionsOfType(v, "close_case") # {} => ActionsOfType(w, "close_case") # {}
  BY DEF MovedRow, ActionsOfType
<1>6. ClosureBacked(w)
  BY <1>2, <1>5 DEF Honest, ClosureBacked, MovedRow
<1>7. ClosedQuiet(w)
  <2>1. a \in LiveActions(v)  BY DEF MovedRow, LiveActions
  <2> QED  BY <2>1 DEF Honest, ClosedQuiet, MovedRow
<1>8. StageHonest(w)
  BY <1>1, StageKept DEF Honest, MovedRow, Unclaiming
<1> QED  BY <1>2, <1>3, <1>4, <1>6, <1>7, <1>8 DEF Honest

LEMMA FinishedHonest ==
  ASSUME NEW v, NEW w, NEW a, NEW b, Honest(v), FinishedRow(v, w, a, b)
  PROVE  Honest(w)
<1>1. a.status # "succeeded" /\ a.status # "needs_manual_review"
  BY DEF FinishedRow
<1>2. /\ Done(v, "execute_recovery") \subseteq Done(w, "execute_recovery")
      /\ Done(v, "notify_customer") \subseteq Done(w, "notify_customer")
  BY <1>1 DEF FinishedRow, Done, ActionsOfType
<1>3. Backed(w)
  BY <1>2 DEF Honest, Backed, FinishedRow, ActionsOfType
<1>4. OneNotice(w)
  BY DEF Honest, OneNotice, FinishedRow, ActionsOfType
<1>5. ActionsOfType(v, "close_case") # {} => ActionsOfType(w, "close_case") # {}
  BY DEF FinishedRow, ActionsOfType
<1>6. ClosureBacked(w)
  BY <1>2, <1>5 DEF Honest, ClosureBacked, FinishedRow
<1>7. ClosedQuiet(w)
  <2>1. a \in LiveActions(v)  BY DEF FinishedRow, LiveActions, LiveStatuses
  <2> QED  BY <2>1 DEF Honest, ClosedQuiet, FinishedRow
<1>8. StageHonest(w)
  <2>1. CASE Unclaiming(v, w)
    BY <1>1, <2>1, StageKept DEF Honest, FinishedRow
  <2>2. CASE ~Unclaiming(v, w)
    <3>1. /\ b \in w.actions /\ b.status \in {"succeeded", "needs_manual_review"}
          /\ \/ w.stage = ActionsCoordinated /\ b.type \in {"escalate_itsm", "execute_recovery"}
             \/ w.stage = CustomerUpdated /\ b.type = "notify_customer"
      BY <2>2 DEF FinishedRow
    <3> QED  BY <3>1, StagesDiffer DEF StageHonest, Effective
  <2> QED  BY <2>1, <2>2
<1> QED  BY <1>3, <1>4, <1>6, <1>7, <1>8 DEF Honest

-----------------------------------------------------------------------------
(* The way each step of the loop takes.                                    *)

\* The control of the request agrees with how far the live action has come.
Controlled == Phased(tx', req'.phase) /\ req'.kind = req.kind /\ req'.phase # "idle"

LEMMA LoopOnControlled ==
  ASSUME req \in Requests, NEW w, NEW a, LoopOn(w, a),
         \A x \in LiveActions(w) : x.status = "pending_approval" /\ a.status = "pending_approval"
  PROVE  tx' = w /\ Controlled
<1>1. /\ tx' = w /\ req'.kind = req.kind
      /\ req'.phase = IF Stalls(a) THEN "finished" ELSE "driving"
  BY DEF LoopOn, Requests
<1>2. a.status = "pending_approval" => req'.phase = "finished"
  BY <1>1 DEF Stalls, StallingStatuses
<1>3. Phased(w, req'.phase)
  BY <1>1, <1>2 DEF Phased
<1> QED  BY <1>1, <1>3 DEF Controlled

LEMMA LoopEndsControlled ==
  ASSUME req \in Requests, NEW w, LoopEnds(w), LiveActions(w) = {}
  PROVE  tx' = w /\ Controlled
BY DEF LoopEnds, Requests, Controlled, Phased

\* What is proposed while nothing is live is either known already, and over, or it is added.
LEMMA ProposeWay ==
  ASSUME req \in Requests, tx \in CaseRows, LiveActions(tx) = {},
         NEW w \in CaseRows, w.actions = tx.actions, SameFile(tx, w),
         Unclaiming(tx, w), w.status # "closed",
         NEW a \in Actions, a.status \in {"proposed", "pending_approval"},
         a.type # "close_case",
         a.status = "pending_approval" => a.type = "execute_recovery",
         a.type = "escalate_itsm" => ActionsOfType(tx, "escalate_itsm") = {},
         a.type = "notify_customer" =>
           /\ ActionsOfType(tx, "notify_customer") = {}
           /\ \E r \in Done(tx, "execute_recovery") : r.hyp = a.hyp /\ r.about = a.about,
         Propose(w, a)
  PROVE  /\ Controlled
         /\ KeptRow(tx, tx') \/ \E b : AddedRow(tx, tx', b)
<1>0. LiveActions(w) = {}
  BY DEF LiveActions
<1>1. CASE \E old \in w.actions : Key(old) = Key(a) /\ Advance(w, old)
  <2>1. PICK old \in w.actions : Advance(w, old)
    BY <1>1
  <2>2. old.status \notin {"proposed", "approved"}
    BY <1>0 DEF LiveActions, LiveStatuses
  <2>3. LoopOn(w, old)
    BY <2>1, <2>2 DEF Advance
  <2>4. tx' = w /\ Controlled
    BY <1>0, <2>3, LoopOnControlled
  <2> QED  BY <2>4 DEF KeptRow, NotClosing
<1>2. CASE /\ \A old \in w.actions : Key(old) # Key(a)
           /\ Advance([w EXCEPT !.actions = @ \cup {a}], a)
  <2> DEFINE u == [w EXCEPT !.actions = @ \cup {a}]
  <2>1. /\ u \in CaseRows /\ u.actions = tx.actions \cup {a} /\ SameFile(tx, u)
        /\ u.stage = w.stage /\ u.status = w.status
    BY DEF CaseRows
  <2>2. Advance(u, a)  BY <1>2
  <2> HIDE DEF u
  <2>3. CASE a.status = "pending_approval"
    <3>1. LoopOn(u, a)
      BY <2>2, <2>3 DEF Advance
    <3>2. \A x \in LiveActions(u) : x = a
      BY <2>1 DEF LiveActions
    <3>3. tx' = u /\ Controlled
      BY <2>3, <3>1, <3>2, LoopOnControlled
    <3>4. AddedRow(tx, tx', a)
      BY <1>2, <2>1, <2>3, <3>3 DEF AddedRow, Unclaiming
    <3> QED  BY <3>3, <3>4
  <2>4. CASE a.status = "proposed"
    <3> DEFINE b == [a EXCEPT !.status = "executing"]
    <3>1. tx' = WithStatus(u, a, "executing") /\ req' = [req EXCEPT !.phase = "executing"]
      BY <2>2, <2>4 DEF Advance
    <3>2. b.status = "executing" /\ b.type = a.type /\ b.hyp = a.hyp /\ b.about = a.about
      BY DEF Actions
    <3>3. tx' = [u EXCEPT !.actions = (@ \ {a}) \cup {b}]
      BY <3>1 DEF WithStatus
    <3> HIDE DEF b
    <3>4. /\ SameFile(u, tx') /\ tx'.stage = u.stage /\ tx'.status = u.status
          /\ tx'.actions = (u.actions \ {a}) \cup {b}
      BY <2>1, <3>3 DEF CaseRows
    <3>5. a \notin tx.actions
      BY <2>4 DEF LiveActions, LiveStatuses
    <3>6. tx'.actions = tx.actions \cup {b}
      BY <2>1, <3>4, <3>5
    <3>a. Key(b) = Key(a)
      BY <3>2 DEF Key
    <3>7. AddedRow(tx, tx', b)
      BY <1>2, <2>1, <3>2, <3>4, <3>6, <3>a DEF AddedRow, Unclaiming
    <3>8. \A x \in LiveActions(tx') : x = b
      BY <3>6 DEF LiveActions
    <3>9. Controlled
      BY <3>1, <3>2, <3>8 DEF Controlled, Phased, Requests
    <3> QED  BY <3>7, <3>9
  <2> QED  BY <2>3, <2>4
<1> QED  BY <1>1, <1>2 DEF Propose

\* The live action is handed back: it runs, or waits for its approver.
LEMMA ReturnLiveActionWay ==
  ASSUME IInv, Phased(tx, req.phase), ReturnLiveAction
  PROVE  /\ Controlled
         /\ KeptRow(tx, tx') \/ \E a, b : MovedRow(tx, tx', a, b)
<1>1. PICK a \in LiveActions(tx) : Advance(tx, a)
  BY DEF ReturnLiveAction
<1>2. /\ req \in Requests /\ tx \in CaseRows /\ req.phase = "driving"
      /\ \A x \in LiveActions(tx) : x = a
  BY <1>1 DEF IInv, TypeOK, Sound, OneLive, ReturnLiveAction, Driving
<1>3. a \in tx.actions /\ a \in Actions /\ a.status \in LiveStatuses
  BY <1>2 DEF LiveActions, CaseRows
<1>4. a.status \in {"pending_approval", "approved"}
  BY <1>2 DEF Phased
<1>5. CASE a.status = "pending_approval"
  <2>1. LoopOn(tx, a)
    BY <1>1, <1>5 DEF Advance
  <2>2. tx' = tx /\ Controlled
    BY <1>2, <1>5, <2>1, LoopOnControlled
  <2> QED  BY <2>2 DEF KeptRow, Unclaiming, NotClosing
<1>6. CASE a.status = "approved"
  <2> DEFINE b == [a EXCEPT !.status = "executing"]
  <2>1. tx' = WithStatus(tx, a, "executing") /\ req' = [req EXCEPT !.phase = "executing"]
    BY <1>1, <1>6 DEF Advance
  <2>2. b.status = "executing" /\ b.type = a.type /\ b.hyp = a.hyp /\ b.about = a.about
    BY <1>3 DEF Actions
  <2>3. tx' = [tx EXCEPT !.actions = (@ \ {a}) \cup {b}]
    BY <2>1 DEF WithStatus
  <2> HIDE DEF b
  <2>4. /\ SameFile(tx, tx') /\ tx'.stage = tx.stage /\ tx'.status = tx.status
        /\ tx'.actions = (tx.actions \ {a}) \cup {b}
    BY <1>2, <2>3 DEF CaseRows
  <2>5. MovedRow(tx, tx', a, b)
    BY <1>3, <2>2, <2>4 DEF MovedRow
  <2>6. \A x \in LiveActions(tx') : x = b
    BY <1>2, <2>4 DEF LiveActions
  <2>7. Controlled
    BY <1>2, <2>1, <2>2, <2>6 DEF Controlled, Phased, Requests
  <2> QED  BY <2>5, <2>7
<1> QED  BY <1>4, <1>5, <1>6

\* The engine sets a status other than closed and moves the stage on to one that claims nothing.
LEMMA CurrentRow ==
  ASSUME tx \in CaseRows, NEW status \in CaseStatus
  PROVE  /\ SameFile(tx, [Current EXCEPT !.status = status])
         /\ [Current EXCEPT !.status = status].stage = tx.stage
BY DEF Current, CaseRows

LEMMA StageRow ==
  ASSUME NEW w \in CaseRows, NEW stage \in Stages
  PROVE  /\ SameFile(w, WithStage(w, stage))
         /\ WithStage(w, stage).stage \in {w.stage, stage}
BY DEF WithStage, CaseRows, LaterStage

\* What is left of the row when a branch of the engine has set status and stage.
LEMMA StatusRow ==
  ASSUME tx \in CaseRows, NEW status \in CaseStatus \ {"closed"},
         NEW stage \in Stages \ ClaimingStages,
         NEW w, \/ w = [Current EXCEPT !.status = status]
                \/ w = WithStage([Current EXCEPT !.status = status], stage)
  PROVE  /\ w \in CaseRows /\ w.actions = tx.actions /\ SameFile(tx, w)
         /\ Unclaiming(tx, w) /\ w.status # "closed"
<1> DEFINE u == [Current EXCEPT !.status = status]
<1>1. /\ u \in CaseRows /\ u.actions = tx.actions /\ SameFile(tx, u)
      /\ u.stage = tx.stage /\ u.status = status
  BY CurrentType, CurrentRow
<1>2. w = u \/ w = WithStage(u, stage)
  OBVIOUS
<1> HIDE DEF u
<1>3. /\ WithStage(u, stage) \in CaseRows /\ WithStage(u, stage).actions = tx.actions
      /\ SameFile(tx, WithStage(u, stage)) /\ WithStage(u, stage).status = status
      /\ WithStage(u, stage).stage \in {tx.stage, stage}
  BY <1>1, StageType, StageRow
<1> QED  BY <1>1, <1>2, <1>3 DEF Unclaiming

\* The five branches that propose.
LEMMA RequestAnyEvidenceWay ==
  ASSUME IInv, RequestAnyEvidence
  PROVE  Controlled /\ (KeptRow(tx, tx') \/ \E b : AddedRow(tx, tx', b))
<1> DEFINE w == [Current EXCEPT !.status = "pending_evidence"]
           a == NewAction("request_evidence", 0, "generic", "proposed")
<1>1. req \in Requests /\ tx \in CaseRows /\ LiveActions(tx) = {} /\ Propose(w, a)
  BY DrivingFacts DEF RequestAnyEvidence, Deciding
<1>2. IssueReported \in Stages \ ClaimingStages /\ "pending_evidence" \in CaseStatus \ {"closed"}
  BY StagesDiffer DEF Stages, IssueReported, CaseStatus, OutcomeRetained
<1>3. /\ w \in CaseRows /\ w.actions = tx.actions /\ SameFile(tx, w)
      /\ Unclaiming(tx, w) /\ w.status # "closed"
  BY <1>1, <1>2, StatusRow
<1>4. a \in Actions /\ a.type = "request_evidence" /\ a.status = "proposed"
  BY NewActionType, AboutsMembers DEF ActionType, ActionStatus
<1> HIDE DEF w, a
<1> QED  BY <1>1, <1>3, <1>4, ProposeWay

LEMMA RequestMissingEvidenceWay ==
  ASSUME IInv, RequestMissingEvidence
  PROVE  Controlled /\ (KeptRow(tx, tx') \/ \E b : AddedRow(tx, tx', b))
<1>1. PICK flag \in tx.missing :
        Propose(WithStage([Current EXCEPT !.status = "pending_evidence"], EvidenceChecked),
                NewAction("request_evidence", 0, flag, "proposed"))
  BY DEF RequestMissingEvidence
<1> DEFINE w == WithStage([Current EXCEPT !.status = "pending_evidence"], EvidenceChecked)
           a == NewAction("request_evidence", 0, flag, "proposed")
<1>2. req \in Requests /\ tx \in CaseRows /\ LiveActions(tx) = {} /\ Propose(w, a)
  BY <1>1, DrivingFacts DEF RequestMissingEvidence, Deciding
<1>3. EvidenceChecked \in Stages \ ClaimingStages /\ "pending_evidence" \in CaseStatus \ {"closed"}
  BY StagesDiffer, StageConstants DEF CaseStatus
<1>4. /\ w \in CaseRows /\ w.actions = tx.actions /\ SameFile(tx, w)
      /\ Unclaiming(tx, w) /\ w.status # "closed"
  BY <1>2, <1>3, StatusRow
<1>5. flag \in Abouts
  BY <1>2, AboutsMembers DEF CaseRows
<1>6. a \in Actions /\ a.type = "request_evidence" /\ a.status = "proposed"
  BY <1>5, NewActionType DEF ActionType, ActionStatus
<1> HIDE DEF w, a
<1> QED  BY <1>2, <1>4, <1>6, ProposeWay

LEMMA EscalateItsmWay ==
  ASSUME IInv, EscalateItsm
  PROVE  Controlled /\ (KeptRow(tx, tx') \/ \E b : AddedRow(tx, tx', b))
<1> DEFINE w == [Current EXCEPT !.status = "investigating"]
           a == NewAction("escalate_itsm", tx.hyp.id, "none", "proposed")
<1>1. /\ req \in Requests /\ tx \in CaseRows /\ LiveActions(tx) = {} /\ Propose(w, a)
      /\ ActionsOfType(tx, "escalate_itsm") = {}
  BY DrivingFacts DEF EscalateItsm, Deciding, LooksSystemic
<1>2. EvidenceChecked \in Stages \ ClaimingStages /\ "investigating" \in CaseStatus \ {"closed"}
  BY StagesDiffer, StageConstants DEF CaseStatus
<1>3. /\ w \in CaseRows /\ w.actions = tx.actions /\ SameFile(tx, w)
      /\ Unclaiming(tx, w) /\ w.status # "closed"
  BY <1>1, <1>2, StatusRow
<1>4. tx.hyp.id \in Nat /\ "none" \in Abouts
  BY <1>1, AboutsMembers DEF CaseRows, Hypotheses
<1>5. "escalate_itsm" \in ActionType /\ "proposed" \in ActionStatus
  BY DEF ActionType, ActionStatus
<1>6. a \in Actions /\ a.type = "escalate_itsm" /\ a.status = "proposed"
  BY <1>4, <1>5, NewActionType
<1> HIDE DEF w, a
<1> QED  BY <1>1, <1>3, <1>6, ProposeWay

LEMMA ProposeRecoveryWay ==
  ASSUME IInv, ProposeRecovery
  PROVE  Controlled /\ (KeptRow(tx, tx') \/ \E b : AddedRow(tx, tx', b))
<1>1. PICK i \in DOMAIN Options :
        /\ IsChosen(Options, RejectedCodes(tx), i)
        /\ Propose(WithStage([Current EXCEPT !.status = RecoveryStatus(Options[i])],
                             RecoveryOptionsRanked),
                   RecoveryAction(Options[i]))
  BY DEF ProposeRecovery
<1> DEFINE o == Options[i]
           w == WithStage([Current EXCEPT !.status = RecoveryStatus(o)], RecoveryOptionsRanked)
           a == RecoveryAction(o)
<1>2. /\ req \in Requests /\ tx \in CaseRows /\ LiveActions(tx) = {} /\ NeedsRecovery
      /\ Propose(w, a)
  BY <1>1, DrivingFacts DEF ProposeRecovery, Deciding
<1>3. o \in GoodOptions
  BY <1>1, <1>2, ChosenIsGood
<1> HIDE DEF o
<1>4. RecoveryStatus(o) \in CaseStatus \ {"closed"}
  BY DEF RecoveryStatus, CaseStatus
<1>5. RecoveryOptionsRanked \in Stages \ ClaimingStages
  BY StagesDiffer, StageConstants
<1>6. /\ w \in CaseRows /\ w.actions = tx.actions /\ SameFile(tx, w)
      /\ Unclaiming(tx, w) /\ w.status # "closed"
  BY <1>2, <1>4, <1>5, StatusRow
<1>7. /\ a \in Actions /\ a.type = "execute_recovery"
      /\ a.status \in {"proposed", "pending_approval"}
  BY <1>2, <1>3, RecoveryActionGood
<1> HIDE DEF w, a
<1> QED  BY <1>2, <1>6, <1>7, ProposeWay

LEMMA NotifyCustomerWay ==
  ASSUME IInv, NotifyCustomer
  PROVE  Controlled /\ (KeptRow(tx, tx') \/ \E b : AddedRow(tx, tx', b))
<1>1. PICK done \in Done(tx, "execute_recovery") :
        Propose([Current EXCEPT !.status = "pending_customer_update"],
                NewAction("notify_customer", done.hyp, done.about, "proposed"))
  BY DEF NotifyCustomer
<1> DEFINE w == [Current EXCEPT !.status = "pending_customer_update"]
           a == NewAction("notify_customer", done.hyp, done.about, "proposed")
<1>2. /\ req \in Requests /\ tx \in CaseRows /\ LiveActions(tx) = {} /\ Propose(w, a)
      /\ ActionsOfType(tx, "notify_customer") = {}
  BY <1>1, DrivingFacts DEF NotifyCustomer, Deciding
<1>3. /\ EvidenceChecked \in Stages \ ClaimingStages
      /\ "pending_customer_update" \in CaseStatus \ {"closed"}
  BY StagesDiffer, StageConstants DEF CaseStatus
<1>4. /\ w \in CaseRows /\ w.actions = tx.actions /\ SameFile(tx, w)
      /\ Unclaiming(tx, w) /\ w.status # "closed"
  BY <1>2, <1>3, StatusRow
<1>5. done.hyp \in Nat /\ done.about \in Abouts
  BY <1>2 DEF CaseRows, Actions, Done, ActionsOfType
<1>6. "notify_customer" \in ActionType /\ "proposed" \in ActionStatus
  BY DEF ActionType, ActionStatus
<1>7. a \in Actions /\ a.type = "notify_customer" /\ a.status = "proposed"
  BY <1>5, <1>6, NewActionType
<1>8. a.hyp = done.hyp /\ a.about = done.about
  BY DEF NewAction
<1> HIDE DEF w, a
<1> QED  BY <1>2, <1>4, <1>7, <1>8, ProposeWay

\* The analysis runs inline.
LEMMA RunAnalysisWay ==
  ASSUME IInv, RunAnalysis
  PROVE  Controlled /\ \E b : AddedRow(tx, tx', b)
<1> DEFINE a == NewAction("run_analysis", tx.hyp.id, "none", "succeeded")
<1>1. PICK exposure \in Exposures :
        LoopOn(WithStage([Current EXCEPT !.status = "investigating",
                                         !.hyp.exposure = exposure,
                                         !.actions = @ \cup {a}], ImpactAssessed), a)
  BY DEF RunAnalysis
<1> DEFINE u == [Current EXCEPT !.status = "investigating",
                                !.hyp.exposure = exposure,
                                !.actions = @ \cup {a}]
           w == WithStage(u, ImpactAssessed)
<1>2. req \in Requests /\ tx \in CaseRows /\ LiveActions(tx) = {} /\ LoopOn(w, a)
  BY <1>1, DrivingFacts DEF RunAnalysis, Deciding
<1>3. tx.hyp.id \in Nat /\ "none" \in Abouts
  BY <1>2, AboutsMembers DEF CaseRows, Hypotheses
<1>4. "run_analysis" \in ActionType /\ "succeeded" \in ActionStatus
  BY DEF ActionType, ActionStatus
<1>5. a \in Actions /\ a.type = "run_analysis" /\ a.status = "succeeded"
  BY <1>3, <1>4, NewActionType
<1> HIDE DEF a
<1>6. /\ u \in CaseRows /\ u.actions = tx.actions \cup {a} /\ SameFile(tx, u)
      /\ u.stage = tx.stage /\ u.status = "investigating"
  <2>1. [tx.hyp EXCEPT !.exposure = exposure] \in Hypotheses
    BY <1>2, ExposuresAssumption DEF CaseRows, Hypotheses
  <2> QED  BY <1>2, <1>5, <2>1 DEF Current, CaseRows, CaseStatus
<1> HIDE DEF u
<1>7. /\ w.actions = tx.actions \cup {a} /\ SameFile(tx, w)
      /\ w.stage \in {tx.stage, ImpactAssessed} /\ w.status = "investigating"
  BY <1>6, StageType, StageRow, StageConstants
<1> HIDE DEF w
<1>8. LiveActions(w) = {}
  BY <1>2, <1>5, <1>7 DEF LiveActions, LiveStatuses
<1>9. tx' = w /\ Controlled
  BY <1>2, <1>8, LoopOnControlled
<1>10. AddedRow(tx, tx', a)
  BY <1>2, <1>5, <1>7, <1>9, StagesDiffer DEF AddedRow, Unclaiming
<1> QED  BY <1>9, <1>10

\* So does the closing.
LEMMA CloseCaseWay ==
  ASSUME IInv, CloseCase
  PROVE  Controlled /\ \E b : ClosedRow(tx, tx', b)
<1> DEFINE a == NewAction("close_case", tx.hyp.id, "none", "succeeded")
<1>1. PICK done \in Done(tx, "execute_recovery") :
        LoopOn(WithStage([Current EXCEPT !.status = "closed",
                                         !.closure = [hyp |-> tx.hyp.id, about |-> done.about],
                                         !.actions = @ \cup {a}], OutcomeRetained), a)
  BY DEF CloseCase
<1> DEFINE c == [hyp |-> tx.hyp.id, about |-> done.about]
           u == [Current EXCEPT !.status = "closed",
                                !.closure = c,
                                !.actions = @ \cup {a}]
           w == WithStage(u, OutcomeRetained)
<1>2. /\ req \in Requests /\ tx \in CaseRows /\ LiveActions(tx) = {} /\ LoopOn(w, a)
      /\ ActionsOfType(tx, "close_case") = {} /\ Done(tx, "notify_customer") # {}
      /\ tx.hyp.id # 0
  BY <1>1, DrivingFacts DEF CloseCase, Deciding, Recovered, Assessed, HasHypothesis
<1>3. tx.hyp.id \in Nat /\ "none" \in Abouts /\ done.about \in Abouts
  BY <1>2, AboutsMembers DEF CaseRows, Hypotheses, Actions, Done, ActionsOfType
<1>4. "close_case" \in ActionType /\ "succeeded" \in ActionStatus
  BY DEF ActionType, ActionStatus
<1>5. a \in Actions /\ a.type = "close_case" /\ a.status = "succeeded"
  BY <1>3, <1>4, NewActionType
<1> HIDE DEF a
<1>6. c \in Closures /\ c.about = done.about /\ c # NeverClosed
  BY <1>2, <1>3 DEF Closures, NeverClosed
<1> HIDE DEF c
<1>7. /\ u \in CaseRows /\ u.actions = tx.actions \cup {a} /\ u.closure = c /\ u.opened = tx.opened
      /\ u.stage = tx.stage
  BY <1>2, <1>5, <1>6 DEF Current, CaseRows, CaseStatus
<1> HIDE DEF u
<1>8. /\ w.actions = tx.actions \cup {a} /\ w.closure = c /\ w.opened = tx.opened
      /\ w.stage \in {tx.stage, OutcomeRetained}
  BY <1>7, StageType, StageRow, StageConstants
<1>9. LoopOn(w, a)
  BY <1>2
<1> HIDE DEF w
<1>10. LiveActions(w) = {}
  BY <1>2, <1>5, <1>8 DEF LiveActions, LiveStatuses
<1>11. tx' = w /\ Controlled
  BY <1>2, <1>9, <1>10, LoopOnControlled
<1>12. ClosedRow(tx, tx', a)
  BY <1>1, <1>2, <1>5, <1>6, <1>8, <1>11 DEF ClosedRow
<1> QED  BY <1>11, <1>12

LEMMA NoneWay ==
  ASSUME IInv, Deciding, LoopEnds(Current)
  PROVE  Controlled /\ KeptRow(tx, tx')
<1>1. req \in Requests /\ tx \in CaseRows /\ LiveActions(tx) = {}
  BY DrivingFacts DEF Deciding
<1>2. /\ Current.actions = tx.actions /\ SameFile(tx, Current)
      /\ Current.stage = tx.stage /\ Current.status = tx.status
  BY <1>1 DEF Current, CaseRows
<1>3. LiveActions(Current) = {}
  BY <1>1, <1>2 DEF LiveActions
<1>4. tx' = Current /\ Controlled
  BY <1>1, <1>3, LoopEndsControlled
<1> QED  BY <1>2, <1>4 DEF KeptRow, Unclaiming, NotClosing

-----------------------------------------------------------------------------
(* The executor.                                                           *)

LEMMA ReconciledRow ==
  ASSUME NEW w \in CaseRows, NEW raised \in SUBSET Flags
  PROVE  SameFile(w, Reconciled(w, raised)) /\ Unclaiming(w, Reconciled(w, raised))
<1> DEFINE u == [w EXCEPT !.missing = @ \cup raised]
<1>1. u \in CaseRows /\ SameFile(w, u) /\ u.stage = w.stage
  BY DEF CaseRows
<1> HIDE DEF u
<1>2. /\ SameFile(w, WithStage(u, JourneyAssembled))
      /\ WithStage(u, JourneyAssembled).stage \in {w.stage, JourneyAssembled}
  BY <1>1, StageRow, StageConstants
<1>3. Unclaiming(w, WithStage(u, JourneyAssembled))
  BY <1>2, StagesDiffer DEF Unclaiming
<1>4. Reconciled(w, raised) = IF w.evidence THEN WithStage(u, JourneyAssembled) ELSE w
  BY DEF Reconciled, u
<1>5. CASE w.evidence
  BY <1>2, <1>3, <1>4, <1>5
<1>6. CASE ~w.evidence
  BY <1>4, <1>6 DEF Unclaiming
<1> QED  BY <1>5, <1>6

LEMMA WithIncidentRow ==
  ASSUME NEW w \in CaseRows, NEW raised \in SUBSET Flags
  PROVE  SameFile(w, WithIncident(w, raised)) /\ Unclaiming(w, WithIncident(w, raised))
<1> DEFINE u == [w EXCEPT !.evidence = TRUE, !.itsm = TRUE]
<1>1. u \in CaseRows /\ SameFile(w, u) /\ u.stage = w.stage
  BY DEF CaseRows
<1>2. WithIncident(w, raised) = Reconciled(u, raised)
  BY DEF WithIncident
<1> HIDE DEF u
<1>3. SameFile(u, Reconciled(u, raised)) /\ Unclaiming(u, Reconciled(u, raised))
  BY <1>1, ReconciledRow
<1> QED  BY <1>1, <1>2, <1>3 DEF Unclaiming

LEMMA WithStatusRow ==
  ASSUME NEW w \in CaseRows, NEW a, NEW status
  PROVE  SameFile(w, WithStatus(w, a, status)) /\ WithStatus(w, a, status).stage = w.stage
BY DEF WithStatus, CaseRows

\* The stage after an execution: as an incident leaves it, or what the action stands for.
LEMMA ExecutedRow ==
  ASSUME NEW w \in CaseRows, NEW a \in w.actions, NEW outcome, NEW raised \in SUBSET Flags
  PROVE  /\ SameFile(w, Executed(w, a, outcome, raised))
         /\ \/ Unclaiming(w, Executed(w, a, outcome, raised))
            \/ /\ outcome \in {"success", "review"}
               /\ \/ /\ Executed(w, a, outcome, raised).stage = ActionsCoordinated
                     /\ a.type \in {"escalate_itsm", "execute_recovery"}
                  \/ /\ Executed(w, a, outcome, raised).stage = CustomerUpdated
                     /\ a.type = "notify_customer"
<1> DEFINE seen == IF a.type = "escalate_itsm" THEN WithIncident(w, raised) ELSE w
           final == StatusAfter(outcome)
           moved == WithStatus(seen, a, final)
           w2 == StageAfter(moved, a)
<1>1. /\ seen \in CaseRows /\ seen.actions = w.actions
      /\ SameFile(w, seen) /\ Unclaiming(w, seen)
  <2>1. CASE a.type = "escalate_itsm"
    BY <2>1, WithIncidentType, WithIncidentRow
  <2>2. CASE a.type # "escalate_itsm"
    BY <2>2 DEF Unclaiming
  <2> QED  BY <2>1, <2>2
<1>2. final \in ActionStatus
  BY StatusAfterType DEF ActionStatus
<1>3. Executed(w, a, outcome, raised) =
        IF outcome \in {"success", "review"} THEN w2 ELSE WithStatus(w, a, final)
  BY DEF Executed
<1> HIDE DEF seen, final
<1>4. moved \in CaseRows /\ SameFile(w, moved) /\ moved.stage = seen.stage
  <2>1. a \in seen.actions  BY <1>1
  <2>2. moved \in CaseRows  BY <1>1, <1>2, <2>1, StatusType
  <2> QED  BY <1>1, <2>2, WithStatusRow
<1> HIDE DEF moved
<1>5. /\ SameFile(w, w2)
      /\ \/ w2.stage = seen.stage
         \/ w2.stage = ActionsCoordinated /\ a.type \in {"escalate_itsm", "execute_recovery"}
         \/ w2.stage = CustomerUpdated /\ a.type = "notify_customer"
  <2>1. CASE a.type \in {"escalate_itsm", "execute_recovery"}
    <3>1. w2 = WithStage(moved, ActionsCoordinated)
      BY <2>1 DEF StageAfter
    <3> QED  BY <1>4, <2>1, <3>1, StageRow, StageConstants
  <2>2. CASE a.type = "notify_customer"
    <3>1. w2 = WithStage(moved, CustomerUpdated)
      BY <2>2 DEF StageAfter
    <3> QED  BY <1>4, <2>2, <3>1, StageRow, StageConstants
  <2>3. CASE a.type \notin {"escalate_itsm", "execute_recovery", "notify_customer"}
    <3>1. w2 = moved
      BY <2>3 DEF StageAfter
    <3> QED  BY <1>4, <3>1
  <2> QED  BY <2>1, <2>2, <2>3
<1> HIDE DEF w2
<1>6. CASE outcome \in {"success", "review"}
  <2>1. w2.stage = seen.stage => Unclaiming(w, w2)
    BY <1>1 DEF Unclaiming
  <2> QED  BY <1>3, <1>5, <1>6, <2>1
<1>7. CASE outcome \notin {"success", "review"}
  BY <1>3, <1>7, WithStatusRow DEF Unclaiming
<1> QED  BY <1>6, <1>7

\* An action has run; what was done in the outside world agrees with its outcome.
Finished(a, b, outcome) ==
  /\ FinishedRow(tx, tx', a, b)
  /\ b.status = StatusAfter(outcome)
  /\ b.status # "succeeded" => req'.phase = "finished"
  /\ remedies' = Applied(remedies, a, "execute_recovery", outcome)
  /\ notices' = Applied(notices, a, "notify_customer", outcome)

LEMMA FinishExecutionWay ==
  ASSUME IInv, FinishExecution
  PROVE  Controlled /\ \E a, b : \E outcome \in OutcomeKinds : Finished(a, b, outcome)
<1>1. PICK a \in tx.actions, outcome \in Outcomes, raised \in SUBSET Flags :
        /\ a.status = "executing"
        /\ LoopOn(Executed(tx, a, outcome, raised), [a EXCEPT !.status = StatusAfter(outcome)])
        /\ remedies' = Applied(remedies, a, "execute_recovery", outcome)
        /\ notices' = Applied(notices, a, "notify_customer", outcome)
  BY DEF FinishExecution
<1> DEFINE b == [a EXCEPT !.status = StatusAfter(outcome)]
           w == Executed(tx, a, outcome, raised)
<1>2. req \in Requests /\ tx \in CaseRows /\ OneLive(tx) /\ outcome \in OutcomeKinds
  BY OutcomesAssumption DEF IInv, TypeOK, Sound
<1>3. a \in Actions  BY <1>2 DEF CaseRows
<1>4. w.status = tx.status /\ w.actions = (tx.actions \ {a}) \cup {b}
  BY <1>2, ExecutedType
<1>5. /\ b.status = StatusAfter(outcome) /\ b.type = a.type /\ b.hyp = a.hyp /\ b.about = a.about
      /\ b.status \in {"succeeded", "needs_manual_review", "failed"}
      /\ outcome \in {"success", "review"} => b.status # "failed"
  <2>1. /\ StatusAfter(outcome) \in {"succeeded", "needs_manual_review", "failed"}
        /\ outcome \in {"success", "review"} => StatusAfter(outcome) # "failed"
    BY StatusAfterType DEF StatusAfter
  <2> QED  BY <1>3, <2>1 DEF Actions
<1>6. /\ SameFile(tx, w)
      /\ \/ Unclaiming(tx, w)
         \/ /\ outcome \in {"success", "review"}
            /\ \/ w.stage = ActionsCoordinated /\ a.type \in {"escalate_itsm", "execute_recovery"}
               \/ w.stage = CustomerUpdated /\ a.type = "notify_customer"
  BY <1>2, ExecutedRow
<1>7. LoopOn(w, b)  BY <1>1
<1> HIDE DEF w, b
<1>8. LiveActions(w) = {}
  <2>1. a \in LiveActions(tx)
    BY <1>1 DEF LiveActions, LiveStatuses
  <2>2. \A x \in tx.actions \ {a} : x.status \notin LiveStatuses
    BY <1>2, <2>1 DEF OneLive, LiveActions
  <2>3. b.status \notin LiveStatuses
    BY <1>5 DEF LiveStatuses
  <2> QED  BY <1>4, <2>2, <2>3 DEF LiveActions
<1>9. tx' = w /\ Controlled
  BY <1>2, <1>7, <1>8, LoopOnControlled
<1>10. FinishedRow(tx, tx', a, b)
  BY <1>1, <1>4, <1>5, <1>6, <1>9 DEF FinishedRow
<1>11. b.status # "succeeded" => req'.phase = "finished"
  BY <1>2, <1>5, <1>7 DEF LoopOn, Requests, Stalls, StallingStatuses
<1>12. Finished(a, b, outcome)
  BY <1>1, <1>5, <1>10, <1>11 DEF Finished
<1> QED  BY <1>2, <1>9, <1>12

-----------------------------------------------------------------------------
(* The start of a cycle and the decisions.                                 *)

LEMMA ArrivedRow ==
  ASSUME NEW w \in CaseRows, NEW any, NEW incident
  PROVE  /\ SameFile(w, Arrived(w, any, incident))
         /\ Arrived(w, any, incident).stage = w.stage
BY DEF Arrived, CaseRows

\* A new leading hypothesis may move the stage back, to one that claims nothing.
LEMMA GeneratedRow ==
  ASSUME NEW w \in CaseRows, NEW d \in Diagnoses, NEW id \in Nat
  PROVE  SameFile(w, Generated(w, d, id)) /\ Unclaiming(w, Generated(w, d, id))
<1> DEFINE hyp == [id |-> id, category |-> d.category, confidence |-> d.confidence,
                   exposure |-> NotAssessed]
           u == [w EXCEPT !.hyp = hyp]
           next == WithStage(u, FailureLocated)
           back == [next EXCEPT !.reeval = TRUE, !.stage = FailureLocated]
<1>1. hyp \in Hypotheses
  BY DiagnosesAssumption DEF Hypotheses
<1>2. Generated(w, d, id) = back \/ Generated(w, d, id) = next
  BY DEF Generated
<1> HIDE DEF hyp
<1>3. u \in CaseRows /\ SameFile(w, u) /\ u.stage = w.stage
  BY <1>1 DEF CaseRows
<1> HIDE DEF u
<1>4. next \in CaseRows /\ SameFile(w, next) /\ next.stage \in {w.stage, FailureLocated}
  BY <1>3, StageType, StageRow, StageConstants
<1> HIDE DEF next
<1>5. SameFile(w, back) /\ back.stage = FailureLocated
  BY <1>4 DEF CaseRows
<1> HIDE DEF back
<1> QED  BY <1>2, <1>4, <1>5, StagesDiffer DEF Unclaiming

LEMMA BeginCycleWay ==
  ASSUME IInv, NEW w \in CaseRows, BeginCycle(w)
  PROVE  KeptRow(w, tx') /\ req'.phase = "driving" /\ req'.kind = "cycle"
<1>1. PICK any \in BOOLEAN, incident \in BOOLEAN, raised \in SUBSET Flags :
        LET known == Reconciled(Arrived(w, any, incident), raised)
        IN  /\ req' = Started("cycle")
            /\ \/ tx' = known
               \/ /\ minted < MaxHypotheses
                  /\ \E d \in Diagnoses : tx' = Generated(known, d, minted + 1)
  BY DEF BeginCycle
<1> DEFINE arrived == Arrived(w, any, incident)
           known == Reconciled(arrived, raised)
<1>2. /\ arrived \in CaseRows /\ arrived.actions = w.actions /\ arrived.status = w.status
      /\ SameFile(w, arrived) /\ arrived.stage = w.stage
  BY ArrivedType, ArrivedRow
<1>3. minted + 1 \in Nat
  BY BoundsAssumption DEF IInv, TypeOK
<1>4. tx' = known \/ \E d \in Diagnoses : tx' = Generated(known, d, minted + 1)
  BY <1>1
<1> HIDE DEF arrived
<1>5. /\ known \in CaseRows /\ known.actions = w.actions /\ known.status = w.status
      /\ SameFile(w, known) /\ Unclaiming(w, known)
  <2>1. /\ known \in CaseRows /\ known.actions = arrived.actions
        /\ known.status = arrived.status
        /\ SameFile(arrived, known) /\ Unclaiming(arrived, known)
    BY <1>2, ReconciledType, ReconciledRow
  <2> QED  BY <1>2, <2>1 DEF Unclaiming
<1> HIDE DEF known
<1>6. /\ tx'.actions = w.actions /\ tx'.status = w.status
      /\ SameFile(w, tx') /\ Unclaiming(w, tx')
  <2>1. CASE tx' = known
    BY <1>5, <2>1
  <2>2. CASE \E d \in Diagnoses : tx' = Generated(known, d, minted + 1)
    <3>1. /\ tx'.actions = known.actions /\ tx'.status = known.status
          /\ SameFile(known, tx') /\ Unclaiming(known, tx')
      BY <1>3, <1>5, <2>2, GeneratedType, GeneratedRow
    <3> QED  BY <1>5, <3>1 DEF Unclaiming
  <2> QED  BY <1>4, <2>1, <2>2
<1>7. req'.phase = "driving" /\ req'.kind = "cycle"
  BY <1>1 DEF Started
<1> QED  BY <1>6, <1>7 DEF KeptRow, NotClosing

LEMMA DecisionWay ==
  ASSUME IInv, NEW a \in db.actions, NEW user, MayDecide(user, a),
         NEW status \in {"approved", "rejected"}, db' = WithDecision(db, a, status, user)
  PROVE  \E b : MovedRow(db, db', a, b) /\ b.status = status
<1> DEFINE b == [a EXCEPT !.status = status, !.by = user]
<1>1. db \in CaseRows /\ a \in Actions
  BY DEF IInv, TypeOK, CaseRows
<1>2. b.type = a.type /\ b.hyp = a.hyp /\ b.about = a.about /\ b.status = status
  BY <1>1 DEF Actions
<1>3. db' = [db EXCEPT !.actions = (@ \ {a}) \cup {b}]
  BY DEF WithDecision
<1> HIDE DEF b
<1>4. /\ SameFile(db, db') /\ db'.stage = db.stage /\ db'.status = db.status
      /\ db'.actions = (db.actions \ {a}) \cup {b}
  BY <1>1, <1>3 DEF CaseRows
<1>5. a.status \in LiveStatuses
  BY DEF MayDecide, LiveStatuses
<1>6. MovedRow(db, db', a, b)
  BY <1>2, <1>4, <1>5 DEF MovedRow, MayDecide
<1> QED  BY <1>2, <1>6

-----------------------------------------------------------------------------
(* The invariant: rows and session.                                        *)

\* An approval that is on record is being carried out, or a crash has come between.
Acted == (\E a \in db.actions : a.status = "approved") => crashes > 0 \/ req.kind = "decide"

\* There is nothing on a case that has not been opened.
Opening ==
  /\ ~db.opened => db.actions = {} /\ db.closure = NeverClosed
  /\ req.phase # "idle" => tx.opened

AtRest == req.phase = "idle" => tx = db /\ req.kind = "none"

Frozen == db.closure # NeverClosed => tx.closure = db.closure

LInv ==
  /\ IInv
  /\ Honest(db) /\ Honest(tx)
  /\ Ledgered(db, remedies) /\ Ledgered(tx, remedies)
  /\ ToldWhatHappened
  /\ Phased(db, "idle") /\ Phased(tx, req.phase)
  /\ Acted /\ Opening /\ AtRest /\ Frozen

\* One step of CaseLifecycle, or none.
Promise == [Lifecycle!Next]_(Lifecycle!vars)

\* A step that leaves what is done as it is.
Quiet(v, w) ==
  KeptRow(v, w) \/ (\E b : AddedRow(v, w, b)) \/ (\E a, b : MovedRow(v, w, a, b))

LEMMA QuietRow ==
  ASSUME NEW v, NEW w, Honest(v), Quiet(v, w)
  PROVE  /\ Honest(w)
         /\ Done(w, "execute_recovery") = Done(v, "execute_recovery")
         /\ Done(w, "notify_customer") = Done(v, "notify_customer")
         /\ w.closure = v.closure /\ w.opened = v.opened
         /\ Progress(w) = Progress(v)
<1>1. /\ Honest(w)
      /\ Done(w, "execute_recovery") = Done(v, "execute_recovery")
      /\ Done(w, "notify_customer") = Done(v, "notify_customer")
      /\ w.closure = v.closure /\ w.opened = v.opened
  <2>1. CASE KeptRow(v, w)
    BY <2>1, KeptHonest DEF KeptRow, Done, ActionsOfType
  <2>2. ASSUME NEW b, AddedRow(v, w, b)
        PROVE  /\ Honest(w)
               /\ Done(w, "execute_recovery") = Done(v, "execute_recovery")
               /\ Done(w, "notify_customer") = Done(v, "notify_customer")
               /\ w.closure = v.closure /\ w.opened = v.opened
    <3>1. b.status # "succeeded" \/ b.type = "run_analysis"
      BY <2>2 DEF AddedRow
    <3> QED  BY <2>2, <3>1, AddedHonest DEF AddedRow, Done, ActionsOfType
  <2>3. ASSUME NEW a, NEW b, MovedRow(v, w, a, b)
        PROVE  /\ Honest(w)
               /\ Done(w, "execute_recovery") = Done(v, "execute_recovery")
               /\ Done(w, "notify_customer") = Done(v, "notify_customer")
               /\ w.closure = v.closure /\ w.opened = v.opened
    BY <2>3, MovedHonest DEF MovedRow
  <2> QED  BY <2>1, <2>2, <2>3 DEF Quiet
<1> QED  BY <1>1 DEF Progress

LEMMA ProgressFields ==
  ASSUME NEW w
  PROVE  /\ Progress(w) \in Lifecycle!Progress
         /\ Progress(w).remedied <=> Done(w, "execute_recovery") # {}
         /\ Progress(w).told <=> Done(w, "notify_customer") # {}
         /\ Progress(w).closed <=> w.closure # NeverClosed
BY DEF Progress, Lifecycle!Progress

\* A record that differs in one field.
LEMMA RecordChange ==
  ASSUME NEW p \in Lifecycle!Progress, NEW q \in Lifecycle!Progress
  PROVE  /\ q.remedied = p.remedied /\ q.told = p.told /\ q.closed
              => q = [p EXCEPT !.closed = TRUE]
         /\ q.remedied = p.remedied /\ q.closed = p.closed
              => \E done \in BOOLEAN : q = [p EXCEPT !.told = done]
         /\ q.told = p.told /\ q.closed = p.closed
              => \E done \in BOOLEAN : q = [p EXCEPT !.remedied = done]
<1> USE DEF Lifecycle!Progress
<1>1. q.remedied = p.remedied /\ q.told = p.told /\ q.closed => q = [p EXCEPT !.closed = TRUE]
  OBVIOUS
<1>2. q.remedied = p.remedied /\ q.closed = p.closed => q = [p EXCEPT !.told = q.told]
  OBVIOUS
<1>3. q.told = p.told /\ q.closed = p.closed => q = [p EXCEPT !.remedied = q.remedied]
  OBVIOUS
<1>4. q.told \in BOOLEAN /\ q.remedied \in BOOLEAN
  OBVIOUS
<1> QED  BY <1>1, <1>2, <1>3, <1>4

LEMMA QuietStep ==
  ASSUME LInv, IInv', NoEffect, req.phase # "idle", Controlled, Quiet(tx, tx')
  PROVE  LInv' /\ Promise
<1>1. /\ Honest(tx')
      /\ Done(tx', "execute_recovery") = Done(tx, "execute_recovery")
      /\ tx'.closure = tx.closure /\ tx'.opened = tx.opened
      /\ Progress(tx') = Progress(tx)
  BY QuietRow DEF LInv
<1>2. Ledgered(tx', remedies)
  BY <1>1 DEF LInv, Ledgered
<1>3. LInv'
  BY <1>1, <1>2 DEF LInv, NoEffect, Controlled, ToldWhatHappened, Acted, Opening, AtRest, Frozen
<1>4. UNCHANGED Lifecycle!vars
  BY <1>1 DEF Lifecycle!vars, NoEffect, Progress
<1> QED  BY <1>3, <1>4 DEF Promise

LEMMA CloseStep ==
  ASSUME LInv, IInv', NoEffect, req.phase # "idle", Controlled,
         NEW b, ClosedRow(tx, tx', b)
  PROVE  LInv' /\ Promise
<1>1. Honest(tx')
  BY ClosedHonest DEF LInv, IInv
<1>2. /\ Done(tx', "execute_recovery") = Done(tx, "execute_recovery")
      /\ Done(tx', "notify_customer") = Done(tx, "notify_customer")
      /\ Done(tx, "notify_customer") # {}
      /\ tx'.closure # NeverClosed /\ tx'.opened = tx.opened
  BY DEF ClosedRow, Done, ActionsOfType
<1>3. tx.closure = NeverClosed
  BY DEF LInv, Honest, ClosureBacked, ClosedRow
<1>4. db.closure = NeverClosed
  BY <1>3 DEF LInv, Frozen
<1>5. Ledgered(tx', remedies)
  BY <1>2 DEF LInv, Ledgered
<1>6. LInv'
  BY <1>1, <1>2, <1>4, <1>5
     DEF LInv, NoEffect, Controlled, ToldWhatHappened, Acted, Opening, AtRest, Frozen
<1>7. Lifecycle!Close
  <2>1. Progress(tx).told
    BY <1>2 DEF Progress
  <2>2. Progress(tx') = [Progress(tx) EXCEPT !.closed = TRUE]
    <3>1. /\ Progress(tx').remedied = Progress(tx).remedied
          /\ Progress(tx').told = Progress(tx).told
      BY <1>2 DEF Progress
    <3>2. Progress(tx').closed
      BY <1>2, ProgressFields
    <3>3. Progress(tx) \in Lifecycle!Progress /\ Progress(tx') \in Lifecycle!Progress
      BY ProgressFields
    <3> QED  BY <3>1, <3>2, <3>3, RecordChange
  <2>3. UNCHANGED << Progress(db), Len(remedies), Len(notices) >>
    BY DEF Progress, NoEffect
  <2> QED  BY <2>1, <2>2, <2>3 DEF Lifecycle!Close
<1> QED  BY <1>6, <1>7 DEF Promise, Lifecycle!Next

\* A longer ledger keeps its entries.
LEMMA LedgerGrows ==
  ASSUME NEW ledger \in Seq(Actions), NEW a \in Actions
  PROVE  /\ Append(ledger, a) \in Seq(Actions)
         /\ DOMAIN ledger \subseteq DOMAIN Append(ledger, a)
         /\ \A i \in DOMAIN ledger : Append(ledger, a)[i] = ledger[i]
         /\ Len(ledger) + 1 \in DOMAIN Append(ledger, a)
         /\ Append(ledger, a)[Len(ledger) + 1] = a
         /\ Len(Append(ledger, a)) = Len(ledger) + 1
         /\ \A i \in DOMAIN Append(ledger, a) : i \in DOMAIN ledger \/ i = Len(ledger) + 1
OBVIOUS

\* What an execution leaves of LInv, apart from the two ledgers.
LEMMA FinishedKeeps ==
  ASSUME LInv, IInv', FinishExecution, Controlled, NEW a, NEW b, FinishedRow(tx, tx', a, b)
  PROVE  /\ Honest(tx') /\ Phased(tx', req'.phase) /\ tx'.closure = tx.closure
         /\ UNCHANGED << db, crashes >> /\ Honest(db)' /\ Phased(db, "idle")'
         /\ Acted' /\ Opening' /\ AtRest' /\ Frozen'
         /\ a \in Actions /\ remedies \in Seq(Actions) /\ notices \in Seq(Actions)
<1>1. Honest(tx')
  BY FinishedHonest DEF LInv
<1>2. tx'.closure = tx.closure /\ tx'.opened = tx.opened /\ a \in Actions
  BY DEF FinishedRow, LInv, IInv, TypeOK, CaseRows
<1>3. UNCHANGED << db, crashes >> /\ req.phase = "executing"
  BY DEF FinishExecution
<1>4. Acted' /\ Opening' /\ AtRest' /\ Frozen'
  BY <1>2, <1>3 DEF LInv, Controlled, Acted, Opening, AtRest, Frozen
<1> QED  BY <1>1, <1>2, <1>3, <1>4 DEF LInv, IInv, TypeOK, Controlled

LEMMA FinishExecutionStep ==
  ASSUME LInv, IInv', FinishExecution
  PROVE  LInv' /\ Promise
<1>1. /\ Controlled
      /\ \E a, b : \E outcome \in OutcomeKinds : Finished(a, b, outcome)
  BY FinishExecutionWay DEF LInv
<1>2. PICK a, b : \E outcome \in OutcomeKinds : Finished(a, b, outcome)
  BY <1>1
<1>3. PICK outcome \in OutcomeKinds : Finished(a, b, outcome)
  BY <1>2
<1>4. FinishedRow(tx, tx', a, b)
  BY <1>3 DEF Finished
<1>5. /\ Honest(tx') /\ Phased(tx', req'.phase) /\ tx'.closure = tx.closure
      /\ UNCHANGED << db, crashes >> /\ Honest(db)' /\ Phased(db, "idle")'
      /\ Acted' /\ Opening' /\ AtRest' /\ Frozen'
      /\ a \in Actions /\ remedies \in Seq(Actions) /\ notices \in Seq(Actions)
  BY <1>1, <1>4, FinishedKeeps
<1>6. /\ a.status = "executing" /\ a \in tx.actions
      /\ tx'.actions = (tx.actions \ {a}) \cup {b}
      /\ b.type = a.type /\ b.hyp = a.hyp /\ b.about = a.about
      /\ b.status = "succeeded" => outcome = "success"
  BY <1>3, <1>4 DEF Finished, FinishedRow, StatusAfter
<1>7. CASE a.type \notin {"execute_recovery", "notify_customer"} \/ outcome = "failed"
  <2>1. UNCHANGED << remedies, notices >>
    BY <1>3, <1>7 DEF Finished, Applied
  <2>2. /\ Done(tx', "execute_recovery") = Done(tx, "execute_recovery")
        /\ Done(tx', "notify_customer") = Done(tx, "notify_customer")
    BY <1>6, <1>7 DEF Done, ActionsOfType
  <2>3. LInv'
    BY <1>5, <2>1, <2>2 DEF LInv, Ledgered, ToldWhatHappened
  <2>4. UNCHANGED Lifecycle!vars
    BY <1>5, <2>1, <2>2 DEF Lifecycle!vars, Progress
  <2> QED  BY <2>3, <2>4 DEF Promise
<1>8. CASE a.type = "execute_recovery" /\ outcome # "failed"
  <2>1. remedies' = Append(remedies, a) /\ notices' = notices
    BY <1>3, <1>8 DEF Finished, Applied
  <2>2. Done(tx, "execute_recovery") = {}
    <3>1. OneSuccess(tx)
      BY DEF LInv, IInv, Sound
    <3>2. a \in ActionsOfType(tx, "execute_recovery") /\ a.status \in LiveStatuses
      BY <1>6, <1>8 DEF ActionsOfType, LiveStatuses
    <3>3. \A d \in Done(tx, "execute_recovery") : d = a
      BY <3>1, <3>2 DEF OneSuccess
    <3> QED  BY <1>6, <3>3 DEF Done
  <2>3. /\ Done(tx', "notify_customer") = Done(tx, "notify_customer")
        /\ Done(tx', "execute_recovery") \subseteq {b}
    BY <1>6, <1>8, <2>2 DEF Done, ActionsOfType
  <2>4. Ledgered(tx', remedies') /\ Ledgered(db, remedies')
    <3>1. Ledgered(tx', remedies')
      BY <1>5, <1>6, <2>1, <2>3, LedgerGrows DEF Ledgered
    <3>2. Ledgered(db, remedies')
      BY <1>5, <2>1, LedgerGrows DEF LInv, Ledgered
    <3> QED  BY <3>1, <3>2
  <2>5. ToldWhatHappened'
    BY <1>5, <2>1, LedgerGrows DEF LInv, ToldWhatHappened
  <2>6. LInv'
    BY <1>5, <2>1, <2>4, <2>5 DEF LInv
  <2>7. Lifecycle!Remedy
    <3>1. ~Progress(tx).remedied
      BY <2>2, ProgressFields
    <3>2. Len(remedies') = Len(remedies) + 1
      BY <1>5, <2>1, LedgerGrows
    <3>3. \E done \in BOOLEAN : Progress(tx') = [Progress(tx) EXCEPT !.remedied = done]
      <4>1. /\ Progress(tx').told = Progress(tx).told
            /\ Progress(tx').closed = Progress(tx).closed
        BY <1>5, <2>3 DEF Progress
      <4>2. Progress(tx) \in Lifecycle!Progress /\ Progress(tx') \in Lifecycle!Progress
        BY ProgressFields
      <4> QED  BY <4>1, <4>2, RecordChange
    <3>4. UNCHANGED << Progress(db), Len(notices) >>
      BY <1>5, <2>1 DEF Progress
    <3> QED  BY <3>1, <3>2, <3>3, <3>4 DEF Lifecycle!Remedy
  <2> QED  BY <2>6, <2>7 DEF Promise, Lifecycle!Next
<1>9. CASE a.type = "notify_customer" /\ outcome # "failed"
  <2>1. notices' = Append(notices, a) /\ remedies' = remedies
    BY <1>3, <1>9 DEF Finished, Applied
  <2>2. a \in ActionsOfType(tx, "notify_customer")
    BY <1>6, <1>9 DEF ActionsOfType
  <2>3. Done(tx, "notify_customer") = {}
    <3>1. \A d \in Done(tx, "notify_customer") : d = a
      BY <2>2 DEF LInv, Honest, OneNotice, Done
    <3> QED  BY <1>6, <3>1 DEF Done
  <2>4. PICK r \in Done(tx, "execute_recovery") : r.hyp = a.hyp /\ r.about = a.about
    BY <2>2 DEF LInv, Honest, Backed
  <2>5. PICK i \in DOMAIN remedies : remedies[i].hyp = a.hyp /\ remedies[i].about = a.about
    BY <2>4 DEF LInv, Ledgered
  <2>6. Done(tx', "execute_recovery") = Done(tx, "execute_recovery")
    BY <1>6, <1>9 DEF Done, ActionsOfType
  <2>7. Ledgered(tx', remedies') /\ Ledgered(db, remedies)'
    BY <1>5, <2>1, <2>6 DEF LInv, Ledgered
  <2>8. ToldWhatHappened'
    <3> SUFFICES ASSUME NEW n \in DOMAIN notices'
                 PROVE  \E k \in DOMAIN remedies :
                          /\ remedies[k].hyp = notices'[n].hyp
                          /\ remedies[k].about = notices'[n].about
      BY <2>1 DEF ToldWhatHappened
    <3>1. CASE n \in DOMAIN notices
      <4>1. notices'[n] = notices[n]
        BY <1>5, <2>1, <3>1, LedgerGrows
      <4> QED  BY <3>1, <4>1 DEF LInv, ToldWhatHappened
    <3>2. CASE n = Len(notices) + 1
      <4>1. notices'[n] = a
        BY <1>5, <2>1, <3>2, LedgerGrows
      <4> QED  BY <2>5, <4>1
    <3> QED  BY <1>5, <2>1, <3>1, <3>2, LedgerGrows
  <2>9. LInv'
    BY <1>5, <2>7, <2>8 DEF LInv
  <2>10. Lifecycle!Tell
    <3>1. Progress(tx).remedied /\ ~Progress(tx).told
      BY <2>3, <2>4, ProgressFields
    <3>2. Len(notices') = Len(notices) + 1
      BY <1>5, <2>1, LedgerGrows
    <3>3. \E done \in BOOLEAN : Progress(tx') = [Progress(tx) EXCEPT !.told = done]
      <4>1. /\ Progress(tx').remedied = Progress(tx).remedied
            /\ Progress(tx').closed = Progress(tx).closed
        BY <1>5, <2>6 DEF Progress
      <4>2. Progress(tx) \in Lifecycle!Progress /\ Progress(tx') \in Lifecycle!Progress
        BY ProgressFields
      <4> QED  BY <4>1, <4>2, RecordChange
    <3>4. UNCHANGED << Progress(db), Len(remedies) >>
      BY <1>5, <2>1 DEF Progress
    <3> QED  BY <3>1, <3>2, <3>3, <3>4 DEF Lifecycle!Tell
  <2> QED  BY <2>9, <2>10 DEF Promise, Lifecycle!Next
<1> QED  BY <1>7, <1>8, <1>9

\* A cycle starts from the committed row, or from that of a new case.
LEMMA BeginCycleStep ==
  ASSUME LInv, IInv', req.phase = "idle", NEW v \in CaseRows, BeginCycle(v),
         UNCHANGED << db, remedies, notices, crashes >>,
         Honest(v), Phased(v, "idle"), v.opened, v.closure = db.closure,
         Done(v, "execute_recovery") = Done(db, "execute_recovery"),
         Done(v, "notify_customer") = Done(db, "notify_customer")
  PROVE  LInv' /\ Promise
<1>1. KeptRow(v, tx') /\ req'.phase = "driving" /\ req'.kind = "cycle"
  BY BeginCycleWay DEF LInv
<1>2. /\ Honest(tx')
      /\ Done(tx', "execute_recovery") = Done(db, "execute_recovery")
      /\ Done(tx', "notify_customer") = Done(db, "notify_customer")
      /\ tx'.closure = db.closure /\ tx'.opened
  BY <1>1, QuietRow DEF Quiet
<1>3. Phased(tx', "driving")
  BY <1>1 DEF KeptRow, Phased, LiveActions
<1>4. tx = db /\ req.kind = "none"
  BY DEF LInv, AtRest
<1>5. Ledgered(tx', remedies)
  BY <1>2 DEF LInv, Ledgered
<1>6. Acted' /\ Opening' /\ AtRest' /\ Frozen'
  BY <1>1, <1>2, <1>4 DEF LInv, Acted, Opening, AtRest, Frozen
<1>7. LInv'
  BY <1>1, <1>2, <1>3, <1>5, <1>6 DEF LInv, ToldWhatHappened
<1>8. UNCHANGED Lifecycle!vars
  BY <1>2, <1>4 DEF Lifecycle!vars, Progress
<1> QED  BY <1>7, <1>8 DEF Promise

LEMMA NoActionsHonest ==
  ASSUME NEW w, w.actions = {}, w.closure = NeverClosed, w.stage = IssueReported, w.status = "open"
  PROVE  Honest(w) /\ Phased(w, "idle")
BY StagesDiffer
   DEF Honest, Backed, OneNotice, ClosureBacked, ClosedQuiet, StageHonest, Phased, ClaimingStages,
       Effective, ActionsOfType, LiveActions

LEMMA OpenCaseStep ==
  ASSUME LInv, IInv', OpenCase
  PROVE  LInv' /\ Promise
<1> DEFINE v == [NewCase EXCEPT !.opened = TRUE]
<1>1. /\ v \in CaseRows /\ v.opened /\ v.actions = {} /\ v.closure = NeverClosed
      /\ v.stage = IssueReported /\ v.status = "open"
  BY NewCaseType DEF NewCase, CaseRows
<1>2. /\ BeginCycle(v) /\ req.phase = "idle" /\ ~db.opened
      /\ UNCHANGED << db, remedies, notices, crashes >>
  BY DEF OpenCase
<1> HIDE DEF v
<1>3. db.actions = {} /\ db.closure = NeverClosed
  BY <1>2 DEF LInv, Opening
<1>4. /\ Done(v, "execute_recovery") = Done(db, "execute_recovery")
      /\ Done(v, "notify_customer") = Done(db, "notify_customer")
  BY <1>1, <1>3 DEF Done, ActionsOfType
<1>5. Honest(v) /\ Phased(v, "idle")
  BY <1>1, NoActionsHonest
<1> QED  BY <1>1, <1>2, <1>3, <1>4, <1>5, BeginCycleStep

LEMMA AdvanceCaseStep ==
  ASSUME LInv, IInv', AdvanceCase
  PROVE  LInv' /\ Promise
<1>1. /\ db \in CaseRows /\ db.opened /\ BeginCycle(db) /\ req.phase = "idle"
      /\ UNCHANGED << db, remedies, notices, crashes >>
      /\ Honest(db) /\ Phased(db, "idle")
  BY DEF AdvanceCase, LInv, IInv, TypeOK
<1> QED  BY <1>1, BeginCycleStep

\* What a decision leaves of both rows.
LEMMA DecisionStep ==
  ASSUME LInv, IInv', Approve \/ Reject
  PROVE  LInv' /\ Promise
<1>1. PICK status \in {"approved", "rejected"} :
        /\ \E a \in db.actions, user \in Users :
             MayDecide(user, a) /\ db' = WithDecision(db, a, status, user)
        /\ status = "approved" => req' = Started("decide")
        /\ status = "rejected" => req' = req
  BY DEF Approve, Reject
<1>2. PICK a \in db.actions, user \in Users :
        MayDecide(user, a) /\ db' = WithDecision(db, a, status, user)
  BY <1>1
<1>3. PICK b : MovedRow(db, db', a, b) /\ b.status = status
  BY <1>2, DecisionWay DEF LInv
<1>4. /\ Honest(db')
      /\ Done(db', "execute_recovery") = Done(db, "execute_recovery")
      /\ Done(db', "notify_customer") = Done(db, "notify_customer")
      /\ db'.closure = db.closure /\ db'.opened = db.opened
      /\ Progress(db') = Progress(db)
  BY <1>3, QuietRow DEF LInv, Quiet
<1>5. tx' = db' /\ UNCHANGED << remedies, notices, crashes >> /\ req.phase = "idle"
  BY DEF Approve, Reject
<1>6. tx = db /\ req.kind = "none" /\ db.opened
  BY <1>2, <1>5 DEF LInv, AtRest, Opening
<1>7. /\ req'.phase \in {"idle", "driving"}
      /\ status = "approved" => req'.kind = "decide" /\ req'.phase = "driving"
      /\ req'.phase = "idle" => req'.kind = "none"
      /\ req'.kind = "none" \/ req'.kind = "decide"
  BY <1>1, <1>5, <1>6 DEF Started
<1>8. Phased(db', "idle") /\ Phased(db', "driving")
  <2>1. \A x \in LiveActions(db') : x = b \/ x \in LiveActions(db)
    BY <1>3 DEF MovedRow, LiveActions
  <2>2. \A x \in LiveActions(db') : x.status \in {"pending_approval", "approved"}
    BY <1>3, <2>1 DEF LInv, Phased, LiveActions, LiveStatuses
  <2> QED  BY <2>2 DEF Phased
<1>9. Acted'
  <2>1. CASE status = "approved"
    BY <1>7, <2>1 DEF Acted
  <2>2. CASE status = "rejected"
    <3>1. req' = req  BY <1>1, <2>2
    <3>2. \A x \in db'.actions : x.status = "approved" => x \in db.actions
      BY <1>3, <2>2 DEF MovedRow
    <3> QED  BY <1>5, <3>1, <3>2 DEF LInv, Acted
  <2> QED  BY <2>1, <2>2
<1>10. Opening' /\ AtRest' /\ Frozen'
  BY <1>4, <1>5, <1>6, <1>7 DEF Opening, AtRest, Frozen
<1>11. Ledgered(db', remedies)
  BY <1>4 DEF LInv, Ledgered
<1>12. LInv'
  BY <1>4, <1>5, <1>7, <1>8, <1>9, <1>10, <1>11 DEF LInv, ToldWhatHappened
<1>13. UNCHANGED Lifecycle!vars
  BY <1>4, <1>5, <1>6 DEF Lifecycle!vars, Progress
<1> QED  BY <1>12, <1>13 DEF Promise

LEMMA CommitStep ==
  ASSUME LInv, IInv', Commit
  PROVE  LInv' /\ Promise
<1>1. /\ db' = tx /\ tx' = tx /\ req' = Idle /\ req.phase = "finished"
      /\ UNCHANGED << remedies, notices, crashes >>
  BY DEF Commit
<1>2. Idle.phase = "idle" /\ Idle.kind = "none"
  BY DEF Idle
<1>3. \A x \in LiveActions(tx) : x.status = "pending_approval"
  BY <1>1 DEF LInv, Phased
<1>4. Phased(tx, "idle")
  BY <1>3 DEF Phased
<1>5. Acted'
  BY <1>1, <1>3 DEF Acted, LiveActions, LiveStatuses
<1>6. Opening' /\ AtRest' /\ Frozen'
  BY <1>1, <1>2 DEF LInv, Opening, AtRest, Frozen
<1>7. LInv'
  BY <1>1, <1>2, <1>4, <1>5, <1>6 DEF LInv, ToldWhatHappened
<1>8. Lifecycle!Save
  BY <1>1 DEF Lifecycle!Save, Progress
<1> QED  BY <1>7, <1>8 DEF Promise, Lifecycle!Next

LEMMA CrashStep ==
  ASSUME LInv, IInv', Crash
  PROVE  LInv' /\ Promise
<1>1. /\ tx' = db /\ db' = db /\ req' = Idle /\ crashes' = crashes + 1
      /\ UNCHANGED << remedies, notices >>
  BY DEF Crash
<1>2. Idle.phase = "idle" /\ Idle.kind = "none"
  BY DEF Idle
<1>3. crashes' > 0
  BY <1>1 DEF LInv, IInv, TypeOK
<1>4. Acted' /\ Opening' /\ AtRest' /\ Frozen'
  BY <1>1, <1>2, <1>3 DEF LInv, Acted, Opening, AtRest, Frozen
<1>5. LInv'
  BY <1>1, <1>2, <1>4 DEF LInv, ToldWhatHappened
<1>6. Lifecycle!Lose
  BY <1>1 DEF Lifecycle!Lose, Progress
<1> QED  BY <1>5, <1>6 DEF Promise, Lifecycle!Next

-----------------------------------------------------------------------------
(* The theorems.                                                           *)

LEMMA LInit ==
  ASSUME Init
  PROVE  LInv /\ Lifecycle!Init
<1>1. /\ db = NewCase /\ tx = NewCase /\ req = Idle /\ remedies = << >> /\ notices = << >>
  BY DEF Init
<1>2. /\ NewCase.actions = {} /\ NewCase.closure = NeverClosed /\ NewCase.stage = IssueReported
      /\ NewCase.status = "open" /\ Idle.phase = "idle" /\ Idle.kind = "none"
  BY DEF NewCase, Idle
<1>3. Honest(NewCase) /\ Phased(NewCase, "idle")
  BY <1>2, NoActionsHonest
<1>4. Ledgered(NewCase, << >>) /\ ToldWhatHappened
  BY <1>1, <1>2 DEF Ledgered, Done, ActionsOfType, ToldWhatHappened
<1>5. Acted /\ Opening /\ AtRest /\ Frozen
  BY <1>1, <1>2 DEF Acted, Opening, AtRest, Frozen
<1>6. LInv
  BY <1>1, <1>2, <1>3, <1>4, <1>5, InitKeeps DEF LInv
<1>7. Done(NewCase, "execute_recovery") = {} /\ Done(NewCase, "notify_customer") = {}
  BY <1>2 DEF Done, ActionsOfType
<1>8. Progress(NewCase) = Lifecycle!Fresh
  BY <1>2, <1>7, Zenon DEF Progress, Lifecycle!Fresh
<1>9. Lifecycle!Init
  BY <1>1, <1>8 DEF Lifecycle!Init
<1> QED  BY <1>6, <1>9

\* A branch that proposes leaves what is done as it is.
LEMMA ProposalStep ==
  ASSUME LInv, IInv', NoEffect, Driving, Controlled,
         KeptRow(tx, tx') \/ \E b : AddedRow(tx, tx', b)
  PROVE  LInv' /\ Promise
<1>1. Quiet(tx, tx')  BY DEF Quiet
<1> QED  BY <1>1, QuietStep DEF Driving

LEMMA LNext ==
  ASSUME LInv, [Next]_vars
  PROVE  LInv' /\ Promise
<1>0. IInv /\ IInv'
  BY NextKeeps DEF LInv
<1>1. CASE ReturnLiveAction
  <2>1. Controlled /\ Quiet(tx, tx')
    BY <1>0, <1>1, ReturnLiveActionWay DEF LInv, Quiet
  <2> QED  BY <1>0, <1>1, <2>1, QuietStep DEF ReturnLiveAction, Driving
<1>2. CASE RequestAnyEvidence
  BY <1>0, <1>2, RequestAnyEvidenceWay, ProposalStep DEF RequestAnyEvidence, Deciding
<1>3. CASE RequestMissingEvidence
  BY <1>0, <1>3, RequestMissingEvidenceWay, ProposalStep DEF RequestMissingEvidence, Deciding
<1>4. CASE RunAnalysis
  BY <1>0, <1>4, RunAnalysisWay, ProposalStep DEF RunAnalysis, Deciding
<1>5. CASE EscalateItsm
  BY <1>0, <1>5, EscalateItsmWay, ProposalStep DEF EscalateItsm, Deciding
<1>6. CASE ProposeRecovery
  BY <1>0, <1>6, ProposeRecoveryWay, ProposalStep DEF ProposeRecovery, Deciding
<1>7. CASE RecoveryOptionsExhausted
  BY <1>0, <1>7, NoneWay, ProposalStep DEF RecoveryOptionsExhausted, Deciding
<1>8. CASE NotifyCustomer
  BY <1>0, <1>8, NotifyCustomerWay, ProposalStep DEF NotifyCustomer, Deciding
<1>9. CASE CloseCase
  BY <1>0, <1>9, CloseCaseWay, CloseStep DEF CloseCase, Deciding, Driving
<1>10. CASE NothingToDo
  BY <1>0, <1>10, NoneWay, ProposalStep DEF NothingToDo, Deciding
<1>11. CASE FinishExecution  BY <1>0, <1>11, FinishExecutionStep
<1>12. CASE Commit  BY <1>0, <1>12, CommitStep
<1>13. CASE OpenCase  BY <1>0, <1>13, OpenCaseStep
<1>14. CASE AdvanceCase  BY <1>0, <1>14, AdvanceCaseStep
<1>15. CASE Approve \/ Reject  BY <1>0, <1>15, DecisionStep
<1>16. CASE Crash  BY <1>0, <1>16, CrashStep
<1>17. CASE UNCHANGED vars
  <2>1. LInv'
    BY <1>0, <1>17 DEF vars, LInv, ToldWhatHappened, Acted, Opening, AtRest, Frozen
  <2>2. UNCHANGED Lifecycle!vars
    BY <1>17 DEF vars, Lifecycle!vars, Progress
  <2> QED  BY <2>1, <2>2 DEF Promise
<1> QED
  BY <1>1, <1>2, <1>3, <1>4, <1>5, <1>6, <1>7, <1>8, <1>9, <1>10, <1>11, <1>12, <1>13, <1>14,
     <1>15, <1>16, <1>17 DEF Next, ServerStep

\* The rows of the case claim nothing that has not happened, and the session keeps to the
\* phase it is in, in every behaviour.
THEOREM HonestRows == Spec => []LInv
<1>1. Init => LInv  BY LInit
<1>2. LInv /\ [Next]_vars => LInv'  BY LNext
<1> QED  BY <1>1, <1>2, PTL DEF Spec

\* The pipeline implements CaseLifecycle: a remedy is carried out only while none is on record,
\* a message is sent only when a remedy is and no message is, a crash loses the record of the
\* request and nothing else, whatever is diagnosed and however the connectors answer.
THEOREM Implements == Spec => FollowsLifecycle
<1>1. Init => Lifecycle!Init  BY LInit
<1>2. LInv /\ [Next]_vars => [Lifecycle!Next]_(Lifecycle!vars)  BY LNext DEF Promise
<1> QED  BY <1>1, <1>2, HonestRows, PTL DEF Spec, FollowsLifecycle, Lifecycle!Spec

\* No message names a remedy that has not been carried out.
THEOREM MessagesAreTrue == Spec => []ToldWhatHappened
<1>1. LInv => ToldWhatHappened  BY DEF LInv
<1> QED  BY <1>1, HonestRows, PTL

\* A closed case has a remedy that succeeded, a message about that one and a summary that
\* names it, and nothing in flight.
THEOREM ClosingIsJustified == Spec => []ClosedIsJustified
<1>1. ASSUME LInv PROVE ClosedIsJustified
  <2>1. ASSUME NEW w, Honest(w), w.status = "closed"
        PROVE  /\ LiveActions(w) = {}
               /\ \E a \in Done(w, "execute_recovery"), n \in Done(w, "notify_customer") :
                    /\ a.hyp = n.hyp /\ a.about = n.about
                    /\ w.closure.about = a.about
    BY <2>1 DEF Honest, ClosedQuiet, ClosureBacked
  <2> QED  BY <1>1, <2>1 DEF LInv, ClosedIsJustified
<1> QED  BY <1>1, HonestRows, PTL

\* The stage that is displayed never claims more than the actions did.
THEOREM StagesAreTrue == Spec => []StageClaimsHappened
<1>1. LInv => StageClaimsHappened
  BY DEF LInv, Honest, StageHonest, Effective, StageClaimsHappened
<1> QED  BY <1>1, HonestRows, PTL

\* No commit leaves a proposed or an executing action behind, nor an approved one unless the
\* request that approved it is at work or a crash has cut it off.
THEOREM CommitsAreSettled == Spec => []SettledWhenCommitted
<1>1. LInv => SettledWhenCommitted
  BY DEF LInv, Phased, Acted, LiveActions, LiveStatuses, SettledWhenCommitted
<1> QED  BY <1>1, HonestRows, PTL

\* The summary of a closed case is never rewritten by a later cycle.
THEOREM SummaryIsFrozen == Spec => ClosureFrozen
<1>1. ASSUME LInv, [Next]_vars, db.closure # NeverClosed
      PROVE  db'.closure = db.closure
  <2>1. CASE UNCHANGED db
    BY <2>1
  <2>2. CASE Commit
    BY <1>1, <2>2 DEF Commit, LInv, Frozen
  <2>3. CASE Approve \/ Reject
    <3>1. PICK a \in db.actions, user \in Users, status \in {"approved", "rejected"} :
            MayDecide(user, a) /\ db' = WithDecision(db, a, status, user)
      BY <2>3 DEF Approve, Reject
    <3>2. PICK b : MovedRow(db, db', a, b)
      BY <1>1, <3>1, DecisionWay DEF LInv
    <3> QED  BY <3>2 DEF MovedRow
  <2> QED
    BY <1>1, <2>1, <2>2, <2>3
       DEF Next, ServerStep, vars, NoEffect, ReturnLiveAction, RequestAnyEvidence,
           RequestMissingEvidence, RunAnalysis, EscalateItsm, ProposeRecovery,
           RecoveryOptionsExhausted, NotifyCustomer, CloseCase, NothingToDo, FinishExecution,
           OpenCase, AdvanceCase, Crash
<1>2. LInv /\ [Next]_vars => [db.closure # NeverClosed => db'.closure = db.closure]_vars
  BY <1>1
<1> QED  BY <1>2, HonestRows, PTL DEF Spec, ClosureFrozen
=============================================================================
