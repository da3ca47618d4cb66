---------------------------- MODULE RoundsProofs ----------------------------
(***************************************************************************)
(* How long a request works, and what it may not touch on the way.         *)
(*                                                                         *)
(* Each round of run_case_cycle hands back an action that has not come     *)
(* back before, so the number of rounds is the number of keys taken        *)
(* (Counted).  A key that was taken is on record as over (OnRecord), the   *)
(* record has one escalation, one successful remedy, one message and one   *)
(* closing (Single), and each key fits the ground the engine decides on    *)
(* (Fitting): evidence is asked for while it is short, the customer is     *)
(* told only when it is not.  What is left to count are the flags.         *)
(***************************************************************************)
EXTENDS AccountingProofs

-----------------------------------------------------------------------------
(* Counting.                                                               *)

LEMMA UnionBound ==
  ASSUME NEW S, NEW T, IsFiniteSet(S), IsFiniteSet(T)
  PROVE  /\ IsFiniteSet(S \cup T)
         /\ Cardinality(S) \in Nat /\ Cardinality(T) \in Nat /\ Cardinality(S \cup T) \in Nat
         /\ Cardinality(S \cup T) <= Cardinality(S) + Cardinality(T)
<1>1. /\ IsFiniteSet(S \cup T) /\ IsFiniteSet(S \cap T)
      /\ Cardinality(S \cup T) = Cardinality(S) + Cardinality(T) - Cardinality(S \cap T)
  BY FS_Union, FS_Intersection
<1>2. /\ Cardinality(S) \in Nat /\ Cardinality(T) \in Nat /\ Cardinality(S \cap T) \in Nat
      /\ Cardinality(S \cup T) \in Nat
  BY <1>1, FS_CardinalityType
<1> QED  BY <1>1, <1>2

LEMMA AtMostOne ==
  ASSUME NEW S, \A x, y \in S : x = y
  PROVE  IsFiniteSet(S) /\ Cardinality(S) <= 1
<1>1. CASE S = {}
  BY <1>1, FS_EmptySet
<1>2. CASE S # {}
  <2>1. PICK x \in S : TRUE  BY <1>2
  <2>2. S = {x}  BY <2>1
  <2>3. IsFiniteSet({x}) /\ Cardinality({x}) = 1  BY FS_Singleton
  <2> QED  BY <2>2, <2>3
<1> QED  BY <1>1, <1>2

\* The keys of the evidence requests for flags are at most as many as the flags.
FlagKeys == {<< "request_evidence", 0, f >> : f \in Flags}

LEMMA FlagKeysBound ==
  ASSUME IsFiniteSet(Flags)
  PROVE  IsFiniteSet(FlagKeys) /\ Cardinality(FlagKeys) <= Cardinality(Flags)
<1> DEFINE key == [f \in Flags |-> << "request_evidence", 0, f >>]
<1>1. key \in Surjection(Flags, FlagKeys)
  BY DEF FlagKeys, Surjection
<1> QED  BY <1>1, FS_Surjection

-----------------------------------------------------------------------------
(* What each way of changing a row preserves.                              *)

\* A step of the pipeline, seen from the row it works on.
Way(v, w) ==
  \/ Quiet(v, w)
  \/ \E b : ClosedRow(v, w, b)
  \/ \E a, b : FinishedRow(v, w, a, b)

\* The actions that are over are still there, unchanged.
Remembers(v, w) == \A a \in v.actions : a.status \notin LiveStatuses => a \in w.actions

\* No action is struck off, whatever becomes of it.
KeepsKeys(v, w) == \A a \in v.actions : \E b \in w.actions : Key(b) = Key(a)

\* Only remedies wait for an approval, and a case is escalated and closed once.
Single(w) ==
  /\ \A a \in w.actions : a.status \in {"pending_approval", "approved"} => a.type = "execute_recovery"
  /\ \A a, b \in ActionsOfType(w, "escalate_itsm") : a = b
  /\ \A a, b \in ActionsOfType(w, "close_case") : a = b

LEMMA WayRemembers ==
  ASSUME NEW v, NEW w, Way(v, w)
  PROVE  Remembers(v, w) /\ KeepsKeys(v, w)
<1>1. CASE w.actions = v.actions \/ \E b : w.actions = v.actions \cup {b}
  BY <1>1 DEF Remembers, KeepsKeys
<1>2. ASSUME NEW a \in v.actions, NEW b, a.status \in LiveStatuses, Key(b) = Key(a),
             w.actions = (v.actions \ {a}) \cup {b}
      PROVE  Remembers(v, w) /\ KeepsKeys(v, w)
  BY <1>2 DEF Remembers, KeepsKeys
<1>3. CASE \E a, b : MovedRow(v, w, a, b) \/ FinishedRow(v, w, a, b)
  <2>1. PICK a, b : MovedRow(v, w, a, b) \/ FinishedRow(v, w, a, b)
    BY <1>3
  <2>2. /\ a \in v.actions /\ a.status \in LiveStatuses /\ Key(b) = Key(a)
        /\ w.actions = (v.actions \ {a}) \cup {b}
    BY <2>1 DEF MovedRow, FinishedRow, Key, LiveStatuses
  <2> QED  BY <1>2, <2>2
<1> QED  BY <1>1, <1>3 DEF Way, Quiet, KeptRow, AddedRow, ClosedRow

LEMMA WaySingle ==
  ASSUME NEW v, NEW w, Single(v), Way(v, w)
  PROVE  Single(w)
<1>1. CASE KeptRow(v, w)
  BY <1>1 DEF KeptRow, Single, ActionsOfType
<1>2. ASSUME NEW b, AddedRow(v, w, b)
      PROVE  Single(w)
  <2>1. b.status # "approved"
    BY <1>2 DEF AddedRow
  <2> QED  BY <1>2, <2>1 DEF AddedRow, Single, ActionsOfType
<1>3. ASSUME NEW a, NEW b, MovedRow(v, w, a, b)
      PROVE  Single(w)
  BY <1>3 DEF MovedRow, Single, ActionsOfType
<1>4. ASSUME NEW b, ClosedRow(v, w, b)
      PROVE  Single(w)
  BY <1>4 DEF ClosedRow, Single, ActionsOfType
<1>5. ASSUME NEW a, NEW b, FinishedRow(v, w, a, b)
      PROVE  Single(w)
  BY <1>5 DEF FinishedRow, Single, ActionsOfType
<1> QED  BY <1>1, <1>2, <1>3, <1>4, <1>5 DEF Way, Quiet

-----------------------------------------------------------------------------
(* The history of the rows.                                                *)

\* What is committed is found again in the session of the request.
History ==
  /\ Single(db) /\ Single(tx)
  /\ Remembers(db, tx) /\ KeepsKeys(db, tx)

\* The steps of the loop and of the executor.
LoopStep ==
  \/ ReturnLiveAction
  \/ RequestAnyEvidence
  \/ RequestMissingEvidence
  \/ RunAnalysis
  \/ EscalateItsm
  \/ ProposeRecovery
  \/ RecoveryOptionsExhausted
  \/ NotifyCustomer
  \/ CloseCase
  \/ NothingToDo
  \/ FinishExecution

LEMMA LoopStepWay ==
  ASSUME LInv, LoopStep
  PROVE  Way(tx, tx') /\ UNCHANGED << db, crashes >>
<1>1. IInv /\ Phased(tx, req.phase)
  BY DEF LInv
<1>2. UNCHANGED << db, crashes >>
  BY DEF LoopStep, ReturnLiveAction, RequestAnyEvidence, RequestMissingEvidence, RunAnalysis,
         EscalateItsm, ProposeRecovery, RecoveryOptionsExhausted, NotifyCustomer, CloseCase,
         NothingToDo, FinishExecution, NoEffect
<1> SUFFICES Way(tx, tx')
  BY <1>2
<1>3. CASE ReturnLiveAction
  <2>1. KeptRow(tx, tx') \/ \E a, b : MovedRow(tx, tx', a, b)
    BY <1>1, <1>3, ReturnLiveActionWay
  <2> QED  BY <2>1 DEF Way, Quiet
<1>4. CASE RequestAnyEvidence
  <2>1. KeptRow(tx, tx') \/ \E b : AddedRow(tx, tx', b)
    BY <1>1, <1>4, RequestAnyEvidenceWay
  <2> QED  BY <2>1 DEF Way, Quiet
<1>5. CASE RequestMissingEvidence
  <2>1. KeptRow(tx, tx') \/ \E b : AddedRow(tx, tx', b)
    BY <1>1, <1>5, RequestMissingEvidenceWay
  <2> QED  BY <2>1 DEF Way, Quiet
<1>6. CASE RunAnalysis
  <2>1. \E b : AddedRow(tx, tx', b)
    BY <1>1, <1>6, RunAnalysisWay
  <2> QED  BY <2>1 DEF Way, Quiet
<1>7. CASE EscalateItsm
  <2>1. KeptRow(tx, tx') \/ \E b : AddedRow(tx, tx', b)
    BY <1>1, <1>7, EscalateItsmWay
  <2> QED  BY <2>1 DEF Way, Quiet
<1>8. CASE ProposeRecovery
  <2>1. KeptRow(tx, tx') \/ \E b : AddedRow(tx, tx', b)
    BY <1>1, <1>8, ProposeRecoveryWay
  <2> QED  BY <2>1 DEF Way, Quiet
<1>9. CASE RecoveryOptionsExhausted
  <2>1. KeptRow(tx, tx')
    BY <1>1, <1>9, NoneWay DEF RecoveryOptionsExhausted
  <2> QED  BY <2>1 DEF Way, Quiet
<1>10. CASE NotifyCustomer
  <2>1. KeptRow(tx, tx') \/ \E b : AddedRow(tx, tx', b)
    BY <1>1, <1>10, NotifyCustomerWay
  <2> QED  BY <2>1 DEF Way, Quiet
<1>11. CASE CloseCase
  <2>1. \E b : ClosedRow(tx, tx', b)
    BY <1>1, <1>11, CloseCaseWay
  <2> QED  BY <2>1 DEF Way, Quiet
<1>12. CASE NothingToDo
  <2>1. KeptRow(tx, tx')
    BY <1>1, <1>12, NoneWay DEF NothingToDo
  <2> QED  BY <2>1 DEF Way, Quiet
<1>13. CASE FinishExecution
  <2>1. \E a, b : FinishedRow(tx, tx', a, b)
    BY <1>1, <1>13, FinishExecutionWay DEF Finished
  <2> QED  BY <2>1 DEF Way, Quiet
<1> QED
  BY <1>2, <1>3, <1>4, <1>5, <1>6, <1>7, <1>8, <1>9, <1>10, <1>11, <1>12, <1>13 DEF LoopStep

\* A cycle starts with the committed actions.
LEMMA BeginWay ==
  ASSUME LInv, OpenCase \/ AdvanceCase
  PROVE  /\ tx'.actions = db.actions /\ UNCHANGED << db, crashes >>
         /\ req' = Started("cycle")
<1>1. PICK v \in CaseRows : BeginCycle(v) /\ v.actions = db.actions
  <2>1. CASE OpenCase
    <3>1. db.actions = {} /\ [NewCase EXCEPT !.opened = TRUE] \in CaseRows
      BY <2>1, NewCaseType DEF OpenCase, LInv, Opening, CaseRows
    <3>2. [NewCase EXCEPT !.opened = TRUE].actions = {}
      BY DEF NewCase
    <3> QED  BY <2>1, <3>1, <3>2 DEF OpenCase
  <2>2. CASE AdvanceCase
    BY <2>2 DEF AdvanceCase, LInv, IInv, TypeOK
  <2> QED  BY <2>1, <2>2
<1>2. tx'.actions = db.actions
  BY <1>1, BeginCycleWay DEF LInv, KeptRow
<1>3. req' = Started("cycle")
  BY <1>1 DEF BeginCycle
<1> QED  BY <1>2, <1>3 DEF OpenCase, AdvanceCase

LEMMA DecisionMoves ==
  ASSUME LInv, Approve \/ Reject
  PROVE  Way(db, db') /\ tx' = db' /\ UNCHANGED crashes
<1>1. PICK a \in db.actions, user \in Users, status \in {"approved", "rejected"} :
        MayDecide(user, a) /\ db' = WithDecision(db, a, status, user)
  BY DEF Approve, Reject
<1>2. \E b : MovedRow(db, db', a, b)
  BY <1>1, DecisionWay DEF LInv
<1> QED  BY <1>2 DEF Approve, Reject, Way, Quiet

HInv == LInv /\ History

LEMMA SameActions ==
  ASSUME NEW v, NEW w, w.actions = v.actions
  PROVE  /\ Single(v) => Single(w)
         /\ Remembers(v, w) /\ KeepsKeys(v, w)
BY DEF Single, Remembers, KeepsKeys, ActionsOfType

LEMMA HNext ==
  ASSUME HInv, [Next]_vars
  PROVE  HInv' /\ Remembers(db, db') /\ KeepsKeys(db, db')
<1>0. LInv' /\ LInv
  BY LNext DEF HInv
<1> SUFFICES History' /\ Remembers(db, db') /\ KeepsKeys(db, db')
  BY <1>0 DEF HInv
<1>1. CASE LoopStep
  <2>1. /\ Single(tx') /\ Remembers(tx, tx') /\ KeepsKeys(tx, tx') /\ db' = db
    BY <1>0, <1>1, LoopStepWay, WayRemembers, WaySingle DEF HInv, History
  <2>2. Remembers(db, tx') /\ KeepsKeys(db, tx')
    BY <2>1 DEF HInv, History, Remembers, KeepsKeys
  <2> QED  BY <2>1, <2>2, SameActions DEF HInv, History
<1>2. CASE OpenCase \/ AdvanceCase
  <2>1. tx'.actions = db.actions /\ db' = db
    BY <1>0, <1>2, BeginWay
  <2> QED  BY <2>1, SameActions DEF HInv, History
<1>3. CASE Approve \/ Reject
  <2>1. Way(db, db') /\ tx' = db'
    BY <1>0, <1>3, DecisionMoves
  <2>2. Single(db') /\ Remembers(db, db') /\ KeepsKeys(db, db')
    BY <2>1, WayRemembers, WaySingle DEF HInv, History
  <2> QED  BY <2>1, <2>2, SameActions DEF History
<1>4. CASE Commit
  <2>1. db' = tx /\ tx' = tx
    BY <1>4 DEF Commit
  <2> QED  BY <2>1, SameActions DEF HInv, History
<1>5. CASE Crash
  <2>1. db' = db /\ tx' = db
    BY <1>5 DEF Crash
  <2> QED  BY <2>1, SameActions DEF HInv, History
<1>6. CASE UNCHANGED vars
  <2>1. db' = db /\ tx' = tx
    BY <1>6 DEF vars
  <2> QED  BY <2>1, SameActions DEF HInv, History
<1> QED
  BY <1>1, <1>2, <1>3, <1>4, <1>5, <1>6 DEF Next, ServerStep, LoopStep

LEMMA HInit ==
  ASSUME Init
  PROVE  HInv
<1>1. db = NewCase /\ tx = NewCase /\ NewCase.actions = {}
  BY DEF Init, NewCase
<1> QED  BY <1>1, LInit DEF HInv, History, Single, Remembers, KeepsKeys, ActionsOfType

\* What has been committed of an action that is over is never changed, and no action is ever
\* struck off: the audit of a case can be read from its rows.
THEOREM HistoryKept == Spec => [][Remembers(db, db') /\ KeepsKeys(db, db')]_vars
<1>1. Init => HInv  BY HInit
<1>2. HInv /\ [Next]_vars => HInv'  BY HNext
<1>3. HInv /\ [Next]_vars => [Remembers(db, db') /\ KeepsKeys(db, db')]_vars
  BY HNext
<1> QED  BY <1>1, <1>2, <1>3, PTL DEF Spec

-----------------------------------------------------------------------------
(* The ground of a decision.                                               *)

\* The columns from which the engine chooses its branch, but for the actions.
SameGround(v, w) ==
  /\ w.hyp.id = v.hyp.id /\ w.hyp.category = v.hyp.category
  /\ w.hyp.confidence = v.hyp.confidence
  /\ w.missing = v.missing /\ w.itsm = v.itsm

LEMMA StageGround ==
  ASSUME NEW w \in CaseRows, NEW stage
  PROVE  SameGround(w, WithStage(w, stage))
BY DEF SameGround, WithStage, CaseRows

\* A branch of the engine sets status and stage, and with them takes up a re-evaluation.
LEMMA BranchGround ==
  ASSUME tx \in CaseRows, NEW status \in CaseStatus, NEW stage \in Stages,
         NEW w, \/ w = [Current EXCEPT !.status = status]
                \/ w = WithStage([Current EXCEPT !.status = status], stage)
  PROVE  w \in CaseRows /\ w.actions = tx.actions /\ SameGround(tx, w)
<1> DEFINE u == [Current EXCEPT !.status = status]
<1>1. u \in CaseRows /\ u.actions = tx.actions
  BY CurrentType
<1>2. SameGround(tx, u)
  BY DEF SameGround, Current, CaseRows
<1>3. w = u \/ w = WithStage(u, stage)
  OBVIOUS
<1> HIDE DEF u
<1>4. /\ WithStage(u, stage) \in CaseRows /\ WithStage(u, stage).actions = tx.actions
      /\ SameGround(u, WithStage(u, stage))
  BY <1>1, StageType, StageGround
<1> QED  BY <1>1, <1>2, <1>3, <1>4 DEF SameGround

\* There is enough to put the case right, and no incident is to be raised first.
Enough == HasHypothesis /\ ~NeedsMoreEvidence /\ ~LooksSystemic

Telling == {"notify_customer", "close_case"}

\* A key as the engine makes it on the ground of tx.
Fits(k) ==
  /\ k[1] = "request_evidence" =>
       /\ k[2] = 0
       /\ HasHypothesis => NeedsMoreEvidence /\ k[3] \in Flags
       /\ ~HasHypothesis => k[3] = "generic"
  /\ k[1] = "run_analysis" => HasHypothesis /\ k[2] = tx.hyp.id /\ k[3] = "none"
  /\ k[1] = "escalate_itsm" => HasHypothesis
  /\ k[1] \in Telling => Enough

\* The key of an action that is over, and has succeeded if it is a remedy.
OnRecord(k) ==
  \E a \in tx.actions :
    /\ Key(a) = k /\ a.status \notin LiveStatuses
    /\ a.type = "execute_recovery" => a.status = "succeeded"

LEMMA EnoughKept ==
  ASSUME SameGround(tx, tx'), KeepsKeys(tx, tx')
  PROVE  /\ HasHypothesis' <=> HasHypothesis
         /\ NeedsMoreEvidence' <=> NeedsMoreEvidence
         /\ LooksSystemic' => LooksSystemic
         /\ Enough => Enough'
<1>1. ActionsOfType(tx', "escalate_itsm") = {} => ActionsOfType(tx, "escalate_itsm") = {}
  BY DEF KeepsKeys, Key, ActionsOfType
<1>2. /\ HasHypothesis' <=> HasHypothesis
      /\ NeedsMoreEvidence' <=> NeedsMoreEvidence
  BY DEF SameGround, HasHypothesis, NeedsMoreEvidence
<1>3. LooksSystemic' => LooksSystemic
  BY <1>1 DEF SameGround, LooksSystemic
<1> QED  BY <1>2, <1>3 DEF Enough

LEMMA FitsKept ==
  ASSUME SameGround(tx, tx'), KeepsKeys(tx, tx'), NEW k, Fits(k)
  PROVE  Fits(k)'
<1>1. /\ HasHypothesis' <=> HasHypothesis
      /\ NeedsMoreEvidence' <=> NeedsMoreEvidence
      /\ Enough => Enough'
  BY EnoughKept
<1>2. tx'.hyp.id = tx.hyp.id
  BY DEF SameGround
<1> QED  BY <1>1, <1>2 DEF Fits

LEMMA OnRecordKept ==
  ASSUME Remembers(tx, tx'), NEW k, OnRecord(k)
  PROVE  OnRecord(k)'
BY DEF Remembers, OnRecord

-----------------------------------------------------------------------------
(* A round of the loop.                                                    *)

Stops ==
  /\ req'.phase = "finished" /\ req'.kind = req.kind
  /\ req'.steps \in {req.steps, req.steps + 1}

\* a comes back and the loop goes on.
HandsBack(a) ==
  /\ req'.phase = "driving" /\ req'.kind = req.kind /\ req'.steps = req.steps + 1
  /\ a.status \notin StallingStatuses
  /\ req.kind = "cycle" => Key(a) \notin req.taken /\ req'.taken = req.taken \cup {Key(a)}

\* b is carried out, and nothing else is live.
Runs(b) ==
  /\ req'.phase = "executing" /\ req'.kind = req.kind /\ req'.steps = req.steps
  /\ req'.taken = req.taken
  /\ \A x \in LiveActions(tx') : x = b

Round ==
  \/ Stops
  \/ \E a \in tx'.actions :
       /\ HandsBack(a) /\ Fits(Key(a)) /\ a.status \notin LiveStatuses
       /\ a.type = "execute_recovery" => a.status = "succeeded"
  \/ \E b :
       /\ Runs(b) /\ Fits(Key(b))
       /\ b.type = "escalate_itsm" => ~Enough

LEMMA LoopOnRound ==
  ASSUME req \in Requests, NEW w, NEW a, LoopOn(w, a)
  PROVE  tx' = w /\ (Stops \/ HandsBack(a))
<1>1. /\ tx' = w /\ req'.kind = req.kind /\ req'.steps = req.steps + 1
      /\ req'.phase = IF Stalls(a) THEN "finished" ELSE "driving"
      /\ req.kind = "cycle" => req'.taken = req.taken \cup {Key(a)}
  BY DEF LoopOn, Requests
<1>2. CASE Stalls(a)
  BY <1>1, <1>2 DEF Stops
<1>3. CASE ~Stalls(a)
  BY <1>1, <1>3 DEF HandsBack, Stalls
<1> QED  BY <1>1, <1>2, <1>3

LEMMA ProposeRound ==
  ASSUME req \in Requests, tx \in CaseRows, LiveActions(tx) = {},
         NEW w \in CaseRows, w.actions = tx.actions, SameGround(tx, w),
         NEW a \in Actions, a.status \in {"proposed", "pending_approval"}, Fits(Key(a)),
         a.type = "escalate_itsm" => ~Enough,
         a.type = "execute_recovery" =>
           \A old \in tx.actions : Key(old) = Key(a) => old.status \in StallingStatuses,
         Propose(w, a)
  PROVE  SameGround(tx, tx') /\ Round
<1>1. CASE \E old \in w.actions : Key(old) = Key(a) /\ Advance(w, old)
  <2>1. PICK old \in w.actions : Key(old) = Key(a) /\ Advance(w, old)
    BY <1>1
  <2>2. old \in tx.actions /\ old.status \notin LiveStatuses
    BY <2>1 DEF LiveActions
  <2>3. LoopOn(w, old)
    BY <2>1, <2>2 DEF Advance, LiveStatuses
  <2>4. tx' = w /\ (Stops \/ HandsBack(old))
    BY <2>3, LoopOnRound
  <2>5. old.type = a.type
    BY <2>1 DEF Key
  <2>6. HandsBack(old) => old.type # "execute_recovery"
    BY <2>1, <2>2, <2>5 DEF HandsBack
  <2> QED  BY <2>1, <2>2, <2>4, <2>6 DEF Round
<1>2. CASE Advance([w EXCEPT !.actions = @ \cup {a}], a)
  <2> DEFINE u == [w EXCEPT !.actions = @ \cup {a}]
  <2>1. u \in CaseRows /\ u.actions = tx.actions \cup {a} /\ SameGround(tx, u)
    BY DEF CaseRows, SameGround
  <2>2. Advance(u, a)  BY <1>2
  <2> HIDE DEF u
  <2>3. CASE a.status = "pending_approval"
    <3>1. LoopOn(u, a)
      BY <2>2, <2>3 DEF Advance
    <3>2. tx' = u /\ (Stops \/ HandsBack(a))
      BY <3>1, LoopOnRound
    <3> QED  BY <2>1, <2>3, <3>2 DEF Round, HandsBack, StallingStatuses
  <2>4. CASE a.status = "proposed"
    <3> DEFINE b == [a EXCEPT !.status = "executing"]
    <3>1. tx' = WithStatus(u, a, "executing") /\ req' = [req EXCEPT !.phase = "executing"]
      BY <2>2, <2>4 DEF Advance
    <3>2. Key(b) = Key(a) /\ b.type = a.type
      BY DEF Key, Actions
    <3>3. tx' = [u EXCEPT !.actions = (@ \ {a}) \cup {b}]
      BY <3>1 DEF WithStatus
    <3> HIDE DEF b
    <3>4. SameGround(u, tx') /\ tx'.actions = (u.actions \ {a}) \cup {b}
      BY <2>1, <3>3 DEF CaseRows, SameGround
    <3>5. \A x \in LiveActions(tx') : x = b
      BY <2>1, <3>4 DEF LiveActions
    <3>6. Runs(b)
      BY <3>1, <3>5 DEF Runs, Requests
    <3>7. SameGround(tx, tx')
      BY <2>1, <3>4 DEF SameGround
    <3> QED  BY <3>2, <3>6, <3>7 DEF Round
  <2> QED  BY <2>3, <2>4
<1> QED  BY <1>1, <1>2 DEF Propose

\* The key of what a branch proposes.
LEMMA NewKey ==
  ASSUME NEW type, NEW hyp, NEW about, NEW status
  PROVE  /\ Key(NewAction(type, hyp, about, status)) = << type, hyp, about >>
         /\ NewAction(type, hyp, about, status).type = type
         /\ NewAction(type, hyp, about, status).status = status
BY DEF NewAction, Key

LEMMA EvidenceRound ==
  ASSUME IInv, RequestAnyEvidence \/ RequestMissingEvidence
  PROVE  SameGround(tx, tx') /\ Round
<1>1. req \in Requests /\ tx \in CaseRows /\ LiveActions(tx) = {}
  BY DrivingFacts DEF RequestAnyEvidence, RequestMissingEvidence, Deciding
<1>2. PICK about, w :
        /\ about \in Abouts
        /\ \/ w = [Current EXCEPT !.status = "pending_evidence"]
           \/ w = WithStage([Current EXCEPT !.status = "pending_evidence"], EvidenceChecked)
        /\ HasHypothesis => NeedsMoreEvidence /\ about \in Flags
        /\ ~HasHypothesis => about = "generic"
        /\ Propose(w, NewAction("request_evidence", 0, about, "proposed"))
  <2>1. CASE RequestAnyEvidence
    BY <2>1, AboutsMembers DEF RequestAnyEvidence
  <2>2. CASE RequestMissingEvidence
    <3>1. tx.missing \subseteq Flags /\ Flags \subseteq Abouts
      BY <1>1 DEF CaseRows, Abouts
    <3> QED  BY <2>2, <3>1 DEF RequestMissingEvidence
  <2> QED  BY <2>1, <2>2
<1> DEFINE a == NewAction("request_evidence", 0, about, "proposed")
<1>3. w \in CaseRows /\ w.actions = tx.actions /\ SameGround(tx, w)
  BY <1>1, <1>2, BranchGround, StageConstants DEF CaseStatus
<1>4. a \in Actions /\ a.type = "request_evidence" /\ a.status = "proposed"
  BY <1>2, NewActionType DEF ActionType, ActionStatus
<1>5. Key(a) = << "request_evidence", 0, about >>
  BY NewKey
<1> HIDE DEF a
<1>6. Fits(Key(a))
  BY <1>2, <1>5 DEF Fits, Telling
<1>7. Propose(w, a)
  BY <1>2 DEF a
<1> QED  BY <1>1, <1>3, <1>4, <1>6, <1>7, ProposeRound

LEMMA EscalateRound ==
  ASSUME IInv, EscalateItsm
  PROVE  SameGround(tx, tx') /\ Round
<1> DEFINE w == [Current EXCEPT !.status = "investigating"]
           a == NewAction("escalate_itsm", tx.hyp.id, "none", "proposed")
<1>1. /\ req \in Requests /\ tx \in CaseRows /\ LiveActions(tx) = {} /\ Propose(w, a)
      /\ HasHypothesis /\ ~Enough
  BY DrivingFacts DEF EscalateItsm, Deciding, Assessed, Enough
<1>2. w \in CaseRows /\ w.actions = tx.actions /\ SameGround(tx, w)
  BY <1>1, BranchGround, StageConstants DEF CaseStatus
<1>3. tx.hyp.id \in Nat /\ "none" \in Abouts
  BY <1>1, AboutsMembers DEF CaseRows, Hypotheses
<1>4. "escalate_itsm" \in ActionType /\ "proposed" \in ActionStatus
  BY DEF ActionType, ActionStatus
<1>5. a \in Actions /\ a.type = "escalate_itsm" /\ a.status = "proposed"
  BY <1>3, <1>4, NewActionType
<1>6. Key(a) = << "escalate_itsm", tx.hyp.id, "none" >>
  BY NewKey
<1> HIDE DEF a, w
<1>7. Fits(Key(a))
  BY <1>1, <1>6 DEF Fits, Telling
<1> QED  BY <1>1, <1>2, <1>5, <1>7, ProposeRound

LEMMA NotifyRound ==
  ASSUME IInv, NotifyCustomer
  PROVE  SameGround(tx, tx') /\ Round
<1>1. PICK done \in Done(tx, "execute_recovery") :
        Propose([Current EXCEPT !.status = "pending_customer_update"],
                NewAction("notify_customer", done.hyp, done.about, "proposed"))
  BY DEF NotifyCustomer
<1> DEFINE w == [Current EXCEPT !.status = "pending_customer_update"]
           a == NewAction("notify_customer", done.hyp, done.about, "proposed")
<1>2. /\ req \in Requests /\ tx \in CaseRows /\ LiveActions(tx) = {} /\ Propose(w, a)
      /\ Enough
  BY <1>1, DrivingFacts DEF NotifyCustomer, Deciding, Recovered, Assessed, Enough
<1>3. w \in CaseRows /\ w.actions = tx.actions /\ SameGround(tx, w)
  BY <1>2, BranchGround, StageConstants DEF CaseStatus
<1>4. done.hyp \in Nat /\ done.about \in Abouts
  BY <1>2 DEF CaseRows, Actions, Done, ActionsOfType
<1>5. "notify_customer" \in ActionType /\ "proposed" \in ActionStatus
  BY DEF ActionType, ActionStatus
<1>6. a \in Actions /\ a.type = "notify_customer" /\ a.status = "proposed"
  BY <1>4, <1>5, NewActionType
<1>7. Key(a) = << "notify_customer", done.hyp, done.about >>
  BY NewKey
<1> HIDE DEF a, w
<1>8. Fits(Key(a))
  BY <1>2, <1>7 DEF Fits, Telling
<1> QED  BY <1>2, <1>3, <1>6, <1>8, ProposeRound

\* A remedy that is on record already and may be put forward again is one in review: it is
\* handed back and ends the loop.
LEMMA RecoveryRound ==
  ASSUME IInv, ProposeRecovery
  PROVE  SameGround(tx, tx') /\ Round
<1>1. PICK i \in DOMAIN Options :
        /\ IsChosen(Options, RejectedCodes(tx), i)
        /\ Propose(WithStage([Current EXCEPT !.status = RecoveryStatus(Options[i])],
                             RecoveryOptionsRanked),
                   RecoveryAction(Options[i]))
  BY DEF ProposeRecovery
<1> DEFINE o == Options[i]
           w == WithStage([Current EXCEPT !.status = RecoveryStatus(o)], RecoveryOptionsRanked)
           a == RecoveryAction(o)
<1>2. /\ req \in Requests /\ tx \in CaseRows /\ LiveActions(tx) = {} /\ NeedsRecovery
      /\ Propose(w, a)
  BY <1>1, DrivingFacts DEF ProposeRecovery, Deciding
<1>3. o \in GoodOptions /\ o.code \notin RejectedCodes(tx)
  BY <1>1, <1>2, ChosenIsGood
<1> HIDE DEF o
<1>4. RecoveryStatus(o) \in CaseStatus
  BY DEF RecoveryStatus, CaseStatus
<1>5. w \in CaseRows /\ w.actions = tx.actions /\ SameGround(tx, w)
  BY <1>2, <1>4, BranchGround, StageConstants
<1>6. /\ a \in Actions /\ a.type = "execute_recovery"
      /\ a.status \in {"proposed", "pending_approval"}
  BY <1>2, <1>3, RecoveryActionGood
<1>7. Key(a) = << "execute_recovery", tx.hyp.id, o.code >>
  BY DEF RecoveryAction, Key
<1> HIDE DEF w, a
<1>8. Fits(Key(a))
  BY <1>7 DEF Fits, Telling
<1>9. ASSUME NEW old \in tx.actions, Key(old) = Key(a)
      PROVE  old.status \in StallingStatuses
  <2>1. old \in Actions /\ old.type = "execute_recovery" /\ old.about = o.code
    BY <1>2, <1>7, <1>9 DEF Key, CaseRows
  <2>2. old.status \notin LiveStatuses
    BY <1>2 DEF LiveActions
  <2>3. old.status \notin {"rejected", "failed"}
    BY <1>3, <2>1 DEF RejectedCodes, ActionsOfType
  <2>4. old.status # "succeeded"
    BY <1>2, <2>1 DEF NeedsRecovery, Done, ActionsOfType
  <2>5. old.status \in ActionStatus
    BY <2>1 DEF Actions
  <2> QED
    BY <2>2, <2>3, <2>4, <2>5 DEF ActionStatus, LiveStatuses, StallingStatuses
<1> QED  BY <1>2, <1>5, <1>6, <1>8, <1>9, ProposeRound

LEMMA AnalysisRound ==
  ASSUME IInv, RunAnalysis
  PROVE  SameGround(tx, tx') /\ Round
<1> DEFINE a == NewAction("run_analysis", tx.hyp.id, "none", "succeeded")
<1>1. PICK exposure \in Exposures :
        LoopOn(WithStage([Current EXCEPT !.status = "investigating",
                                         !.hyp.exposure = exposure,
                                         !.actions = @ \cup {a}], ImpactAssessed), a)
  BY DEF RunAnalysis
<1> DEFINE u == [Current EXCEPT !.status = "investigating",
                                !.hyp.exposure = exposure,
                                !.actions = @ \cup {a}]
           w == WithStage(u, ImpactAssessed)
<1>2. req \in Requests /\ tx \in CaseRows /\ HasHypothesis /\ LoopOn(w, a)
  BY <1>1, DrivingFacts DEF RunAnalysis, Deciding
<1>3. tx.hyp.id \in Nat /\ "none" \in Abouts
  BY <1>2, AboutsMembers DEF CaseRows, Hypotheses
<1>4. "run_analysis" \in ActionType /\ "succeeded" \in ActionStatus
  BY DEF ActionType, ActionStatus
<1>5. a \in Actions /\ a.type = "run_analysis" /\ a.status = "succeeded"
  BY <1>3, <1>4, NewActionType
<1>6. Key(a) = << "run_analysis", tx.hyp.id, "none" >>
  BY NewKey
<1> HIDE DEF a
<1>7. u \in CaseRows /\ a \in u.actions /\ SameGround(tx, u)
  <2>1. [tx.hyp EXCEPT !.exposure = exposure] \in Hypotheses
    BY <1>2, ExposuresAssumption DEF CaseRows, Hypotheses
  <2>2. u.hyp = [tx.hyp EXCEPT !.exposure = exposure]
    BY <1>2 DEF Current, CaseRows
  <2>3. /\ u.hyp.id = tx.hyp.id /\ u.hyp.category = tx.hyp.category
        /\ u.hyp.confidence = tx.hyp.confidence
    BY <1>2, <2>2 DEF CaseRows, Hypotheses
  <2>4. u \in CaseRows /\ a \in u.actions /\ u.missing = tx.missing /\ u.itsm = tx.itsm
    BY <1>2, <1>5, <2>1 DEF Current, CaseRows, CaseStatus
  <2> QED  BY <2>3, <2>4 DEF SameGround
<1> HIDE DEF u
<1>8. a \in w.actions /\ SameGround(tx, w)
  BY <1>7, StageType, StageGround, StageConstants DEF SameGround
<1> HIDE DEF w
<1>9. tx' = w /\ (Stops \/ HandsBack(a))
  BY <1>2, LoopOnRound
<1>10. Fits(Key(a))
  BY <1>2, <1>6 DEF Fits, Telling
<1>11. a.status \notin LiveStatuses /\ a.type # "execute_recovery"
  BY <1>5 DEF LiveStatuses
<1> QED  BY <1>8, <1>9, <1>10, <1>11 DEF Round

LEMMA CloseRound ==
  ASSUME IInv, CloseCase
  PROVE  SameGround(tx, tx') /\ Round
<1> DEFINE a == NewAction("close_case", tx.hyp.id, "none", "succeeded")
<1>1. PICK done \in Done(tx, "execute_recovery") :
        LoopOn(WithStage([Current EXCEPT !.status = "closed",
                                         !.closure = [hyp |-> tx.hyp.id, about |-> done.about],
                                         !.actions = @ \cup {a}], OutcomeRetained), a)
  BY DEF CloseCase
<1> DEFINE c == [hyp |-> tx.hyp.id, about |-> done.about]
           u == [Current EXCEPT !.status = "closed",
                                !.closure = c,
                                !.actions = @ \cup {a}]
           w == WithStage(u, OutcomeRetained)
<1>2. req \in Requests /\ tx \in CaseRows /\ Enough /\ LoopOn(w, a)
  BY <1>1, DrivingFacts DEF CloseCase, Deciding, Recovered, Assessed, Enough
<1>3. tx.hyp.id \in Nat /\ "none" \in Abouts /\ done.about \in Abouts
  BY <1>2, AboutsMembers DEF CaseRows, Hypotheses, Actions, Done, ActionsOfType
<1>4. "close_case" \in ActionType /\ "succeeded" \in ActionStatus
  BY DEF ActionType, ActionStatus
<1>5. a \in Actions /\ a.type = "close_case" /\ a.status = "succeeded"
  BY <1>3, <1>4, NewActionType
<1>6. Key(a) = << "close_case", tx.hyp.id, "none" >>
  BY NewKey
<1> HIDE DEF a
<1>7. c \in Closures
  BY <1>2, <1>3 DEF Closures
<1> HIDE DEF c
<1>8. u \in CaseRows /\ a \in u.actions /\ SameGround(tx, u)
  BY <1>2, <1>5, <1>7 DEF Current, CaseRows, CaseStatus, SameGround
<1> HIDE DEF u
<1>9. a \in w.actions /\ SameGround(tx, w)
  BY <1>8, StageType, StageGround, StageConstants DEF SameGround
<1>10. LoopOn(w, a)
  BY <1>2
<1> HIDE DEF w
<1>11. tx' = w /\ (Stops \/ HandsBack(a))
  BY <1>2, <1>10, LoopOnRound
<1>12. Fits(Key(a))
  BY <1>2, <1>6 DEF Fits, Telling
<1>13. a.status \notin LiveStatuses /\ a.type # "execute_recovery"
  BY <1>5 DEF LiveStatuses
<1> QED  BY <1>9, <1>11, <1>12, <1>13 DEF Round

LEMMA NoneRound ==
  ASSUME IInv, RecoveryOptionsExhausted \/ NothingToDo
  PROVE  SameGround(tx, tx') /\ Round
<1>1. req \in Requests /\ tx \in CaseRows /\ LoopEnds(Current)
  BY DrivingFacts DEF RecoveryOptionsExhausted, NothingToDo, Deciding
<1>2. SameGround(tx, Current)
  BY <1>1 DEF Current, CaseRows, SameGround
<1>3. tx' = Current /\ Stops
  BY <1>1 DEF LoopEnds, Stops, Requests
<1> QED  BY <1>2, <1>3 DEF Round

\* What is live when a cycle begins is a remedy that waits for an approval, or has it.
LEMMA ReturnRound ==
  ASSUME IInv, Phased(tx, req.phase), Single(tx), ReturnLiveAction
  PROVE  SameGround(tx, tx') /\ Round
<1>1. PICK a \in LiveActions(tx) : Advance(tx, a)
  BY DEF ReturnLiveAction
<1>2. /\ req \in Requests /\ tx \in CaseRows /\ req.phase = "driving"
      /\ \A x \in LiveActions(tx) : x = a
  BY <1>1 DEF IInv, TypeOK, Sound, OneLive, ReturnLiveAction, Driving
<1>3. a \in tx.actions /\ a \in Actions /\ a.status \in {"pending_approval", "approved"}
  BY <1>2 DEF LiveActions, CaseRows, Phased
<1>4. a.type = "execute_recovery"
  BY <1>3 DEF Single
<1>5. CASE a.status = "pending_approval"
  <2>1. LoopOn(tx, a)
    BY <1>1, <1>5 DEF Advance
  <2>2. tx' = tx /\ (Stops \/ HandsBack(a))
    BY <1>2, <2>1, LoopOnRound
  <2> QED  BY <1>5, <2>2 DEF Round, HandsBack, StallingStatuses, SameGround
<1>6. CASE a.status = "approved"
  <2> DEFINE b == [a EXCEPT !.status = "executing"]
  <2>1. tx' = WithStatus(tx, a, "executing") /\ req' = [req EXCEPT !.phase = "executing"]
    BY <1>1, <1>6 DEF Advance
  <2>2. Key(b)[1] = "execute_recovery" /\ b.type = "execute_recovery"
    BY <1>3, <1>4 DEF Key, Actions
  <2>3. tx' = [tx EXCEPT !.actions = (@ \ {a}) \cup {b}]
    BY <2>1 DEF WithStatus
  <2> HIDE DEF b
  <2>4. SameGround(tx, tx') /\ tx'.actions = (tx.actions \ {a}) \cup {b}
    BY <1>2, <2>3 DEF CaseRows, SameGround
  <2>5. \A x \in LiveActions(tx') : x = b
    BY <1>2, <2>4 DEF LiveActions
  <2>6. Runs(b)
    BY <1>2, <2>1, <2>5 DEF Runs, Requests
  <2>7. Fits(Key(b))
    BY <2>2 DEF Fits, Telling
  <2> QED  BY <2>2, <2>4, <2>6, <2>7 DEF Round
<1> QED  BY <1>3, <1>5, <1>6

-----------------------------------------------------------------------------
(* The rounds of a cycle.                                                  *)

InCycle == req.kind = "cycle" /\ req.phase \in {"driving", "executing"}

Counted == IsFiniteSet(req.taken) /\ req.steps = Cardinality(req.taken)

\* What is being carried out fits the ground, and an incident is raised before anybody is told.
RunningFits ==
  \A e \in LiveActions(tx) :
    /\ Fits(Key(e))
    /\ e.type = "escalate_itsm" => \A k \in req.taken : k[1] \notin Telling

CycleInv ==
  InCycle =>
    /\ Counted
    /\ \A k \in req.taken : OnRecord(k) /\ Fits(k)
    /\ req.phase = "executing" => RunningFits

LEMMA CountedGrows ==
  ASSUME Counted, req.kind = "cycle", NEW a, HandsBack(a)
  PROVE  Counted'
<1>1. IsFiniteSet(req'.taken) /\ Cardinality(req'.taken) = Cardinality(req.taken) + 1
  BY FS_AddElement DEF Counted, HandsBack
<1> QED  BY <1>1 DEF Counted, HandsBack

LEMMA DrivingCycle ==
  ASSUME CycleInv, Driving, Remembers(tx, tx'), KeepsKeys(tx, tx'), SameGround(tx, tx'), Round
  PROVE  CycleInv'
<1> SUFFICES ASSUME InCycle'
             PROVE  /\ Counted'
                    /\ \A k \in req'.taken : OnRecord(k)' /\ Fits(k)'
                    /\ req'.phase = "executing" => RunningFits'
  BY DEF CycleInv
<1>1. /\ req.kind = "cycle" /\ Counted /\ \A k \in req.taken : OnRecord(k) /\ Fits(k)
      /\ ~Stops
  BY DEF InCycle, CycleInv, Driving, Round, Stops, HandsBack, Runs
<1>2. \A k \in req.taken : OnRecord(k)' /\ Fits(k)'
  BY <1>1, OnRecordKept, FitsKept
<1>3. ASSUME NEW a \in tx'.actions, HandsBack(a), Fits(Key(a)), a.status \notin LiveStatuses,
             a.type = "execute_recovery" => a.status = "succeeded"
      PROVE  /\ Counted' /\ \A k \in req'.taken : OnRecord(k)' /\ Fits(k)'
             /\ req'.phase = "driving"
  <2>1. OnRecord(Key(a))' /\ Fits(Key(a))'
    <3>1. ASSUME NEW k, k = Key(a)
          PROVE  OnRecord(k)' /\ Fits(k)'
      BY <1>3, <3>1, FitsKept DEF OnRecord
    <3> QED  BY <3>1
  <2>2. Counted' /\ req'.taken = req.taken \cup {Key(a)} /\ req'.phase = "driving"
    BY <1>1, <1>3, CountedGrows DEF HandsBack
  <2> QED  BY <1>2, <2>1, <2>2
<1>4. ASSUME NEW b, Runs(b), Fits(Key(b)), b.type = "escalate_itsm" => ~Enough
      PROVE  Counted' /\ req'.taken = req.taken /\ RunningFits'
  <2>1. Counted' /\ req'.taken = req.taken
    BY <1>1, <1>4 DEF Runs, Counted
  <2>2. ASSUME NEW k, k = Key(b)
        PROVE  Fits(k)'
    BY <1>4, <2>2, FitsKept
  <2>3. Fits(Key(b))'
    BY <2>2
  <2>4. b.type = "escalate_itsm" => \A k \in req.taken : k[1] \notin Telling
    BY <1>1, <1>4 DEF Fits
  <2> QED  BY <1>4, <2>1, <2>3, <2>4 DEF RunningFits, Runs
<1>5. CASE \E a \in tx'.actions :
             /\ HandsBack(a) /\ Fits(Key(a)) /\ a.status \notin LiveStatuses
             /\ a.type = "execute_recovery" => a.status = "succeeded"
  <2>1. PICK a \in tx'.actions :
             /\ HandsBack(a) /\ Fits(Key(a)) /\ a.status \notin LiveStatuses
             /\ a.type = "execute_recovery" => a.status = "succeeded"
    BY <1>5
  <2> QED  BY <1>3, <2>1
<1>6. CASE \E b : Runs(b) /\ Fits(Key(b)) /\ (b.type = "escalate_itsm" => ~Enough)
  <2>1. PICK b : Runs(b) /\ Fits(Key(b)) /\ (b.type = "escalate_itsm" => ~Enough)
    BY <1>6
  <2> QED  BY <1>2, <1>4, <2>1
<1> QED  BY <1>1, <1>5, <1>6 DEF Round

\* Only an incident changes the ground: flags may be raised with it.
LEMMA WithStatusGround ==
  ASSUME NEW w \in CaseRows, NEW a, NEW status
  PROVE  SameGround(w, WithStatus(w, a, status))
BY DEF SameGround, WithStatus, CaseRows

LEMMA StageAfterGround ==
  ASSUME NEW w \in CaseRows, NEW a
  PROVE  SameGround(w, StageAfter(w, a))
<1>1. \A stage : SameGround(w, WithStage(w, stage))
  BY StageGround
<1>2. SameGround(w, w)
  BY DEF SameGround
<1>3. \/ \E stage : StageAfter(w, a) = WithStage(w, stage)
      \/ StageAfter(w, a) = w
  BY DEF StageAfter
<1> QED  BY <1>1, <1>2, <1>3

LEMMA IncidentGround ==
  ASSUME NEW w \in CaseRows, NEW raised \in SUBSET Flags
  PROVE  /\ WithIncident(w, raised).hyp = w.hyp
         /\ w.missing \subseteq WithIncident(w, raised).missing
<1> DEFINE u == [w EXCEPT !.evidence = TRUE, !.itsm = TRUE]
           v == [u EXCEPT !.missing = @ \cup raised]
<1>1. u.evidence /\ u \in CaseRows
  BY DEF CaseRows
<1>2. v \in CaseRows /\ v.hyp = w.hyp /\ w.missing \subseteq v.missing
  BY DEF CaseRows
<1>3. WithIncident(w, raised) = WithStage(v, JourneyAssembled)
  BY <1>1 DEF WithIncident, Reconciled
<1> HIDE DEF v
<1>4. WithStage(v, JourneyAssembled).hyp = v.hyp
      /\ WithStage(v, JourneyAssembled).missing = v.missing
  BY <1>2 DEF WithStage, CaseRows
<1> QED  BY <1>2, <1>3, <1>4

LEMMA ExecutedGround ==
  ASSUME NEW w \in CaseRows, NEW a \in w.actions, NEW outcome, NEW raised \in SUBSET Flags
  PROVE  /\ a.type # "escalate_itsm" => SameGround(w, Executed(w, a, outcome, raised))
         /\ Executed(w, a, outcome, raised).hyp.id = w.hyp.id
         /\ Executed(w, a, outcome, raised).hyp.confidence = w.hyp.confidence
         /\ w.missing \subseteq Executed(w, a, outcome, raised).missing
<1> DEFINE seen == IF a.type = "escalate_itsm" THEN WithIncident(w, raised) ELSE w
           final == StatusAfter(outcome)
           moved == WithStatus(seen, a, final)
           w2 == StageAfter(moved, a)
<1>1. /\ seen \in CaseRows /\ seen.actions = w.actions
      /\ a.type # "escalate_itsm" => SameGround(w, seen)
      /\ seen.hyp = w.hyp /\ w.missing \subseteq seen.missing
  BY WithIncidentType, IncidentGround DEF SameGround
<1>2. final \in ActionStatus
  BY StatusAfterType DEF ActionStatus
<1>3. Executed(w, a, outcome, raised) =
        IF outcome \in {"success", "review"} THEN w2 ELSE WithStatus(w, a, final)
  BY DEF Executed
<1> HIDE DEF seen, final
<1>4. moved \in CaseRows /\ SameGround(seen, moved)
  BY <1>1, <1>2, StatusType, WithStatusGround
<1> HIDE DEF moved
<1>5. SameGround(moved, w2)
  BY <1>4, StageAfterGround
<1> HIDE DEF w2
<1>6. SameGround(w, WithStatus(w, a, final))
  BY WithStatusGround
<1> QED  BY <1>1, <1>3, <1>4, <1>5, <1>6 DEF SameGround

LEMMA FinishCycle ==
  ASSUME LInv, CycleInv, FinishExecution, Remembers(tx, tx'), KeepsKeys(tx, tx')
  PROVE  CycleInv'
<1>1. PICK a \in tx.actions, outcome \in Outcomes, raised \in SUBSET Flags :
        /\ a.status = "executing"
        /\ LoopOn(Executed(tx, a, outcome, raised), [a EXCEPT !.status = StatusAfter(outcome)])
  BY DEF FinishExecution
<1> DEFINE b == [a EXCEPT !.status = StatusAfter(outcome)]
           w == Executed(tx, a, outcome, raised)
<1>2. req \in Requests /\ tx \in CaseRows /\ req.phase = "executing"
  BY DEF LInv, IInv, TypeOK, FinishExecution
<1>3. w.actions = (tx.actions \ {a}) \cup {b}
  BY <1>2, ExecutedType
<1>4. a \in Actions  BY <1>2 DEF CaseRows
<1>5. Key(b) = Key(a) /\ b.type = a.type /\ b.status = StatusAfter(outcome)
  BY <1>4 DEF Key, Actions
<1>6. tx' = w /\ (Stops \/ HandsBack(b))
  BY <1>1, <1>2, LoopOnRound
<1>7. /\ a.type # "escalate_itsm" => SameGround(tx, w)
      /\ w.hyp.id = tx.hyp.id /\ w.hyp.confidence = tx.hyp.confidence
      /\ tx.missing \subseteq w.missing
  BY <1>2, ExecutedGround
<1> HIDE DEF b, w
<1> SUFFICES ASSUME InCycle'
             PROVE  /\ Counted'
                    /\ \A k \in req'.taken : OnRecord(k)' /\ Fits(k)'
                    /\ req'.phase = "executing" => RunningFits'
  BY DEF CycleInv
<1>8. HandsBack(b) /\ req.kind = "cycle" /\ InCycle /\ a \in LiveActions(tx)
  BY <1>1, <1>2, <1>6 DEF InCycle, Stops, HandsBack, LiveActions, LiveStatuses
<1>9. /\ Counted /\ \A k \in req.taken : OnRecord(k) /\ Fits(k)
      /\ Fits(Key(a))
      /\ a.type = "escalate_itsm" => \A k \in req.taken : k[1] \notin Telling
  BY <1>2, <1>8 DEF CycleInv, RunningFits
<1>10. b.status = "succeeded"
  BY <1>5, <1>8, StatusAfterType DEF HandsBack, StallingStatuses
<1>11. Counted' /\ req'.taken = req.taken \cup {Key(a)} /\ req'.phase = "driving"
  BY <1>5, <1>8, <1>9, CountedGrows DEF HandsBack
<1>12. OnRecord(Key(a))'
  <2>1. b \in tx'.actions /\ b.status \notin LiveStatuses
    BY <1>3, <1>6, <1>10 DEF LiveStatuses
  <2> QED  BY <1>5, <1>10, <2>1 DEF OnRecord
<1>13. ASSUME NEW k, Fits(k), a.type = "escalate_itsm" => k[1] \notin Telling
       PROVE  Fits(k)'
  <2>1. CASE a.type # "escalate_itsm"
    BY <1>6, <1>7, <1>13, <2>1, FitsKept
  <2>2. CASE a.type = "escalate_itsm"
    <3>1. /\ HasHypothesis' <=> HasHypothesis
          /\ NeedsMoreEvidence => NeedsMoreEvidence'
          /\ tx'.hyp.id = tx.hyp.id
      BY <1>6, <1>7 DEF HasHypothesis, NeedsMoreEvidence
    <3> QED  BY <1>13, <2>2, <3>1 DEF Fits
  <2> QED  BY <2>1, <2>2
<1>14. ASSUME NEW k \in req'.taken
       PROVE  OnRecord(k)' /\ Fits(k)'
  <2>1. CASE k \in req.taken
    BY <1>9, <1>13, <2>1, OnRecordKept
  <2>2. CASE k = Key(a)
    <3>1. a.type = "escalate_itsm" => k[1] \notin Telling
      BY <2>2 DEF Key, Telling
    <3> QED  BY <1>9, <1>12, <1>13, <2>2, <3>1
  <2> QED  BY <1>11, <2>1, <2>2
<1> QED  BY <1>11, <1>14

-----------------------------------------------------------------------------
(* How many keys there can be.                                             *)

Of(type) == {k \in req.taken : k[1] = type}

\* One key of each type but for the flags.
LEMMA OneOfEach ==
  ASSUME LInv, Single(tx), req.taken \subseteq ActionType \X Nat \X Abouts,
         \A k \in req.taken : OnRecord(k) /\ Fits(k),
         NEW type \in ActionType \ {"request_evidence"}
  PROVE  IsFiniteSet(Of(type)) /\ Cardinality(Of(type)) <= 1
<1> SUFFICES ASSUME NEW x \in Of(type), NEW y \in Of(type)
             PROVE  x = y
  BY AtMostOne
<1>1. /\ x \in req.taken /\ y \in req.taken /\ x[1] = type /\ y[1] = type
      /\ x \in ActionType \X Nat \X Abouts /\ y \in ActionType \X Nat \X Abouts
  BY DEF Of
<1>2. PICK a \in tx.actions : Key(a) = x /\ (a.type = "execute_recovery" => a.status = "succeeded")
  BY <1>1 DEF OnRecord
<1>3. PICK b \in tx.actions : Key(b) = y /\ (b.type = "execute_recovery" => b.status = "succeeded")
  BY <1>1 DEF OnRecord
<1>4. a.type = type /\ b.type = type
  BY <1>1, <1>2, <1>3 DEF Key
<1>5. CASE type = "run_analysis"
  BY <1>1, <1>5 DEF Fits
<1>6. CASE type \in {"escalate_itsm", "close_case"}
  BY <1>2, <1>3, <1>4, <1>6 DEF Single, ActionsOfType
<1>7. CASE type = "notify_customer"
  BY <1>2, <1>3, <1>4, <1>7 DEF LInv, Honest, OneNotice, ActionsOfType
<1>8. CASE type = "execute_recovery"
  <2>1. a \in Done(tx, "execute_recovery") /\ b \in ActionsOfType(tx, "execute_recovery")
    BY <1>2, <1>3, <1>4, <1>8 DEF Done, ActionsOfType
  <2>2. a = b
    BY <1>3, <1>4, <1>8, <2>1 DEF LInv, IInv, Sound, OneSuccess
  <2> QED  BY <1>2, <1>3, <2>2
<1> QED  BY <1>5, <1>6, <1>7, <1>8 DEF ActionType

\* While evidence is short nobody is told; once it is not, no flag is asked about.
LEMMA KeysBound ==
  ASSUME LInv, Single(tx), req.taken \subseteq ActionType \X Nat \X Abouts,
         \A k \in req.taken : OnRecord(k) /\ Fits(k), IsFiniteSet(Flags)
  PROVE  Cardinality(req.taken) <= 5 \/ Cardinality(req.taken) <= Cardinality(Flags) + 3
<1> DEFINE analysis == Of("run_analysis")
           incident == Of("escalate_itsm")
           remedy   == Of("execute_recovery")
           notice   == Of("notify_customer")
           closing  == Of("close_case")
           evidence == Of("request_evidence")
<1>1. /\ IsFiniteSet(analysis) /\ Cardinality(analysis) <= 1
      /\ IsFiniteSet(incident) /\ Cardinality(incident) <= 1
      /\ IsFiniteSet(remedy) /\ Cardinality(remedy) <= 1
      /\ IsFiniteSet(notice) /\ Cardinality(notice) <= 1
      /\ IsFiniteSet(closing) /\ Cardinality(closing) <= 1
  BY OneOfEach DEF ActionType
<1>2. \A k \in req.taken : k[1] \in ActionType /\ k = << k[1], k[2], k[3] >> /\ Fits(k)
  OBVIOUS
<1>3. req.taken = analysis \cup incident \cup remedy \cup notice \cup closing \cup evidence
  BY <1>2 DEF Of, ActionType
<1>4. IsFiniteSet(analysis \cup incident) /\ Cardinality(analysis \cup incident) <= 2
  BY <1>1, UnionBound
<1>5. /\ IsFiniteSet(analysis \cup incident \cup remedy)
      /\ Cardinality(analysis \cup incident \cup remedy) <= 3
  BY <1>1, <1>4, UnionBound
<1>6. CASE ~HasHypothesis
  <2>1. /\ \A x, y \in evidence : x = y
        /\ analysis = {} /\ incident = {} /\ notice = {} /\ closing = {}
    BY <1>2, <1>6 DEF Of, Fits, Telling, Enough
  <2>2. IsFiniteSet(evidence) /\ Cardinality(evidence) <= 1
    BY <2>1, AtMostOne
  <2>3. req.taken = remedy \cup evidence
    BY <1>3, <2>1
  <2> QED  BY <1>1, <2>2, <2>3, UnionBound
<1>7. CASE HasHypothesis /\ NeedsMoreEvidence
  <2>1. notice = {} /\ closing = {}
    BY <1>2, <1>7 DEF Of, Fits, Telling, Enough
  <2>2. evidence \subseteq FlagKeys
    BY <1>2, <1>7 DEF Of, Fits, FlagKeys
  <2>3. /\ IsFiniteSet(evidence) /\ Cardinality(evidence) <= Cardinality(Flags)
        /\ Cardinality(Flags) \in Nat
    <3>1. /\ IsFiniteSet(FlagKeys) /\ Cardinality(FlagKeys) <= Cardinality(Flags)
          /\ Cardinality(Flags) \in Nat /\ Cardinality(FlagKeys) \in Nat
      BY FlagKeysBound, FS_CardinalityType
    <3>2. IsFiniteSet(evidence) /\ Cardinality(evidence) <= Cardinality(FlagKeys)
      BY <2>2, <3>1, FS_Subset
    <3>3. Cardinality(evidence) \in Nat
      BY <3>2, FS_CardinalityType
    <3> QED  BY <3>1, <3>2, <3>3
  <2>4. req.taken = (analysis \cup incident \cup remedy) \cup evidence
    BY <1>3, <2>1
  <2> QED  BY <1>5, <2>3, <2>4, UnionBound
<1>8. CASE HasHypothesis /\ ~NeedsMoreEvidence
  <2>1. evidence = {}
    BY <1>2, <1>8 DEF Of, Fits
  <2>2. IsFiniteSet(notice \cup closing) /\ Cardinality(notice \cup closing) <= 2
    BY <1>1, UnionBound
  <2>3. req.taken = (analysis \cup incident \cup remedy) \cup (notice \cup closing)
    BY <1>3, <2>1
  <2> QED  BY <1>5, <2>2, <2>3, UnionBound
<1> QED  BY <1>6, <1>7, <1>8
-----------------------------------------------------------------------------
(* The theorems about the loop.                                            *)

\* A cycle takes at most as many rounds as there are flags, and four more.
Brief == req.kind = "cycle" => req.steps <= 6 \/ req.steps <= Cardinality(Flags) + 4

LoopInv == HInv /\ CycleInv

\* Every branch of the engine makes a round.
LEMMA DrivingRound ==
  ASSUME HInv, LoopStep, ~FinishExecution
  PROVE  SameGround(tx, tx') /\ Round /\ Driving
<1>0. LInv /\ IInv /\ Phased(tx, req.phase) /\ Single(tx)
  BY DEF HInv, LInv, History
<1>1. CASE ReturnLiveAction
  BY <1>0, <1>1, ReturnRound DEF ReturnLiveAction
<1>2. CASE RequestAnyEvidence \/ RequestMissingEvidence
  BY <1>0, <1>2, EvidenceRound DEF RequestAnyEvidence, RequestMissingEvidence, Deciding
<1>3. CASE RunAnalysis
  BY <1>0, <1>3, AnalysisRound DEF RunAnalysis, Deciding
<1>4. CASE EscalateItsm
  BY <1>0, <1>4, EscalateRound DEF EscalateItsm, Deciding
<1>5. CASE ProposeRecovery
  BY <1>0, <1>5, RecoveryRound DEF ProposeRecovery, Deciding
<1>6. CASE RecoveryOptionsExhausted \/ NothingToDo
  BY <1>0, <1>6, NoneRound DEF RecoveryOptionsExhausted, NothingToDo, Deciding
<1>7. CASE NotifyCustomer
  BY <1>0, <1>7, NotifyRound DEF NotifyCustomer, Deciding
<1>8. CASE CloseCase
  BY <1>0, <1>8, CloseRound DEF CloseCase, Deciding
<1> QED
  BY <1>1, <1>2, <1>3, <1>4, <1>5, <1>6, <1>7, <1>8 DEF LoopStep

LEMMA LoopStepCycle ==
  ASSUME LoopInv, LoopStep
  PROVE  /\ CycleInv'
         /\ InCycle \/ req'.kind # "cycle"
         /\ req'.kind = req.kind /\ req'.steps \in {req.steps, req.steps + 1}
<1>0. LInv /\ IInv /\ Phased(tx, req.phase) /\ Single(tx) /\ req \in Requests
  BY DEF LoopInv, HInv, LInv, History, IInv, TypeOK
<1>1. Remembers(tx, tx') /\ KeepsKeys(tx, tx')
  BY <1>0, LoopStepWay, WayRemembers
<1>2. CASE FinishExecution
  <2>1. CycleInv'
    BY <1>0, <1>1, <1>2, FinishCycle DEF LoopInv
  <2>2. req.phase = "executing" /\ req'.kind = req.kind /\ req'.steps = req.steps + 1
    BY <1>0, <1>2 DEF FinishExecution, LoopOn, Requests
  <2> QED  BY <2>1, <2>2 DEF InCycle
<1>3. CASE ~FinishExecution
  <2>1. SameGround(tx, tx') /\ Round /\ Driving
    BY <1>3, DrivingRound DEF LoopInv
  <2>2. CycleInv'
    BY <1>1, <2>1, DrivingCycle DEF LoopInv
  <2>3. req'.kind = req.kind /\ req'.steps \in {req.steps, req.steps + 1}
    BY <2>1 DEF Round, Stops, HandsBack, Runs
  <2> QED  BY <2>1, <2>2, <2>3 DEF InCycle, Driving
<1> QED  BY <1>2, <1>3

LEMMA LoopNext ==
  ASSUME LoopInv, [Next]_vars
  PROVE  LoopInv' /\ (IsFiniteSet(Flags) /\ Brief => Brief')
<1>0. HInv' /\ LInv /\ LInv'
  BY HNext DEF LoopInv, HInv
<1>a. IsFiniteSet({}) /\ Cardinality({}) = 0
  BY FS_EmptySet
<1>1. CASE LoopStep
  <2>1. /\ InCycle \/ req'.kind # "cycle"
        /\ CycleInv' /\ req'.kind = req.kind /\ req'.steps \in {req.steps, req.steps + 1}
    BY <1>1, LoopStepCycle
  <2>2. ASSUME IsFiniteSet(Flags), req'.kind = "cycle"
        PROVE  req'.steps <= 6 \/ req'.steps <= Cardinality(Flags) + 4
    <3>1. /\ req.steps = Cardinality(req.taken) /\ \A k \in req.taken : OnRecord(k) /\ Fits(k)
      BY <2>1, <2>2 DEF LoopInv, CycleInv, Counted
    <3>2. /\ Single(tx) /\ req.taken \subseteq ActionType \X Nat \X Abouts /\ req.steps \in Nat
      BY DEF LoopInv, HInv, History, LInv, IInv, TypeOK, Requests
    <3>3. req.steps <= 5 \/ req.steps <= Cardinality(Flags) + 3
      BY <1>0, <2>2, <3>1, <3>2, KeysBound
    <3>4. Cardinality(Flags) \in Nat
      BY <2>2, FS_CardinalityType
    <3> QED  BY <2>1, <3>2, <3>3, <3>4
  <2> QED  BY <1>0, <2>1, <2>2 DEF LoopInv, Brief
<1>2. CASE OpenCase \/ AdvanceCase
  <2>1. req' = Started("cycle")
    BY <1>0, <1>2, BeginWay
  <2>2. req'.taken = {} /\ req'.steps = 0 /\ req'.phase = "driving"
    BY <2>1 DEF Started
  <2>3. CycleInv' /\ Brief'
    BY <1>a, <2>2 DEF CycleInv, Counted, Brief
  <2> QED  BY <1>0, <2>3 DEF LoopInv
<1>3. CASE Approve
  <2>1. req'.kind # "cycle"
    BY <1>3 DEF Approve, Started
  <2> QED  BY <1>0, <2>1 DEF LoopInv, CycleInv, InCycle, Brief
<1>4. CASE Reject
  <2>1. req'.kind # "cycle"
    BY <1>0, <1>4 DEF Reject, LInv, AtRest
  <2> QED  BY <1>0, <2>1 DEF LoopInv, CycleInv, InCycle, Brief
<1>5. CASE Commit \/ Crash
  <2>1. req'.kind # "cycle"
    BY <1>5 DEF Commit, Crash, Idle
  <2> QED  BY <1>0, <2>1 DEF LoopInv, CycleInv, InCycle, Brief
<1>6. CASE UNCHANGED vars
  <2>1. CycleInv' /\ (Brief => Brief')
    BY <1>6 DEF vars, LoopInv, CycleInv, InCycle, Counted, RunningFits, OnRecord, Fits, Enough,
                HasHypothesis, NeedsMoreEvidence, LooksSystemic, LiveActions, ActionsOfType, Brief
  <2> QED  BY <1>0, <2>1 DEF LoopInv
<1> QED
  BY <1>1, <1>2, <1>3, <1>4, <1>5, <1>6 DEF Next, ServerStep, LoopStep

LEMMA LoopInit ==
  ASSUME Init
  PROVE  LoopInv /\ Brief
BY HInit DEF LoopInv, Init, Idle, CycleInv, InCycle, Brief

\* However many flags are open, run_case_cycle hands back each of them once, and at most four
\* actions more, five if none is asked about; the round in which nothing new comes back ends it.
THEOREM CyclesAreBrief ==
  ASSUME IsFiniteSet(Flags)
  PROVE  Spec => []Brief
<1>1. Init => LoopInv /\ Brief  BY LoopInit
<1>2. LoopInv /\ Brief /\ [Next]_vars => LoopInv' /\ Brief'  BY LoopNext
<1> QED  BY <1>1, <1>2, PTL DEF Spec

\* So the cap of twelve rounds never cuts a cycle short while no more than seven flags can be
\* open at once.
THEOREM CyclesStall ==
  ASSUME IsFiniteSet(Flags), Cardinality(Flags) <= 7
  PROVE  Spec => []CycleStallsByItself
<1>1. LoopInv /\ Brief => CycleStallsByItself
  <2> SUFFICES ASSUME LoopInv, Brief, req.kind = "cycle"
               PROVE  req.steps < MaxAutoSteps
    BY DEF CycleStallsByItself
  <2>1. req.steps \in Nat
    BY DEF LoopInv, HInv, LInv, IInv, TypeOK, Requests
  <2>2. Cardinality(Flags) \in Nat
    BY FS_CardinalityType
  <2> QED  BY <2>1, <2>2 DEF Brief, MaxAutoSteps
<1>2. Init => LoopInv /\ Brief  BY LoopInit
<1>3. LoopInv /\ Brief /\ [Next]_vars => LoopInv' /\ Brief'  BY LoopNext
<1> QED  BY <1>1, <1>2, <1>3, PTL DEF Spec

-----------------------------------------------------------------------------
(* The end of a request.                                                   *)

\* What is left to do for the request: two steps for each round to come, and the commit.
StepsLeft(r) ==
  CASE r.phase = "driving"   -> 2 * (MaxAutoSteps - r.steps) + 2
    [] r.phase = "executing" -> 2 * (MaxAutoSteps - r.steps) + 1
    [] r.phase = "finished"  -> 1
    [] OTHER                 -> 0

WorkLeft == StepsLeft(req)

LEMMA LoopStepShrinks ==
  ASSUME HInv, LoopStep
  PROVE  WorkLeft' < WorkLeft
<1>1. req.steps \in Nat /\ req.steps < 12 /\ req.phase \in {"driving", "executing"}
  <2>1. req \in Requests /\ RoundsLeft
    BY DEF HInv, LInv, IInv, TypeOK
  <2>2. req.phase \in {"driving", "executing"}
    BY DrivingRound DEF Driving, FinishExecution
  <2> QED  BY <2>1, <2>2 DEF Requests, RoundsLeft, MaxAutoSteps
<1>2. CASE FinishExecution
  <2>1. /\ req.phase = "executing"
        /\ \/ req'.phase = "finished"
           \/ req'.phase = "driving" /\ req'.steps = req.steps + 1
    <3>1. req \in Requests
      BY DEF HInv, LInv, IInv, TypeOK
    <3> QED  BY <1>2, <3>1 DEF FinishExecution, LoopOn, Requests
  <2> QED  BY <1>1, <2>1 DEF WorkLeft, StepsLeft, MaxAutoSteps
<1>3. CASE ~FinishExecution
  <2>1. /\ req.phase = "driving"
        /\ \/ req'.phase = "finished"
           \/ req'.phase = "driving" /\ req'.steps = req.steps + 1
           \/ req'.phase = "executing" /\ req'.steps = req.steps
    BY <1>3, DrivingRound DEF Driving, Round, Stops, HandsBack, Runs
  <2> QED  BY <1>1, <2>1 DEF WorkLeft, StepsLeft, MaxAutoSteps
<1> QED  BY <1>2, <1>3

LEMMA WorkIsNat ==
  ASSUME NEW r \in Requests, r.phase \in {"driving", "executing"} => r.steps < MaxAutoSteps
  PROVE  StepsLeft(r) \in Nat /\ (r.phase # "idle" => StepsLeft(r) > 0)
<1>1. r.steps \in Nat /\ (r.phase \in {"driving", "executing"} => r.steps < 12)
  BY DEF Requests, MaxAutoSteps
<1>2. r.phase \in {"idle", "driving", "executing", "finished"}
  BY DEF Requests
<1> QED  BY <1>1, <1>2 DEF StepsLeft, MaxAutoSteps

\* Whatever happens while a request is at work brings it nearer to its end, at most 26 steps
\* away, whichever branches the engine takes: RequestTerminates needs of fairness only that
\* something does happen.
THEOREM RequestsShrink == Spec => [][req.phase # "idle" => WorkLeft' \in Nat /\ WorkLeft' < WorkLeft]_vars
<1>1. ASSUME HInv, [Next]_vars
      PROVE  [req.phase # "idle" => WorkLeft' \in Nat /\ WorkLeft' < WorkLeft]_vars
  <2>0. IInv /\ IInv'
    BY <1>1, HNext DEF HInv, LInv
  <2>1. WorkLeft' \in Nat /\ WorkLeft \in Nat /\ (req.phase # "idle" => WorkLeft > 0)
    <3>1. /\ req \in Requests /\ RoundsLeft
          /\ req' \in Requests /\ RoundsLeft'
      BY <2>0 DEF IInv, TypeOK
    <3> QED  BY <3>1, WorkIsNat DEF WorkLeft, RoundsLeft
  <2>2. CASE LoopStep
    BY <1>1, <2>1, <2>2, LoopStepShrinks
  <2>3. CASE Commit \/ Crash
    <3>1. req'.phase = "idle"
      BY <2>3 DEF Commit, Crash, Idle
    <3>2. WorkLeft' = 0
      BY <3>1 DEF WorkLeft, StepsLeft
    <3> QED  BY <2>1, <3>2
  <2>4. CASE OpenCase \/ AdvanceCase \/ Approve \/ Reject
    BY <2>4 DEF OpenCase, AdvanceCase, Approve, Reject
  <2>5. CASE UNCHANGED vars
    BY <2>5
  <2> QED
    BY <1>1, <2>2, <2>3, <2>4, <2>5 DEF Next, ServerStep, LoopStep
<1>2. Init => HInv  BY HInit
<1>3. HInv /\ [Next]_vars => HInv'  BY HNext
<1> QED  BY <1>1, <1>2, <1>3, PTL DEF Spec

-----------------------------------------------------------------------------
(* The stage.                                                              *)

\* A step of the loop moves the stage forward or leaves it, and keeps the diagnosis.
Onward(v, w) ==
  w.stage >= v.stage /\ w.hyp.id = v.hyp.id /\ w.hyp.confidence = v.hyp.confidence

LEMMA StageIsNat == Stages \subseteq Nat
BY DEF Stages, IssueReported, OutcomeRetained

LEMMA StageForward ==
  ASSUME NEW w \in CaseRows, NEW stage \in Stages
  PROVE  WithStage(w, stage).stage >= w.stage
<1>1. w.stage \in Nat /\ stage \in Nat
  BY StageIsNat DEF CaseRows
<1>2. WithStage(w, stage).stage = LaterStage(w.stage, stage)
  BY DEF WithStage, CaseRows
<1>3. LaterStage(w.stage, stage) >= w.stage
  BY <1>1 DEF LaterStage
<1> QED  BY <1>2, <1>3

LEMMA ProposeStage ==
  ASSUME NEW w \in CaseRows, NEW a, Propose(w, a)
  PROVE  tx'.stage = w.stage
<1>1. ASSUME NEW v \in {w, [w EXCEPT !.actions = @ \cup {a}]}, NEW b, Advance(v, b)
      PROVE  tx'.stage = w.stage
  <2>1. v.stage = w.stage
    BY DEF CaseRows
  <2>2. tx' = v \/ tx' = WithStatus(v, b, "executing")
    BY <1>1 DEF Advance, LoopOn
  <2>3. WithStatus(v, b, "executing").stage = v.stage
    BY DEF WithStatus, CaseRows
  <2> QED  BY <2>1, <2>2, <2>3
<1> QED  BY <1>1 DEF Propose

\* What a branch of the engine makes of the row before it proposes.
LEMMA BranchStage ==
  ASSUME tx \in CaseRows, NEW status \in CaseStatus, NEW stage \in Stages,
         NEW w, \/ w = [Current EXCEPT !.status = status]
                \/ w = WithStage([Current EXCEPT !.status = status], stage),
         NEW a, Propose(w, a)
  PROVE  tx'.stage >= tx.stage
<1> DEFINE u == [Current EXCEPT !.status = status]
<1>1. u \in CaseRows /\ u.stage = tx.stage
  BY DEF Current, CaseRows
<1>2. w = u \/ w = WithStage(u, stage)
  OBVIOUS
<1> HIDE DEF u
<1>3. w \in CaseRows /\ w.stage >= tx.stage
  <2>1. tx.stage \in Nat
    BY StageIsNat DEF CaseRows
  <2> QED  BY <1>1, <1>2, <2>1, StageType, StageForward
<1> QED  BY <1>3, ProposeStage

LEMMA DrivingStage ==
  ASSUME IInv, LoopStep, ~FinishExecution
  PROVE  tx'.stage >= tx.stage
<1>1. req \in Requests /\ tx \in CaseRows /\ tx.stage \in Nat
  BY StageIsNat DEF IInv, TypeOK, CaseRows
<1>2. CASE ReturnLiveAction
  <2>1. PICK a : tx' = tx \/ tx' = WithStatus(tx, a, "executing")
    BY <1>2 DEF ReturnLiveAction, Advance, LoopOn
  <2>2. WithStatus(tx, a, "executing").stage = tx.stage
    BY <1>1 DEF WithStatus, CaseRows
  <2> QED  BY <1>1, <2>1, <2>2
<1>3. CASE RequestAnyEvidence
  BY <1>1, <1>3, BranchStage, StageConstants DEF RequestAnyEvidence, CaseStatus
<1>4. CASE RequestMissingEvidence
  BY <1>1, <1>4, BranchStage, StageConstants DEF RequestMissingEvidence, CaseStatus
<1>5. CASE EscalateItsm
  BY <1>1, <1>5, BranchStage, StageConstants DEF EscalateItsm, CaseStatus
<1>6. CASE NotifyCustomer
  BY <1>1, <1>6, BranchStage, StageConstants DEF NotifyCustomer, CaseStatus
<1>7. CASE ProposeRecovery
  <2>1. PICK i \in DOMAIN Options :
          Propose(WithStage([Current EXCEPT !.status = RecoveryStatus(Options[i])],
                            RecoveryOptionsRanked),
                  RecoveryAction(Options[i]))
    BY <1>7 DEF ProposeRecovery
  <2>2. RecoveryStatus(Options[i]) \in CaseStatus
    BY DEF RecoveryStatus, CaseStatus
  <2> QED  BY <1>1, <2>1, <2>2, BranchStage, StageConstants
<1>8. CASE RunAnalysis
  <2> DEFINE a == NewAction("run_analysis", tx.hyp.id, "none", "succeeded")
  <2>1. PICK exposure \in Exposures :
          LoopOn(WithStage([Current EXCEPT !.status = "investigating",
                                           !.hyp.exposure = exposure,
                                           !.actions = @ \cup {a}], ImpactAssessed), a)
    BY <1>8 DEF RunAnalysis
  <2> HIDE DEF a
  <2> DEFINE u == [Current EXCEPT !.status = "investigating",
                                  !.hyp.exposure = exposure,
                                  !.actions = @ \cup {a}]
  <2>2. tx' = WithStage(u, ImpactAssessed)
    BY <2>1 DEF LoopOn
  <2>3. u.stage = tx.stage /\ "stage" \in DOMAIN u
    BY <1>1 DEF Current, CaseRows
  <2> HIDE DEF u
  <2>4. tx'.stage = LaterStage(u.stage, ImpactAssessed)
    BY <2>2, <2>3 DEF WithStage
  <2> QED  BY <1>1, <2>3, <2>4, StageIsNat, StageConstants DEF LaterStage
<1>9. CASE CloseCase
  <2> DEFINE a == NewAction("close_case", tx.hyp.id, "none", "succeeded")
  <2>1. PICK done \in Done(tx, "execute_recovery") :
          LoopOn(WithStage([Current EXCEPT !.status = "closed",
                                           !.closure = [hyp |-> tx.hyp.id, about |-> done.about],
                                           !.actions = @ \cup {a}], OutcomeRetained), a)
    BY <1>9 DEF CloseCase
  <2> HIDE DEF a
  <2> DEFINE u == [Current EXCEPT !.status = "closed",
                                  !.closure = [hyp |-> tx.hyp.id, about |-> done.about],
                                  !.actions = @ \cup {a}]
  <2>2. tx' = WithStage(u, OutcomeRetained)
    BY <2>1 DEF LoopOn
  <2>3. u.stage = tx.stage /\ "stage" \in DOMAIN u
    BY <1>1 DEF Current, CaseRows
  <2> HIDE DEF u
  <2>4. tx'.stage = LaterStage(u.stage, OutcomeRetained)
    BY <2>2, <2>3 DEF WithStage
  <2> QED  BY <1>1, <2>3, <2>4, StageIsNat, StageConstants DEF LaterStage
<1>10. CASE RecoveryOptionsExhausted \/ NothingToDo
  <2>1. tx' = Current
    BY <1>10 DEF RecoveryOptionsExhausted, NothingToDo, LoopEnds
  <2> QED  BY <1>1, <2>1 DEF Current, CaseRows
<1> QED
  BY <1>2, <1>3, <1>4, <1>5, <1>6, <1>7, <1>8, <1>9, <1>10 DEF LoopStep

LEMMA ReconciledStage ==
  ASSUME NEW w \in CaseRows, NEW raised \in SUBSET Flags
  PROVE  Onward(w, Reconciled(w, raised))
<1> DEFINE u == [w EXCEPT !.missing = @ \cup raised]
<1>1. u \in CaseRows /\ u.hyp = w.hyp /\ u.stage = w.stage /\ w.stage \in Nat
  BY StageIsNat DEF CaseRows
<1>2. Reconciled(w, raised) = IF w.evidence THEN WithStage(u, JourneyAssembled) ELSE w
  BY DEF Reconciled
<1> HIDE DEF u
<1>3. WithStage(u, JourneyAssembled).stage >= u.stage
  BY <1>1, StageForward, StageConstants
<1>4. SameGround(u, WithStage(u, JourneyAssembled))
  BY <1>1, StageGround
<1> QED  BY <1>1, <1>2, <1>3, <1>4 DEF Onward, SameGround

LEMMA ExecutedStage ==
  ASSUME NEW w \in CaseRows, NEW a \in w.actions, NEW outcome, NEW raised \in SUBSET Flags
  PROVE  Executed(w, a, outcome, raised).stage >= w.stage
<1> DEFINE seen == IF a.type = "escalate_itsm" THEN WithIncident(w, raised) ELSE w
           final == StatusAfter(outcome)
           moved == WithStatus(seen, a, final)
           w2 == StageAfter(moved, a)
<1>0. w.stage \in Nat
  BY StageIsNat DEF CaseRows
<1>1. seen \in CaseRows /\ seen.actions = w.actions /\ seen.stage >= w.stage
  <2> DEFINE v == [w EXCEPT !.evidence = TRUE, !.itsm = TRUE]
  <2>1. v \in CaseRows /\ v.stage = w.stage
    BY DEF CaseRows
  <2>2. WithIncident(w, raised) = Reconciled(v, raised)
    BY DEF WithIncident
  <2> HIDE DEF v
  <2>3. WithIncident(w, raised).stage >= w.stage
    BY <2>1, <2>2, ReconciledStage DEF Onward
  <2> QED  BY <1>0, <2>3, WithIncidentType
<1>2. final \in ActionStatus
  BY StatusAfterType DEF ActionStatus
<1>3. Executed(w, a, outcome, raised) =
        IF outcome \in {"success", "review"} THEN w2 ELSE WithStatus(w, a, final)
  BY DEF Executed
<1> HIDE DEF seen, final
<1>4. moved \in CaseRows /\ moved.stage = seen.stage
  <2>1. moved \in CaseRows
    BY <1>1, <1>2, StatusType
  <2>2. moved.stage = seen.stage
    BY <1>1, WithStatusRow
  <2> QED  BY <2>1, <2>2
<1> HIDE DEF moved
<1>5. w2.stage >= moved.stage
  <2>1. moved.stage \in Nat
    BY <1>4, StageIsNat DEF CaseRows
  <2>2. \A stage \in Stages : WithStage(moved, stage).stage >= moved.stage
    BY <1>4, StageForward
  <2>3. \/ \E stage \in Stages : w2 = WithStage(moved, stage)
        \/ w2 = moved
    BY StageConstants DEF StageAfter
  <2> QED  BY <2>1, <2>2, <2>3
<1>6. w2.stage \in Nat
  BY <1>4, StageAfterType, StageIsNat DEF CaseRows
<1> HIDE DEF w2
<1>7. WithStatus(w, a, final).stage = w.stage
  BY WithStatusRow
<1>8. seen.stage \in Nat
  BY <1>1, StageIsNat DEF CaseRows
<1> QED  BY <1>0, <1>1, <1>3, <1>4, <1>5, <1>6, <1>7, <1>8

LEMMA LoopStepOnward ==
  ASSUME HInv, LoopStep
  PROVE  Onward(tx, tx')
<1>1. IInv /\ LInv /\ tx \in CaseRows
  BY DEF HInv, LInv, IInv, TypeOK
<1>2. CASE FinishExecution
  <2>1. PICK a \in tx.actions, outcome \in Outcomes, raised \in SUBSET Flags :
          LoopOn(Executed(tx, a, outcome, raised), [a EXCEPT !.status = StatusAfter(outcome)])
    BY <1>2 DEF FinishExecution
  <2>2. tx' = Executed(tx, a, outcome, raised)
    BY <2>1 DEF LoopOn
  <2>3. Executed(tx, a, outcome, raised).stage >= tx.stage
    BY <1>1, ExecutedStage
  <2>4. /\ Executed(tx, a, outcome, raised).hyp.id = tx.hyp.id
        /\ Executed(tx, a, outcome, raised).hyp.confidence = tx.hyp.confidence
    BY <1>1, ExecutedGround
  <2> QED  BY <2>2, <2>3, <2>4 DEF Onward
<1>3. CASE ~FinishExecution
  <2>1. tx'.stage >= tx.stage
    BY <1>1, <1>3, DrivingStage
  <2>2. SameGround(tx, tx')
    BY <1>3, DrivingRound
  <2> QED  BY <2>1, <2>2 DEF Onward, SameGround
<1> QED  BY <1>2, <1>3

\* A new diagnosis moves the stage forward, unless it is far from the one before.
LEMMA GeneratedStage ==
  ASSUME NEW w \in CaseRows, NEW d \in Diagnoses, NEW id \in Nat, w.hyp.id # id
  PROVE  /\ Generated(w, d, id).hyp.id = id
         /\ Generated(w, d, id).stage < w.stage => Reevaluates(w, Generated(w, d, id))
<1> DEFINE hyp == [id |-> id, category |-> d.category, confidence |-> d.confidence,
                   exposure |-> NotAssessed]
           shift == IF d.confidence > w.hyp.confidence THEN d.confidence - w.hyp.confidence
                                                       ELSE w.hyp.confidence - d.confidence
           u == [w EXCEPT !.hyp = hyp]
           next == WithStage(u, FailureLocated)
           back == [next EXCEPT !.reeval = TRUE, !.stage = FailureLocated]
<1>1. hyp \in Hypotheses /\ hyp.id = id /\ hyp.confidence = d.confidence
  BY DiagnosesAssumption DEF Hypotheses
<1>2. Generated(w, d, id) = IF w.hyp.id # 0 /\ shift > ReevaluationDelta THEN back ELSE next
  BY DEF Generated
<1> HIDE DEF hyp
<1>3. u \in CaseRows /\ u.stage = w.stage /\ u.hyp = hyp
  BY <1>1 DEF CaseRows
<1> HIDE DEF u
<1>4. next \in CaseRows /\ next.hyp = hyp /\ next.stage >= w.stage
  <2>1. SameGround(u, next) /\ next.hyp = u.hyp
    BY <1>3, StageGround DEF WithStage, CaseRows
  <2> QED  BY <1>3, <2>1, StageType, StageForward, StageConstants
<1> HIDE DEF next
<1>5. back.hyp = hyp /\ back.stage = FailureLocated
  BY <1>4 DEF CaseRows
<1> HIDE DEF back
<1>6. CASE w.hyp.id # 0 /\ shift > ReevaluationDelta
  <2>1. Generated(w, d, id) = back
    BY <1>2, <1>6
  <2>2. \/ back.hyp.confidence - w.hyp.confidence > ReevaluationDelta
        \/ w.hyp.confidence - back.hyp.confidence > ReevaluationDelta
    BY <1>1, <1>5, <1>6
  <2>3. FailureLocated >= FailureLocated
    BY DEF FailureLocated
  <2> QED  BY <1>1, <1>5, <1>6, <2>1, <2>2, <2>3 DEF Reevaluates
<1>7. CASE ~(w.hyp.id # 0 /\ shift > ReevaluationDelta)
  <2>1. Generated(w, d, id) = next
    BY <1>2, <1>7
  <2>2. w.stage \in Nat /\ next.stage \in Nat
    BY <1>4, StageIsNat DEF CaseRows
  <2> QED  BY <1>1, <1>4, <2>1, <2>2
<1> QED  BY <1>6, <1>7

LEMMA ReevaluatesOnward ==
  ASSUME NEW u, NEW v \in CaseRows, NEW w \in CaseRows, u \in CaseRows,
         \/ (v.stage < u.stage => Reevaluates(u, v)) /\ Onward(v, w)
         \/ Onward(u, v) /\ (w.stage < v.stage => Reevaluates(v, w))
  PROVE  w.stage < u.stage => Reevaluates(u, w)
<1>1. u.stage \in Nat /\ v.stage \in Nat /\ w.stage \in Nat /\ FailureLocated \in Nat
  BY StageIsNat, StageConstants DEF CaseRows
<1> QED  BY <1>1 DEF Reevaluates, Onward

\* What the session has made of the stage is what the commit will have to justify; hypotheses
\* are never handed out twice, and nothing is displayed of a case that has not been opened.
Staged ==
  /\ tx.stage < db.stage => Reevaluates(db, tx)
  /\ db.hyp.id <= minted /\ tx.hyp.id <= minted
  /\ ~db.opened => db.stage = IssueReported /\ db.hyp = NoHypothesis

LEMMA BeginStage ==
  ASSUME HInv, Staged, OpenCase \/ AdvanceCase
  PROVE  Staged'
<1>1. /\ db \in CaseRows /\ tx' \in CaseRows /\ db.stage \in Nat /\ db.hyp.id \in Nat
      /\ minted \in Nat /\ db' = db
  <2>1. IInv /\ IInv'
    <3>1. LInv  BY DEF HInv
    <3>2. LInv'  BY <3>1, LNext DEF Next
    <3> QED  BY <3>1, <3>2 DEF LInv
  <2>2. db \in CaseRows /\ tx' \in CaseRows /\ minted \in Nat
    BY <2>1, BoundsAssumption DEF IInv, TypeOK
  <2> QED
    BY <2>2, StageIsNat DEF CaseRows, Hypotheses, OpenCase, AdvanceCase
<1>2. PICK v \in CaseRows : BeginCycle(v) /\ Onward(db, v)
  <2>1. CASE OpenCase
    <3> DEFINE v == [NewCase EXCEPT !.opened = TRUE]
    <3>1. v \in CaseRows
      BY NewCaseType DEF CaseRows
    <3>2. v.stage = IssueReported /\ v.hyp = NoHypothesis
      BY DEF NewCase
    <3>3. BeginCycle(v)
      BY <2>1 DEF OpenCase
    <3>4. db.stage = IssueReported /\ db.hyp = NoHypothesis
      BY <2>1 DEF OpenCase, Staged
    <3> HIDE DEF v
    <3> QED  BY <3>1, <3>2, <3>3, <3>4 DEF Onward, NoHypothesis, IssueReported
  <2>2. CASE AdvanceCase
    BY <1>1, <2>2 DEF AdvanceCase, Onward
  <2> QED  BY <2>1, <2>2
<1>3. PICK any \in BOOLEAN, incident \in BOOLEAN, raised \in SUBSET Flags :
        LET known == Reconciled(Arrived(v, any, incident), raised)
        IN  \/ tx' = known /\ UNCHANGED minted
            \/ minted' = minted + 1 /\ \E d \in Diagnoses : tx' = Generated(known, d, minted + 1)
  BY <1>2 DEF BeginCycle
<1> DEFINE arrived == Arrived(v, any, incident)
           known == Reconciled(arrived, raised)
<1>4. \/ tx' = known /\ minted' = minted
      \/ minted' = minted + 1 /\ \E d \in Diagnoses : tx' = Generated(known, d, minted + 1)
  BY <1>3
<1>5. arrived \in CaseRows /\ Onward(v, arrived)
  <2>1. arrived.stage = v.stage /\ arrived.hyp = v.hyp /\ v.stage \in Nat
    BY StageIsNat DEF Arrived, CaseRows
  <2> QED  BY <2>1, ArrivedType DEF Onward
<1> HIDE DEF arrived
<1>6. known \in CaseRows /\ Onward(arrived, known)
  BY <1>5, ReconciledType, ReconciledStage
<1> HIDE DEF known
<1>7. Onward(db, known) /\ known.hyp.id <= minted
  <2>1. v.stage \in Nat /\ arrived.stage \in Nat /\ known.stage \in Nat
    BY <1>5, <1>6, StageIsNat DEF CaseRows
  <2> QED  BY <1>1, <1>2, <1>5, <1>6, <2>1 DEF Onward, Staged
<1>8. (tx'.stage < db.stage => Reevaluates(db, tx')) /\ tx'.hyp.id <= minted'
  <2>1. CASE tx' = known /\ minted' = minted
    <3>1. known.stage \in Nat
      BY <1>6, StageIsNat DEF CaseRows
    <3> QED  BY <1>1, <1>7, <2>1, <3>1 DEF Onward
  <2>2. CASE minted' = minted + 1 /\ \E d \in Diagnoses : tx' = Generated(known, d, minted + 1)
    <3>1. PICK d \in Diagnoses : tx' = Generated(known, d, minted + 1)
      BY <2>2
    <3>2. known.hyp.id # minted + 1 /\ minted + 1 \in Nat
      BY <1>1, <1>6, <1>7 DEF CaseRows, Hypotheses
    <3>3. /\ tx'.hyp.id = minted + 1
          /\ tx'.stage < known.stage => Reevaluates(known, tx')
      BY <1>6, <3>1, <3>2, GeneratedStage
    <3>4. tx'.stage < db.stage => Reevaluates(db, tx')
      BY <1>1, <1>6, <1>7, <3>3, ReevaluatesOnward
    <3> QED  BY <1>1, <2>2, <3>3, <3>4
  <2> QED  BY <1>4, <2>1, <2>2
<1>9. db.hyp.id <= minted'
  BY <1>1, <1>4 DEF Staged
<1> QED  BY <1>1, <1>8, <1>9 DEF Staged

StagedInv == HInv /\ Staged

LEMMA StagedNext ==
  ASSUME StagedInv, [Next]_vars
  PROVE  StagedInv' /\ (db'.stage < db.stage => Reevaluates(db, db'))
<1>1. HInv /\ HInv' /\ Staged
  BY HNext DEF StagedInv
<1>2. db \in CaseRows /\ tx \in CaseRows /\ tx' \in CaseRows /\ db.stage \in Nat
  BY <1>1, StageIsNat DEF HInv, LInv, IInv, TypeOK, CaseRows
<1> SUFFICES Staged' /\ (db'.stage < db.stage => Reevaluates(db, db'))
  BY <1>1 DEF StagedInv
<1>3. CASE LoopStep
  <2>1. db' = db /\ minted' = minted
    BY <1>3 DEF LoopStep, ReturnLiveAction, RequestAnyEvidence, RequestMissingEvidence,
           RunAnalysis, EscalateItsm, ProposeRecovery, RecoveryOptionsExhausted, NotifyCustomer,
           CloseCase, NothingToDo, FinishExecution, NoEffect
  <2>2. Onward(tx, tx')
    BY <1>1, <1>3, LoopStepOnward
  <2>3. tx'.stage < db.stage => Reevaluates(db, tx')
    BY <1>1, <1>2, <2>2, ReevaluatesOnward DEF Staged
  <2>4. tx'.hyp.id <= minted
    BY <1>1, <2>2 DEF Staged, Onward
  <2> QED  BY <1>1, <1>2, <2>1, <2>3, <2>4 DEF Staged
<1>4. CASE OpenCase \/ AdvanceCase
  <2>1. db' = db
    BY <1>4 DEF OpenCase, AdvanceCase
  <2> QED  BY <1>1, <1>2, <1>4, <2>1, BeginStage
<1>5. CASE Approve \/ Reject
  <2>1. PICK a, user, status : db' = WithDecision(db, a, status, user)
    BY <1>5 DEF Approve, Reject
  <2>2. db'.stage = db.stage /\ db'.hyp = db.hyp /\ db'.opened = db.opened
    BY <1>2, <2>1 DEF WithDecision, CaseRows
  <2>3. tx' = db' /\ minted' = minted
    BY <1>5 DEF Approve, Reject
  <2> QED  BY <1>1, <1>2, <2>2, <2>3 DEF Staged
<1>6. CASE Commit
  <2>1. db' = tx /\ tx' = tx /\ minted' = minted /\ tx.opened /\ tx.stage \in Nat
    BY <1>1, <1>2, <1>6, StageIsNat DEF Commit, HInv, LInv, Opening, CaseRows
  <2> QED  BY <1>1, <2>1 DEF Staged
<1>7. CASE Crash
  <2>1. db' = db /\ tx' = db /\ minted' = minted
    BY <1>7 DEF Crash
  <2> QED  BY <1>1, <1>2, <2>1 DEF Staged
<1>8. CASE UNCHANGED vars
  <2>1. db' = db /\ tx' = tx /\ minted' = minted
    BY <1>8 DEF vars
  <2> QED  BY <1>1, <1>2, <2>1 DEF Staged
<1> QED
  BY <1>3, <1>4, <1>5, <1>6, <1>7, <1>8 DEF Next, ServerStep, LoopStep

\* The stage that is displayed is turned back only by a new leading hypothesis whose
\* confidence is off by more than the threshold, and then no further than to where the
\* failure was located: neither evidence, nor failures, decisions or crashes do it.
THEOREM StageIsJustified == Spec => StageFallsOnReevaluation
<1>1. Init => StagedInv
  <2>1. ASSUME Init PROVE StagedInv
    <3>1. /\ db = NewCase /\ tx = NewCase /\ minted = 0 /\ HInv
          /\ NewCase.stage = IssueReported /\ NewCase.hyp = NoHypothesis
      BY <2>1, HInit DEF Init, NewCase
    <3> QED  BY <3>1 DEF StagedInv, Staged, NoHypothesis, IssueReported
  <2> QED  BY <2>1
<1>2. StagedInv /\ [Next]_vars => StagedInv'
  BY StagedNext
<1>3. StagedInv /\ [Next]_vars => [db'.stage < db.stage => Reevaluates(db, db')]_vars
  BY StagedNext
<1> QED  BY <1>1, <1>2, <1>3, PTL DEF Spec, StageFallsOnReevaluation
=============================================================================
