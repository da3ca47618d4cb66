-------------------------- MODULE AccountingProofs --------------------------
(***************************************************************************)
(* Every remedy the outside world saw is accounted for by the rows of the  *)
(* case, but for one that each crash may have rolled back.                 *)
(*                                                                         *)
(* A request carries out at most one remedy that its rows do not show as a *)
(* success: a failure or a partial success ends its loop, a success leaves *)
(* nothing to recover (Spent).  What is carried out is therefore at most   *)
(* one ahead of what is committed, and never ahead of what the session has *)
(* on record (Accounts).  A finished remedy counts as one more because its *)
(* row is the only one of its idempotency key (Countable).                 *)
(***************************************************************************)
EXTENDS LifecycleProofs, FiniteSetTheorems

\* The remedies of a row that have been tried to their end.
Carried(w) ==
  {a \in ActionsOfType(w, "execute_recovery") :
     a.status \in {"succeeded", "needs_manual_review", "failed"}}

\* One row per idempotency key.
Countable(w) ==
  /\ IsFiniteSet(w.actions)
  /\ \A a, b \in ActionsOfType(w, "execute_recovery") : Key(a) = Key(b) => a = b

\* The request has carried out what it may.
Spent == req.phase = "finished" \/ Done(tx, "execute_recovery") # {}

Accounts ==
  /\ Len(remedies) <= crashes + Cardinality(Carried(tx))
  /\ Len(remedies) <= crashes + Cardinality(Carried(db)) + 1
  /\ ~Spent => Len(remedies) <= crashes + Cardinality(Carried(db))

RInv == LInv /\ Countable(db) /\ Countable(tx) /\ Accounts

LEMMA CarriedIsFinite ==
  ASSUME NEW w, Countable(w)
  PROVE  IsFiniteSet(Carried(w)) /\ Cardinality(Carried(w)) \in Nat
<1>1. Carried(w) \subseteq w.actions
  BY DEF Carried, ActionsOfType
<1> QED  BY <1>1, FS_Subset, FS_CardinalityType DEF Countable

LEMMA QuietCounts ==
  ASSUME NEW v, NEW w, Countable(v), Quiet(v, w) \/ \E b : ClosedRow(v, w, b)
  PROVE  Countable(w) /\ Carried(w) = Carried(v)
<1>1. CASE KeptRow(v, w)
  BY <1>1 DEF KeptRow, Countable, Carried, ActionsOfType
<1>2. ASSUME NEW b, AddedRow(v, w, b)
      PROVE  Countable(w) /\ Carried(w) = Carried(v)
  <2>1. IsFiniteSet(v.actions \cup {b})
    BY FS_AddElement DEF Countable
  <2>2. Carried(w) = Carried(v)
    BY <1>2 DEF AddedRow, Carried, ActionsOfType
  <2> QED  BY <1>2, <2>1, <2>2 DEF AddedRow, Countable, ActionsOfType
<1>3. ASSUME NEW a, NEW b, MovedRow(v, w, a, b)
      PROVE  Countable(w) /\ Carried(w) = Carried(v)
  <2>1. IsFiniteSet((v.actions \ {a}) \cup {b})
    BY FS_AddElement, FS_RemoveElement DEF Countable
  <2>2. Carried(w) = Carried(v)
    BY <1>3 DEF MovedRow, Carried, ActionsOfType, LiveStatuses
  <2>3. Key(b) = Key(a)
    BY <1>3 DEF MovedRow, Key
  <2> QED  BY <1>3, <2>1, <2>2, <2>3 DEF MovedRow, Countable, ActionsOfType
<1>4. ASSUME NEW b, ClosedRow(v, w, b)
      PROVE  Countable(w) /\ Carried(w) = Carried(v)
  <2>1. IsFiniteSet(v.actions \cup {b})
    BY FS_AddElement DEF Countable
  <2>2. Carried(w) = Carried(v)
    BY <1>4 DEF ClosedRow, Carried, ActionsOfType
  <2> QED  BY <1>4, <2>1, <2>2 DEF ClosedRow, Countable, ActionsOfType
<1> QED  BY <1>1, <1>2, <1>3, <1>4 DEF Quiet

\* A remedy that has run is one more on record, since its row was the only one of its key.
LEMMA FinishedCounts ==
  ASSUME NEW v, NEW w, NEW a, NEW b, Countable(v), FinishedRow(v, w, a, b)
  PROVE  /\ Countable(w)
         /\ a.type = "execute_recovery" => Cardinality(Carried(w)) = Cardinality(Carried(v)) + 1
         /\ a.type # "execute_recovery" => Carried(w) = Carried(v)
<1>1. IsFiniteSet((v.actions \ {a}) \cup {b})
  BY FS_AddElement, FS_RemoveElement DEF Countable
<1>2. Key(b) = Key(a)
  BY DEF FinishedRow, Key
<1>3. Countable(w)
  BY <1>1, <1>2 DEF FinishedRow, Countable, ActionsOfType
<1>4. CASE a.type = "execute_recovery"
  <2>1. Carried(w) = Carried(v) \cup {b}
    BY <1>4 DEF FinishedRow, Carried, ActionsOfType
  <2>2. b \notin Carried(v)
    BY <1>2, <1>4 DEF FinishedRow, Countable, Carried, ActionsOfType
  <2>3. Cardinality(Carried(v) \cup {b}) = Cardinality(Carried(v)) + 1
    BY <2>2, CarriedIsFinite, FS_AddElement
  <2> QED  BY <1>3, <1>4, <2>1, <2>3
<1>5. CASE a.type # "execute_recovery"
  BY <1>3, <1>5 DEF FinishedRow, Carried, ActionsOfType
<1> QED  BY <1>4, <1>5

\* A step that carries nothing out and does not bring the request back to its start.
LEMMA QuietAccounts ==
  ASSUME RInv, LInv', UNCHANGED << db, remedies, crashes >>, Spent => Spent',
         Quiet(tx, tx') \/ \E b : ClosedRow(tx, tx', b)
  PROVE  RInv'
<1>1. Countable(tx') /\ Carried(tx') = Carried(tx)
  BY QuietCounts DEF RInv
<1> QED  BY <1>1 DEF RInv, Accounts, Carried, ActionsOfType, Countable

\* The same for a step of the loop.
LEMMA DrivingAccounts ==
  ASSUME RInv, LInv', Driving, NoEffect,
         Quiet(tx, tx') \/ \E b : ClosedRow(tx, tx', b)
  PROVE  RInv'
<1>1. Done(tx', "execute_recovery") = Done(tx, "execute_recovery")
  <2>1. CASE Quiet(tx, tx')
    BY <2>1, QuietRow DEF RInv, LInv
  <2>2. CASE \E b : ClosedRow(tx, tx', b)
    BY <2>2 DEF ClosedRow, Done, ActionsOfType
  <2> QED  BY <2>1, <2>2
<1>2. Spent => Spent'
  BY <1>1 DEF Spent, Driving
<1> QED  BY <1>2, QuietAccounts DEF NoEffect

LEMMA FinishAccounts ==
  ASSUME RInv, LInv', FinishExecution
  PROVE  RInv'
<1>1. PICK a, b : \E outcome \in OutcomeKinds : Finished(a, b, outcome)
  BY FinishExecutionWay DEF RInv, LInv
<1>2. PICK outcome \in OutcomeKinds : Finished(a, b, outcome)
  BY <1>1
<1>3. /\ FinishedRow(tx, tx', a, b) /\ b.status = StatusAfter(outcome)
      /\ b.status # "succeeded" => req'.phase = "finished"
      /\ remedies' = Applied(remedies, a, "execute_recovery", outcome)
      /\ UNCHANGED << db, crashes >> /\ req.phase = "executing"
  BY <1>2 DEF Finished, FinishExecution
<1>4. /\ Countable(tx')
      /\ a.type = "execute_recovery" => Cardinality(Carried(tx')) = Cardinality(Carried(tx)) + 1
      /\ a.type # "execute_recovery" => Carried(tx') = Carried(tx)
  BY <1>3, FinishedCounts DEF RInv
<1>5. /\ Cardinality(Carried(tx)) \in Nat /\ Cardinality(Carried(db)) \in Nat
      /\ Cardinality(Carried(tx')) \in Nat /\ crashes \in Nat
      /\ remedies \in Seq(Actions) /\ Len(remedies) \in Nat
  BY <1>4, CarriedIsFinite DEF RInv, LInv, IInv, TypeOK
<1>6. /\ a \in tx.actions /\ a \in Actions /\ a.status = "executing"
      /\ tx'.actions = (tx.actions \ {a}) \cup {b} /\ b.type = a.type
  BY <1>3 DEF FinishedRow, RInv, LInv, IInv, TypeOK, CaseRows
<1>7. CASE a.type # "execute_recovery" \/ outcome = "failed"
  <2>1. remedies' = remedies
    BY <1>3, <1>7 DEF Applied
  <2>2. Done(tx, "execute_recovery") # {} => Done(tx', "execute_recovery") # {}
    BY <1>6 DEF Done, ActionsOfType
  <2>3. Spent => Spent'
    BY <1>3, <2>2 DEF Spent
  <2>4. Cardinality(Carried(tx)) <= Cardinality(Carried(tx'))
    BY <1>4, <1>5
  <2>5. Accounts'
    BY <1>3, <1>5, <2>1, <2>3, <2>4 DEF RInv, Accounts, Carried, ActionsOfType
  <2> QED  BY <1>3, <1>4, <2>5 DEF RInv, Countable, ActionsOfType
<1>8. CASE a.type = "execute_recovery" /\ outcome # "failed"
  <2>1. Len(remedies') = Len(remedies) + 1
    BY <1>3, <1>5, <1>6, <1>8, LedgerGrows DEF Applied
  <2>2. Done(tx, "execute_recovery") = {}
    <3>1. OneSuccess(tx)
      BY DEF RInv, LInv, IInv, Sound
    <3>2. a \in ActionsOfType(tx, "execute_recovery") /\ a.status \in LiveStatuses
      BY <1>6, <1>8 DEF ActionsOfType, LiveStatuses
    <3>3. \A d \in Done(tx, "execute_recovery") : d = a
      BY <3>1, <3>2 DEF OneSuccess
    <3> QED  BY <1>6, <3>3 DEF Done
  <2>3. ~Spent
    BY <1>3, <2>2 DEF Spent
  <2>4. Spent'
    <3>1. b.status = "succeeded" => b \in Done(tx', "execute_recovery")
      BY <1>6, <1>8 DEF Done, ActionsOfType
    <3> QED  BY <1>3, <3>1 DEF Spent
  <2>5. Accounts'
    BY <1>3, <1>4, <1>5, <1>8, <2>1, <2>3, <2>4 DEF RInv, Accounts, Carried, ActionsOfType
  <2> QED  BY <1>3, <1>4, <2>5 DEF RInv, Countable, ActionsOfType
<1> QED  BY <1>7, <1>8

\* A cycle starts with what is committed.
LEMMA BeginAccounts ==
  ASSUME RInv, LInv', OpenCase \/ AdvanceCase
  PROVE  RInv'
<1>1. PICK v \in CaseRows : BeginCycle(v) /\ v.actions = db.actions
  <2>1. CASE OpenCase
    <3>1. db.actions = {} /\ [NewCase EXCEPT !.opened = TRUE] \in CaseRows
      BY <2>1, NewCaseType DEF OpenCase, RInv, LInv, Opening, CaseRows
    <3>2. [NewCase EXCEPT !.opened = TRUE].actions = {}
      BY DEF NewCase
    <3> QED  BY <2>1, <3>1, <3>2 DEF OpenCase
  <2>2. CASE AdvanceCase
    BY <2>2 DEF AdvanceCase, RInv, LInv, IInv, TypeOK
  <2> QED  BY <2>1, <2>2
<1>2. tx'.actions = db.actions
  BY <1>1, BeginCycleWay DEF RInv, LInv, KeptRow
<1>3. tx = db /\ UNCHANGED << db, remedies, crashes >>
  BY DEF OpenCase, AdvanceCase, RInv, LInv, AtRest
<1>4. Carried(tx') = Carried(db) /\ Countable(tx')
  BY <1>2 DEF Carried, ActionsOfType, RInv, Countable
<1>5. Cardinality(Carried(db)) \in Nat /\ crashes \in Nat /\ Len(remedies) \in Nat
  BY CarriedIsFinite DEF RInv, LInv, IInv, TypeOK
<1>6. Len(remedies) <= crashes + Cardinality(Carried(db))
  BY <1>3 DEF RInv, Accounts
<1>7. Carried(db') = Carried(db) /\ Countable(db')
  BY <1>3 DEF RInv
<1>8. Accounts'
  BY <1>3, <1>4, <1>5, <1>6, <1>7 DEF Accounts
<1> QED  BY <1>4, <1>7, <1>8 DEF RInv

LEMMA DecisionAccounts ==
  ASSUME RInv, LInv', Approve \/ Reject
  PROVE  RInv'
<1>1. PICK a \in db.actions, user \in Users, status \in {"approved", "rejected"} :
        MayDecide(user, a) /\ db' = WithDecision(db, a, status, user)
  BY DEF Approve, Reject
<1>2. Quiet(db, db')
  BY <1>1, DecisionWay DEF RInv, LInv, Quiet
<1>3. Countable(db') /\ Carried(db') = Carried(db)
  BY <1>2, QuietCounts DEF RInv
<1>4. tx = db /\ tx' = db' /\ UNCHANGED << remedies, crashes >>
  BY DEF Approve, Reject, RInv, LInv, AtRest
<1>5. Cardinality(Carried(db)) \in Nat /\ crashes \in Nat /\ Len(remedies) \in Nat
  BY CarriedIsFinite DEF RInv, LInv, IInv, TypeOK
<1>6. Len(remedies) <= crashes + Cardinality(Carried(db))
  BY <1>4 DEF RInv, Accounts
<1>7. Accounts'
  BY <1>3, <1>4, <1>5, <1>6 DEF Accounts
<1> QED  BY <1>3, <1>4, <1>7 DEF RInv

LEMMA EndAccounts ==
  ASSUME RInv, LInv', Commit \/ Crash \/ UNCHANGED vars
  PROVE  RInv'
<1>1. /\ Cardinality(Carried(db)) \in Nat /\ Cardinality(Carried(tx)) \in Nat
      /\ crashes \in Nat /\ Len(remedies) \in Nat
  BY CarriedIsFinite DEF RInv, LInv, IInv, TypeOK
<1>2. CASE Commit
  <2>1. db' = tx /\ tx' = tx /\ remedies' = remedies /\ crashes' = crashes
    BY <1>2 DEF Commit
  <2> QED  BY <1>1, <2>1 DEF RInv, Accounts
<1>3. CASE Crash
  <2>1. db' = db /\ tx' = db /\ remedies' = remedies /\ crashes' = crashes + 1
    BY <1>3 DEF Crash
  <2> QED  BY <1>1, <2>1 DEF RInv, Accounts
<1>4. CASE UNCHANGED vars
  BY <1>4 DEF vars, RInv, Accounts, Carried, ActionsOfType, Countable, Spent, Done
<1> QED  BY <1>2, <1>3, <1>4

LEMMA RNext ==
  ASSUME RInv, [Next]_vars
  PROVE  RInv'
<1>0. LInv' /\ LInv /\ IInv
  BY LNext DEF RInv, LInv
<1>1. CASE ReturnLiveAction
  <2>1. Quiet(tx, tx')
    BY <1>0, <1>1, ReturnLiveActionWay DEF LInv, Quiet
  <2> QED  BY <1>0, <1>1, <2>1, DrivingAccounts DEF ReturnLiveAction
<1>2. CASE RequestAnyEvidence
  BY <1>0, <1>2, RequestAnyEvidenceWay, DrivingAccounts DEF RequestAnyEvidence, Deciding, Quiet
<1>3. CASE RequestMissingEvidence
  BY <1>0, <1>3, RequestMissingEvidenceWay, DrivingAccounts
     DEF RequestMissingEvidence, Deciding, Quiet
<1>4. CASE RunAnalysis
  BY <1>0, <1>4, RunAnalysisWay, DrivingAccounts DEF RunAnalysis, Deciding, Quiet
<1>5. CASE EscalateItsm
  BY <1>0, <1>5, EscalateItsmWay, DrivingAccounts DEF EscalateItsm, Deciding, Quiet
<1>6. CASE ProposeRecovery
  BY <1>0, <1>6, ProposeRecoveryWay, DrivingAccounts DEF ProposeRecovery, Deciding, Quiet
<1>7. CASE RecoveryOptionsExhausted
  BY <1>0, <1>7, NoneWay, DrivingAccounts DEF RecoveryOptionsExhausted, Deciding, Quiet
<1>8. CASE NotifyCustomer
  BY <1>0, <1>8, NotifyCustomerWay, DrivingAccounts DEF NotifyCustomer, Deciding, Quiet
<1>9. CASE CloseCase
  BY <1>0, <1>9, CloseCaseWay, DrivingAccounts DEF CloseCase, Deciding
<1>10. CASE NothingToDo
  BY <1>0, <1>10, NoneWay, DrivingAccounts DEF NothingToDo, Deciding, Quiet
<1>11. CASE FinishExecution  BY <1>0, <1>11, FinishAccounts
<1>12. CASE OpenCase \/ AdvanceCase  BY <1>0, <1>12, BeginAccounts
<1>13. CASE Approve \/ Reject  BY <1>0, <1>13, DecisionAccounts
<1>14. CASE Commit \/ Crash \/ UNCHANGED vars  BY <1>0, <1>14, EndAccounts
<1> QED
  BY <1>1, <1>2, <1>3, <1>4, <1>5, <1>6, <1>7, <1>8, <1>9, <1>10, <1>11, <1>12, <1>13, <1>14
     DEF Next, ServerStep

\* The remedies carried out are never more than the rows of the case account for, but for one
\* that each crash may have rolled back.
THEOREM NoRemedyUnaccounted == Spec => []RemediesAccounted
<1>1. Init => RInv
  <2> SUFFICES ASSUME Init PROVE RInv
    OBVIOUS
  <2>1. /\ db = NewCase /\ tx = NewCase /\ remedies = << >> /\ crashes = 0
        /\ NewCase.actions = {}
    BY DEF Init, NewCase
  <2>2. Carried(NewCase) = {} /\ Countable(NewCase)
    BY <2>1, FS_EmptySet DEF Carried, ActionsOfType, Countable
  <2>3. Accounts
    BY <2>1, <2>2, FS_EmptySet DEF Accounts
  <2> QED  BY <2>1, <2>2, <2>3, LInit DEF RInv
<1>2. RInv /\ [Next]_vars => RInv'  BY RNext
<1>3. RInv => RemediesAccounted
  BY DEF RInv, Accounts, Carried, RemediesAccounted
<1> QED  BY <1>1, <1>2, <1>3, PTL DEF Spec
=============================================================================
