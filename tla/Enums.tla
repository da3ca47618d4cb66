------------------------------- MODULE Enums -------------------------------
(***************************************************************************)
(* The enumerations every engine branches on, from                         *)
(* src/backend/app/models/enums.py, and the order of the nine journey      *)
(* stages from engine/stage.py.  A stage is represented by its index.      *)
(***************************************************************************)
EXTENDS Integers

CaseStatus == {"open", "investigating", "pending_evidence", "pending_approval",
               "action_in_progress", "pending_customer_update", "closed", "reopened"}

ActionType == {"request_evidence", "run_analysis", "execute_recovery",
               "escalate_itsm", "notify_customer", "close_case"}

ActionStatus == {"proposed", "pending_approval", "approved", "rejected",
                 "executing", "succeeded", "failed", "needs_manual_review"}

UserRole == {"agent", "supervisor", "finance_approver", "admin"}

\* nba_engine.LIVE_STATUSES: an action that is still in flight.
LiveStatuses == {"proposed", "pending_approval", "approved", "executing"}

\* case_service.STALLING_STATUSES: a result that ends the automatic loop.
StallingStatuses == {"pending_approval", "needs_manual_review", "failed"}

\* stage.STAGE_ORDER, by index.
IssueReported         == 0
JourneyAssembled      == 1
FailureLocated        == 2
EvidenceChecked       == 3
ImpactAssessed        == 4
RecoveryOptionsRanked == 5
ActionsCoordinated    == 6
CustomerUpdated       == 7
OutcomeRetained       == 8
Stages == IssueReported .. OutcomeRetained

\* stage.advance_stage: forward only, anything else is ignored.
LaterStage(old, new) == IF new <= old THEN old ELSE new
=============================================================================
