------------------------------ MODULE Executor ------------------------------
(***************************************************************************)
(* tools/executor.py: one action executed against its connector with       *)
(* bounded attempts, a timeout on each, and a guard against running again  *)
(* what has succeeded.                                                     *)
(*                                                                         *)
(* A request to the connector lives on in the outside world when its       *)
(* attempt has timed out or when the process has died: the effect may      *)
(* still take place.  A connector that reports or raises a failure says    *)
(* nothing of the effect either (Freshservice turns every httpx error, a   *)
(* read timeout after the incident was created included, into a failure).  *)
(* The rows of an execution are flushed inside the transaction of the HTTP *)
(* request and committed at its end.                                       *)
(***************************************************************************)
EXTENDS Naturals, Sequences

CONSTANTS
  MaxAttempts,  \* MAX_ATTEMPTS
  MaxCalls      \* bound: calls of execute_action for this action

ASSUME AttemptsAssumption == MaxAttempts \in Nat \ {0}
ASSUME CallsAssumption == MaxCalls \in Nat

VARIABLES
  saved,     \* the committed rows: status of the action, its tool executions
  status,    \* the status as the session sees it
  execs,     \* tool_executions of the action as the session sees them, oldest first
  pc,        \* where execute_action is
  attempt,   \* number of the current attempt
  result,    \* what the last attempt returned, if it returned a success
  requests,  \* the requests the connector has received, over all calls
  calls      \* calls of execute_action so far

vars == << saved, status, execs, pc, attempt, result, requests, calls >>

RowStatus == {"pending", "success", "failed", "timeout"}
Succeeded(rows) == \E i \in DOMAIN rows : rows[i] = "success"

Init ==
  /\ saved = [status |-> "approved", execs |-> << >>]
  /\ status = "approved"
  /\ execs = << >>
  /\ pc = "idle"
  /\ attempt = 0
  /\ result = "none"
  /\ requests = << >>
  /\ calls = 0

-----------------------------------------------------------------------------
(* The outside world: a request is acted upon once, at any time.           *)

ConnectorApplies ==
  /\ \E i \in DOMAIN requests :
       /\ requests[i] = "received"
       /\ requests' = [requests EXCEPT ![i] = "applied"]
  /\ UNCHANGED << saved, status, execs, pc, attempt, result, calls >>

-----------------------------------------------------------------------------
(* execute_action.                                                         *)

\* The next attempt: its row is written, then the connector is called.
Attempt(n) ==
  /\ attempt' = n
  /\ execs' = Append(execs, "pending")
  /\ requests' = Append(requests, "received")
  /\ pc' = "calling"

\* Mutants: the guard looks at the status; there is no guard.
CallByStatus ==
  /\ pc = "idle" /\ calls < MaxCalls
  /\ calls' = calls + 1
  /\ status # "succeeded"
  /\ status' = "executing"
  /\ result' = "none"
  /\ Attempt(1)
  /\ UNCHANGED saved
CallUnguarded ==
  /\ pc = "idle" /\ calls < MaxCalls
  /\ calls' = calls + 1
  /\ status' = "executing"
  /\ result' = "none"
  /\ Attempt(1)
  /\ UNCHANGED saved

Call ==
  /\ pc = "idle" /\ calls < MaxCalls
  /\ calls' = calls + 1
  /\ ~Succeeded(execs)
  /\ status' = "executing"
  /\ result' = "none"
  /\ Attempt(1)
  /\ UNCHANGED saved

\* A call for what has succeeded returns the action as it is.
CallAgain ==
  /\ pc = "idle" /\ calls < MaxCalls
  /\ calls' = calls + 1
  /\ Succeeded(execs)
  /\ UNCHANGED << saved, status, execs, pc, attempt, result, requests >>

WithRow(row) == [execs EXCEPT ![Len(execs)] = row]

\* The connector answers with a success, with or without a need for manual review.
Answers(outcome) ==
  /\ pc = "calling"
  /\ requests[Len(requests)] = "applied"
  /\ execs' = WithRow("success")
  /\ result' = outcome
  /\ pc' = "settling"
  /\ UNCHANGED << saved, status, attempt, requests, calls >>

Succeeds == Answers("success")
SucceedsInPart == Answers("review")

\* Mutant: one attempt too many.
FailsOnceMore ==
  /\ pc = "calling"
  /\ \E row \in {"failed", "timeout"} : execs' = WithRow(row)
  /\ result' = "none"
  /\ pc' = IF attempt <= MaxAttempts THEN "waiting" ELSE "settling"
  /\ UNCHANGED << saved, status, attempt, requests, calls >>

\* It answers with a failure or raises ("failed"), or does not answer in time ("timeout").
Fails ==
  /\ pc = "calling"
  /\ \E row \in {"failed", "timeout"} : execs' = WithRow(row)
  /\ result' = "none"
  /\ pc' = IF attempt < MaxAttempts THEN "waiting" ELSE "settling"
  /\ UNCHANGED << saved, status, attempt, requests, calls >>

\* Mutant: the attempts of a call are not counted.
RetryForever ==
  /\ pc = "waiting"
  /\ Attempt(attempt)
  /\ UNCHANGED << saved, status, result, calls >>

\* After the backoff.
Retry ==
  /\ pc = "waiting"
  /\ Attempt(attempt + 1)
  /\ UNCHANGED << saved, status, result, calls >>

\* Mutants: without an answer the action is left as it is; the last attempt is not looked at.
SettleWithAnswer ==
  /\ pc = "settling" /\ result # "none"
  /\ status' = IF result = "review" THEN "needs_manual_review" ELSE "succeeded"
  /\ pc' = "settled"
  /\ UNCHANGED << saved, execs, attempt, result, requests, calls >>
SettleOptimistic ==
  /\ pc = "settling"
  /\ status' = IF result = "review" THEN "needs_manual_review" ELSE "succeeded"
  /\ pc' = "settled"
  /\ UNCHANGED << saved, execs, attempt, result, requests, calls >>

Settle ==
  /\ pc = "settling"
  /\ status' = CASE result = "success" -> "succeeded"
                 [] result = "review"  -> "needs_manual_review"
                 [] OTHER              -> "failed"
  /\ pc' = "settled"
  /\ UNCHANGED << saved, execs, attempt, result, requests, calls >>

-----------------------------------------------------------------------------
(* The transaction around it.                                              *)

Commit ==
  /\ pc = "settled"
  /\ saved' = [status |-> status, execs |-> execs]
  /\ pc' = "idle"
  /\ UNCHANGED << status, execs, attempt, result, requests, calls >>

Crash ==
  /\ pc # "idle"
  /\ status' = saved.status
  /\ execs' = saved.execs
  /\ pc' = "idle"
  /\ UNCHANGED << saved, attempt, result, requests, calls >>

\* What the event loop does by itself; the connector is cut off by the timeout.
Progress == Succeeds \/ SucceedsInPart \/ Fails \/ Retry \/ Settle \/ Commit

Next == Call \/ CallAgain \/ ConnectorApplies \/ Progress \/ Crash

Spec == Init /\ [][Next]_vars /\ WF_vars(Progress)

-----------------------------------------------------------------------------
(* Properties.                                                             *)

Statuses == {"approved", "executing", "succeeded", "needs_manual_review", "failed"}

\* Every variable holds what its column or local can hold.
TypeOK ==
  /\ saved \in [status : Statuses \ {"executing"}, execs : Seq(RowStatus)]
  /\ status \in Statuses
  /\ execs \in Seq(RowStatus)
  /\ pc \in {"idle", "calling", "waiting", "settling", "settled"}
  /\ attempt \in 0 .. MaxAttempts
  /\ result \in {"none", "success", "review"}
  /\ requests \in Seq({"received", "applied"})
  /\ calls \in 0 .. MaxCalls

\* The executor never runs again what has succeeded: in the rows of an action a success is the
\* last attempt ever made, through retries, repeated calls and restarts.
SuccessIsLast ==
  \A i \in DOMAIN execs : execs[i] = "success" => i = Len(execs)

\* The committed status tells what the committed attempts say, so that the engine, which
\* reads the status, and the guard, which reads the attempts, agree.
StatusAgreesWithAttempts ==
  /\ saved.status \in {"succeeded", "needs_manual_review"} <=> Succeeded(saved.execs)
  /\ saved.status = "failed" =>
       Len(saved.execs) >= MaxAttempts /\ \A i \in DOMAIN saved.execs : saved.execs[i] # "pending"

\* A call makes at most MaxAttempts requests, whatever was rolled back between calls.
RequestsBounded ==
  Len(requests) <= MaxAttempts * calls

\* A call that has been taken up ends, however the connector behaves.
CallEnds ==
  pc # "idle" ~> pc = "idle"

\* The execution as the rest of the system sees it.
Abstract ==
  INSTANCE ActionExecution WITH
    status  <- saved.status,
    running <- pc # "idle",
    begun   <- requests # << >>,
    applied <- \E i \in DOMAIN requests : requests[i] = "applied"

\* The executor keeps the promise of ActionExecution: a success that is committed stands for an
\* effect, and what has succeeded is not run again.
KeepsThePromise == Abstract!Spec

\* models/action.py: the external system is stopped from processing an action twice, retries
\* included.
EffectOnce ==
  \A i, j \in DOMAIN requests :
    requests[i] = "applied" /\ requests[j] = "applied" => i = j
=============================================================================
