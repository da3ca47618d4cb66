--------------------------- MODULE ExecutorProofs ---------------------------
(***************************************************************************)
(* The executor keeps its promise for every number of attempts and calls.  *)
(*                                                                         *)
(* The guard of execute_action reads the attempts, the abstract action is  *)
(* judged by its status.  The two agree because the session starts from    *)
(* the committed rows (InSession), an attempt is only made while none has  *)
(* succeeded (Trying), and what is settled is what the last attempt said   *)
(* (Settling).                                                             *)
(***************************************************************************)
EXTENDS Executor, TLAPS

Effective == {"succeeded", "needs_manual_review"}

HasEffect == \E i \in DOMAIN requests : requests[i] = "applied"

LastOnly(rows) == \A i \in DOMAIN rows : rows[i] = "success" => i = Len(rows)

InSession == pc = "idle" => status = saved.status /\ execs = saved.execs

Trying ==
  /\ pc \in {"calling", "waiting"} => ~Succeeded(execs)
  /\ pc = "calling" => execs # << >>
  /\ pc = "waiting" => attempt < MaxAttempts
  /\ pc # "idle" => requests # << >>

Settling ==
  /\ pc \in {"settling", "settled"} =>
       /\ Succeeded(execs) <=> result # "none"
       /\ result # "none" => HasEffect
  /\ pc = "settled" =>
       /\ status \in Effective \cup {"failed"}
       /\ status \in Effective <=> result # "none"

Agreed == saved.status \in Effective <=> Succeeded(saved.execs)

EInv ==
  /\ TypeOK
  /\ InSession
  /\ Trying
  /\ Settling
  /\ Agreed
  /\ LastOnly(execs)
  /\ LastOnly(saved.execs)

-----------------------------------------------------------------------------

LEMMA InitKeeps ==
  ASSUME Init
  PROVE  EInv
<1>1. TypeOK
  BY AttemptsAssumption, CallsAssumption DEF Init, TypeOK, Statuses, RowStatus
<1>2. /\ execs = << >> /\ saved.execs = << >> /\ status = saved.status
      /\ saved.status = "approved" /\ pc = "idle"
  BY DEF Init
<1> QED
  BY <1>1, <1>2 DEF EInv, InSession, Trying, Settling, Agreed, LastOnly, Succeeded, Effective

\* A new attempt adds a pending row; nothing that has not succeeded before has then.
LEMMA AttemptRow ==
  ASSUME NEW rows \in Seq(RowStatus), ~Succeeded(rows)
  PROVE  /\ Append(rows, "pending") \in Seq(RowStatus)
         /\ Append(rows, "pending") # << >>
         /\ ~Succeeded(Append(rows, "pending"))
         /\ LastOnly(Append(rows, "pending"))
<1>1. "pending" \in RowStatus  BY DEF RowStatus
<1> QED  BY <1>1 DEF Succeeded, LastOnly

\* The result of an attempt overwrites the last row.
LEMMA ResultRow ==
  ASSUME NEW rows \in Seq(RowStatus), rows # << >>, ~Succeeded(rows), NEW row \in RowStatus
  PROVE  /\ [rows EXCEPT ![Len(rows)] = row] \in Seq(RowStatus)
         /\ Succeeded([rows EXCEPT ![Len(rows)] = row]) <=> row = "success"
         /\ LastOnly([rows EXCEPT ![Len(rows)] = row])
<1> DEFINE new == [rows EXCEPT ![Len(rows)] = row]
<1>1. Len(rows) \in DOMAIN rows  OBVIOUS
<1>2. new \in Seq(RowStatus) /\ Len(new) = Len(rows) /\ DOMAIN new = DOMAIN rows
  OBVIOUS
<1>3. new[Len(rows)] = row /\ \A i \in DOMAIN rows : i # Len(rows) => new[i] = rows[i]
  BY <1>1
<1> HIDE DEF new
<1>4. Succeeded(new) <=> row = "success"
  BY <1>1, <1>2, <1>3 DEF Succeeded
<1>5. LastOnly(new)
  BY <1>2, <1>3 DEF Succeeded, LastOnly
<1> QED  BY <1>2, <1>4, <1>5 DEF new

\* What a call or a retry leaves behind.
LEMMA AttemptKeeps ==
  ASSUME EInv, NEW n \in 1 .. MaxAttempts, Attempt(n), ~Succeeded(execs),
         saved' = saved, status' \in Statuses, result' \in {"none", "success", "review"},
         calls' \in 0 .. MaxCalls
  PROVE  EInv'
<1>1. execs \in Seq(RowStatus) /\ requests \in Seq({"received", "applied"})
  BY DEF EInv, TypeOK
<1>2. /\ execs' \in Seq(RowStatus) /\ execs' # << >> /\ ~Succeeded(execs')
      /\ LastOnly(execs')
  BY <1>1, AttemptRow DEF Attempt
<1>3. requests' \in Seq({"received", "applied"}) /\ requests' # << >>
  BY <1>1 DEF Attempt
<1>4. attempt' \in 0 .. MaxAttempts
  BY AttemptsAssumption DEF Attempt
<1>5. pc' = "calling"  BY DEF Attempt
<1>6. TypeOK'
  BY <1>2, <1>3, <1>4, <1>5 DEF EInv, TypeOK
<1>7. InSession' /\ Trying' /\ Settling'
  BY <1>2, <1>3, <1>5 DEF InSession, Trying, Settling, Succeeded
<1> QED
  BY <1>2, <1>6, <1>7 DEF EInv, Agreed, LastOnly, Succeeded

LEMMA CallKeeps ==
  ASSUME EInv, Call
  PROVE  EInv'
<1>1. 1 \in 1 .. MaxAttempts  BY AttemptsAssumption
<1>2. calls' \in 0 .. MaxCalls
  BY CallsAssumption DEF Call, EInv, TypeOK
<1>3. /\ Attempt(1) /\ ~Succeeded(execs) /\ saved' = saved
      /\ status' = "executing" /\ result' = "none"
  BY DEF Call
<1>4. status' \in Statuses  BY <1>3 DEF Statuses
<1> QED  BY <1>1, <1>2, <1>3, <1>4, AttemptKeeps

LEMMA RetryKeeps ==
  ASSUME EInv, Retry
  PROVE  EInv'
<1>1. attempt + 1 \in 1 .. MaxAttempts
  BY AttemptsAssumption DEF Retry, EInv, TypeOK, Trying
<1>2. /\ Attempt(attempt + 1) /\ ~Succeeded(execs)
      /\ saved' = saved /\ status' = status /\ result' = result /\ calls' = calls
  BY DEF Retry, EInv, Trying
<1>3. /\ status' \in Statuses /\ result' \in {"none", "success", "review"}
      /\ calls' \in 0 .. MaxCalls
  BY <1>2 DEF EInv, TypeOK
<1> QED  BY <1>1, <1>2, <1>3, AttemptKeeps

LEMMA AnswersKeeps ==
  ASSUME EInv, NEW outcome \in {"success", "review"}, Answers(outcome)
  PROVE  EInv'
<1>1. /\ execs \in Seq(RowStatus) /\ execs # << >> /\ ~Succeeded(execs)
      /\ requests \in Seq({"received", "applied"}) /\ requests # << >>
  BY DEF EInv, TypeOK, Trying, Answers
<1>2. "success" \in RowStatus  BY DEF RowStatus
<1>3. execs' \in Seq(RowStatus) /\ Succeeded(execs') /\ LastOnly(execs')
  <2>1. execs' = [execs EXCEPT ![Len(execs)] = "success"]
    BY DEF Answers, WithRow
  <2> QED  BY <1>1, <1>2, <2>1, ResultRow
<1>4. pc' = "settling" /\ result' = outcome /\ result' # "none"
  BY DEF Answers
<1>5. HasEffect'
  <2>1. Len(requests) \in DOMAIN requests  BY <1>1
  <2>2. requests' = requests /\ requests[Len(requests)] = "applied"
    BY DEF Answers
  <2> QED  BY <2>1, <2>2 DEF HasEffect
<1>6. TypeOK'
  BY <1>3, <1>4 DEF Answers, EInv, TypeOK
<1>7. requests' # << >>
  BY <1>1 DEF Answers
<1>8. InSession' /\ Trying' /\ Settling'
  BY <1>3, <1>4, <1>5, <1>7 DEF InSession, Trying, Settling
<1> QED
  BY <1>3, <1>6, <1>8 DEF EInv, Answers, Agreed, LastOnly, Succeeded

LEMMA FailsKeeps ==
  ASSUME EInv, Fails
  PROVE  EInv'
<1>1. /\ execs \in Seq(RowStatus) /\ execs # << >> /\ ~Succeeded(execs)
  BY DEF EInv, TypeOK, Trying, Fails
<1>2. PICK row \in {"failed", "timeout"} : execs' = [execs EXCEPT ![Len(execs)] = row]
  BY DEF Fails, WithRow
<1>3. row \in RowStatus /\ row # "success"  BY DEF RowStatus
<1>4. execs' \in Seq(RowStatus) /\ ~Succeeded(execs') /\ LastOnly(execs')
  BY <1>1, <1>2, <1>3, ResultRow
<1>5. /\ result' = "none"
      /\ \/ pc' = "waiting" /\ attempt < MaxAttempts
         \/ pc' = "settling"
  BY DEF Fails
<1>6. TypeOK'
  BY <1>4, <1>5 DEF Fails, EInv, TypeOK
<1>7. requests' # << >>
  BY DEF EInv, Trying, Fails
<1>8. attempt' = attempt /\ execs' # << >>
  <2>1. Len([execs EXCEPT ![Len(execs)] = row]) = Len(execs)
    BY <1>1, <1>3
  <2> QED  BY <1>1, <1>2, <2>1 DEF Fails
<1>9. InSession' /\ Trying' /\ Settling'
  BY <1>4, <1>5, <1>7, <1>8 DEF InSession, Trying, Settling
<1> QED
  BY <1>4, <1>6, <1>9 DEF EInv, Fails, Agreed, LastOnly, Succeeded

LEMMA SettleKeeps ==
  ASSUME EInv, Settle
  PROVE  EInv'
<1>1. result \in {"none", "success", "review"}  BY DEF EInv, TypeOK
<1>2. /\ status' \in Effective \cup {"failed"}
      /\ status' \in Effective <=> result # "none"
  BY <1>1 DEF Settle, Effective
<1>3. TypeOK'
  BY <1>2 DEF Settle, EInv, TypeOK, Statuses, Effective
<1>4. InSession' /\ Trying' /\ Settling'
  BY <1>2 DEF Settle, EInv, InSession, Trying, Settling, Succeeded, HasEffect
<1> QED
  BY <1>3, <1>4 DEF EInv, Settle, Agreed, LastOnly, Succeeded

LEMMA CommitKeeps ==
  ASSUME EInv, Commit
  PROVE  EInv'
<1>1. saved'.status = status /\ saved'.execs = execs
  BY DEF Commit
<1>2. TypeOK'
  BY DEF Commit, EInv, TypeOK, Settling, Effective, Statuses
<1>3. InSession' /\ Trying' /\ Settling'
  BY <1>1 DEF Commit, InSession, Trying, Settling
<1>4. Agreed'
  BY <1>1 DEF Commit, EInv, Settling, Agreed, Succeeded
<1> QED
  BY <1>1, <1>2, <1>3, <1>4 DEF EInv, Commit, LastOnly

LEMMA CrashKeeps ==
  ASSUME EInv, Crash
  PROVE  EInv'
<1>1. TypeOK'
  BY DEF Crash, EInv, TypeOK
<1>2. InSession' /\ Trying' /\ Settling'
  BY DEF Crash, InSession, Trying, Settling
<1> QED
  BY <1>1, <1>2 DEF EInv, Crash, Agreed, LastOnly, Succeeded

LEMMA AppliesKeeps ==
  ASSUME EInv, ConnectorApplies
  PROVE  EInv' /\ requests # << >> /\ HasEffect'
<1>1. PICK i \in DOMAIN requests : requests' = [requests EXCEPT ![i] = "applied"]
  BY DEF ConnectorApplies
<1>2. requests \in Seq({"received", "applied"})  BY DEF EInv, TypeOK
<1>3. requests' \in Seq({"received", "applied"}) /\ requests' # << >> /\ requests # << >>
  BY <1>1, <1>2
<1>4. HasEffect'
  BY <1>1, <1>2 DEF HasEffect
<1>5. TypeOK'
  BY <1>3 DEF ConnectorApplies, EInv, TypeOK
<1>6. InSession' /\ Trying' /\ Settling'
  BY <1>3, <1>4 DEF ConnectorApplies, EInv, InSession, Trying, Settling, Succeeded
<1> QED
  BY <1>3, <1>4, <1>5, <1>6 DEF EInv, ConnectorApplies, Agreed, LastOnly, Succeeded

LEMMA CallAgainKeeps ==
  ASSUME EInv, CallAgain
  PROVE  EInv'
<1>1. TypeOK'
  BY CallsAssumption DEF CallAgain, EInv, TypeOK
<1> QED
  BY <1>1 DEF EInv, CallAgain, InSession, Trying, Settling, Agreed, LastOnly, Succeeded, HasEffect

LEMMA NextKeeps ==
  ASSUME EInv, [Next]_vars
  PROVE  EInv'
<1>1. CASE Call  BY <1>1, CallKeeps
<1>2. CASE CallAgain  BY <1>2, CallAgainKeeps
<1>3. CASE ConnectorApplies  BY <1>3, AppliesKeeps
<1>4. CASE Succeeds \/ SucceedsInPart
  BY <1>4, AnswersKeeps DEF Succeeds, SucceedsInPart
<1>5. CASE Fails  BY <1>5, FailsKeeps
<1>6. CASE Retry  BY <1>6, RetryKeeps
<1>7. CASE Settle  BY <1>7, SettleKeeps
<1>8. CASE Commit  BY <1>8, CommitKeeps
<1>9. CASE Crash  BY <1>9, CrashKeeps
<1>10. CASE UNCHANGED vars
  BY <1>10 DEF vars, EInv, TypeOK, InSession, Trying, Settling, Agreed, LastOnly, Succeeded, HasEffect
<1> QED
  BY <1>1, <1>2, <1>3, <1>4, <1>5, <1>6, <1>7, <1>8, <1>9, <1>10 DEF Next, Progress

\* The status and the attempts of the action agree in every behaviour.
THEOREM ExecutorInvariant == Spec => []EInv
<1>1. Init => EInv  BY InitKeeps
<1>2. EInv /\ [Next]_vars => EInv'  BY NextKeeps
<1> QED  BY <1>1, <1>2, PTL DEF Spec

\* In the rows of an action a success is the last attempt ever made.
THEOREM NothingAfterSuccess == Spec => []SuccessIsLast
<1>1. EInv => SuccessIsLast  BY DEF EInv, LastOnly, SuccessIsLast
<1> QED  BY <1>1, ExecutorInvariant, PTL

-----------------------------------------------------------------------------
(* The attempts are counted.                                               *)

\* None of the first n rows is pending.
Over(rows, n) == \A i \in DOMAIN rows : i <= n => rows[i] # "pending"

\* Every attempt of the call has its row, and only the one under way is pending.
RowsOfCall ==
  /\ pc = "calling" => attempt <= Len(execs) /\ Over(execs, Len(execs) - 1)
  /\ pc = "waiting" => attempt <= Len(execs)
  /\ pc \in {"settling", "settled"} /\ result = "none" => MaxAttempts <= Len(execs)
  /\ pc # "calling" => Over(execs, Len(execs))

RowsCommitted ==
  /\ Over(saved.execs, Len(saved.execs))
  /\ saved.status = "failed" => MaxAttempts <= Len(saved.execs)

\* What the running call has left is set aside for it.
Budget ==
  /\ Len(requests) <= MaxAttempts * calls
  /\ pc # "idle" => Len(requests) + MaxAttempts <= MaxAttempts * calls + attempt

CInv == EInv /\ RowsOfCall /\ RowsCommitted /\ Budget

LEMMA AppendedAttempt ==
  ASSUME NEW rows \in Seq(RowStatus)
  PROVE  /\ Len(Append(rows, "pending")) = Len(rows) + 1
         /\ Over(rows, Len(rows)) => Over(Append(rows, "pending"), Len(rows))
BY DEF Over

LEMMA OverwrittenAttempt ==
  ASSUME NEW rows \in Seq(RowStatus), rows # << >>, NEW row \in RowStatus \ {"pending"},
         Over(rows, Len(rows) - 1)
  PROVE  /\ Len([rows EXCEPT ![Len(rows)] = row]) = Len(rows)
         /\ Over([rows EXCEPT ![Len(rows)] = row], Len(rows))
BY DEF Over

LEMMA CountedAttempt ==
  ASSUME CInv, EInv', NEW n \in 1 .. MaxAttempts, Attempt(n), pc # "calling",
         n - 1 <= Len(execs), saved' = saved,
         Len(requests) + 1 + MaxAttempts <= MaxAttempts * calls' + n
  PROVE  CInv'
<1>1. /\ execs \in Seq(RowStatus) /\ requests \in Seq({"received", "applied"})
      /\ calls' \in Nat /\ MaxAttempts \in Nat /\ Over(execs, Len(execs))
  BY AttemptsAssumption, CallsAssumption DEF CInv, EInv, TypeOK, RowsOfCall
<1>2. /\ attempt' = n /\ execs' = Append(execs, "pending")
      /\ requests' = Append(requests, "received") /\ pc' = "calling"
  BY DEF Attempt
<1>3. Len(execs') = Len(execs) + 1 /\ Over(execs', Len(execs))
  BY <1>1, <1>2, AppendedAttempt
<1>4. RowsOfCall'
  <2>1. Len(execs') - 1 = Len(execs) /\ n <= Len(execs')
    BY <1>1, <1>3
  <2> QED  BY <1>2, <1>3, <2>1 DEF RowsOfCall
<1>5. Len(requests') = Len(requests) + 1
  BY <1>1, <1>2
<1>6. Budget'
  <2>a. \A m, k \in Nat : m * k \in Nat
    OBVIOUS
  <2>b. calls' \in Nat /\ MaxAttempts \in Nat /\ Len(requests) \in Nat
    BY <1>1
  <2>1. MaxAttempts * calls' \in Nat /\ Len(requests) \in Nat
    BY <2>a, <2>b
  <2> DEFINE total == MaxAttempts * calls'
  <2>2. Len(requests) + 1 + MaxAttempts <= total + n /\ total \in Nat
    BY <2>1
  <2> HIDE DEF total
  <2>3. Len(requests) + 1 <= total
    BY <1>1, <2>1, <2>2
  <2>4. Len(requests') <= total /\ Len(requests') + MaxAttempts <= total + attempt'
    BY <1>1, <1>2, <1>5, <2>1, <2>2, <2>3
  <2> QED  BY <2>4 DEF Budget, total
<1> QED  BY <1>4, <1>6 DEF CInv, RowsCommitted

LEMMA CountedCall ==
  ASSUME CInv, EInv', Call
  PROVE  CInv'
<1>1. /\ MaxAttempts \in Nat \ {0} /\ calls \in Nat /\ requests \in Seq({"received", "applied"})
      /\ execs \in Seq(RowStatus)
  BY AttemptsAssumption, CallsAssumption DEF CInv, EInv, TypeOK
<1>2. pc = "idle" /\ calls' = calls + 1 /\ Attempt(1) /\ saved' = saved
  BY DEF Call
<1>3. MaxAttempts * calls' = MaxAttempts * calls + MaxAttempts
  BY <1>1, <1>2
<1>4. Len(requests) <= MaxAttempts * calls
  BY DEF CInv, Budget
<1>5. Len(requests) + 1 + MaxAttempts <= MaxAttempts * calls' + 1
  <2> DEFINE total == MaxAttempts * calls
  <2>1. total \in Nat /\ Len(requests) \in Nat /\ Len(requests) <= total
    BY <1>1, <1>4
  <2>2. MaxAttempts * calls' = total + MaxAttempts
    BY <1>3
  <2> HIDE DEF total
  <2> QED  BY <1>1, <2>1, <2>2
<1>6. 1 \in 1 .. MaxAttempts /\ 1 - 1 <= Len(execs)
  BY <1>1
<1> QED  BY <1>2, <1>5, <1>6, CountedAttempt

LEMMA CountedRetry ==
  ASSUME CInv, EInv', Retry
  PROVE  CInv'
<1>1. /\ MaxAttempts \in Nat \ {0} /\ attempt \in 0 .. MaxAttempts /\ attempt < MaxAttempts
      /\ requests \in Seq({"received", "applied"}) /\ execs \in Seq(RowStatus)
      /\ attempt <= Len(execs) /\ calls \in Nat
      /\ Len(requests) + MaxAttempts <= MaxAttempts * calls + attempt
  BY AttemptsAssumption, CallsAssumption
     DEF Retry, CInv, EInv, TypeOK, Trying, RowsOfCall, Budget
<1>2. pc = "waiting" /\ calls' = calls /\ Attempt(attempt + 1) /\ saved' = saved
  BY DEF Retry
<1>3. /\ attempt + 1 \in 1 .. MaxAttempts /\ (attempt + 1) - 1 <= Len(execs)
  BY <1>1
<1>4. Len(requests) + 1 + MaxAttempts <= MaxAttempts * calls' + (attempt + 1)
  <2> DEFINE total == MaxAttempts * calls
  <2>1. total \in Nat /\ Len(requests) \in Nat /\ Len(requests) + MaxAttempts <= total + attempt
    BY <1>1
  <2> HIDE DEF total
  <2>2. Len(requests) + 1 + MaxAttempts <= total + (attempt + 1)
    BY <1>1, <2>1
  <2> QED  BY <1>2, <2>2 DEF total
<1> QED  BY <1>2, <1>3, <1>4, CountedAttempt

\* A result takes the place of the pending row.
LEMMA CountedResult ==
  ASSUME CInv, EInv', pc = "calling", pc' \in {"waiting", "settling"},
         NEW row \in RowStatus \ {"pending"}, execs' = WithRow(row),
         pc' = "settling" /\ result' = "none" => attempt >= MaxAttempts,
         UNCHANGED << saved, attempt, requests, calls >>
  PROVE  CInv'
<1>1. /\ execs \in Seq(RowStatus) /\ execs # << >> /\ Over(execs, Len(execs) - 1)
      /\ attempt <= Len(execs) /\ attempt \in Nat /\ MaxAttempts \in Nat
  BY AttemptsAssumption DEF CInv, EInv, TypeOK, Trying, RowsOfCall
<1>2. Len(execs') = Len(execs) /\ Over(execs', Len(execs))
  BY <1>1, OverwrittenAttempt DEF WithRow
<1>3. RowsOfCall'
  BY <1>1, <1>2 DEF RowsOfCall
<1>4. Budget' /\ RowsCommitted'
  BY DEF CInv, Budget, RowsCommitted
<1> QED  BY <1>3, <1>4 DEF CInv

LEMMA CountedEnd ==
  ASSUME CInv, EInv', Settle \/ Commit \/ Crash
  PROVE  CInv'
<1>1. CASE Settle
  <2>1. /\ pc = "settling" /\ pc' = "settled"
        /\ UNCHANGED << saved, execs, attempt, result, requests, calls >>
    BY <1>1 DEF Settle
  <2> QED  BY <2>1 DEF CInv, RowsOfCall, RowsCommitted, Budget
<1>2. CASE Commit
  <2>1. /\ pc = "settled" /\ pc' = "idle" /\ saved'.status = status /\ saved'.execs = execs
        /\ UNCHANGED << execs, attempt, result, requests, calls >>
    BY <1>2 DEF Commit
  <2>2. status = "failed" => result = "none"
    BY <2>1 DEF CInv, EInv, Settling, Effective
  <2> QED  BY <2>1, <2>2 DEF CInv, RowsOfCall, RowsCommitted, Budget
<1>3. CASE Crash
  <2>1. /\ pc' = "idle" /\ execs' = saved.execs /\ UNCHANGED << saved, requests, calls >>
    BY <1>3 DEF Crash
  <2> QED  BY <2>1 DEF CInv, RowsOfCall, RowsCommitted, Budget
<1> QED  BY <1>1, <1>2, <1>3

LEMMA CountedElse ==
  ASSUME CInv, EInv', ConnectorApplies \/ CallAgain \/ UNCHANGED vars
  PROVE  CInv'
<1>1. CASE ConnectorApplies
  <2>1. /\ Len(requests') = Len(requests)
        /\ UNCHANGED << saved, status, execs, pc, attempt, result, calls >>
    BY <1>1 DEF ConnectorApplies, CInv, EInv, TypeOK
  <2> QED  BY <2>1 DEF CInv, RowsOfCall, RowsCommitted, Budget
<1>2. CASE CallAgain
  <2>1. /\ pc = "idle" /\ calls' = calls + 1
        /\ UNCHANGED << saved, status, execs, pc, attempt, result, requests >>
    BY <1>2 DEF CallAgain
  <2>2. /\ MaxAttempts \in Nat /\ calls \in Nat /\ Len(requests) \in Nat
        /\ Len(requests) <= MaxAttempts * calls
    BY AttemptsAssumption, CallsAssumption DEF CInv, EInv, TypeOK, Budget
  <2>3. MaxAttempts * (calls + 1) = MaxAttempts * calls + MaxAttempts /\ MaxAttempts * calls \in Nat
    BY <2>2
  <2> DEFINE total == MaxAttempts * calls
             more == MaxAttempts * (calls + 1)
  <2>4. total \in Nat /\ Len(requests) <= total /\ more = total + MaxAttempts
    BY <2>2, <2>3
  <2> HIDE DEF total, more
  <2>5. Len(requests) <= more
    BY <2>2, <2>4
  <2>6. Budget'
    BY <2>1, <2>5 DEF Budget, more
  <2> QED  BY <2>1, <2>6 DEF CInv, RowsOfCall, RowsCommitted
<1>3. CASE UNCHANGED vars
  BY <1>3 DEF vars, CInv, RowsOfCall, RowsCommitted, Budget
<1> QED  BY <1>1, <1>2, <1>3

LEMMA CountedNext ==
  ASSUME CInv, [Next]_vars
  PROVE  CInv'
<1>0. EInv'  BY NextKeeps DEF CInv
<1>1. CASE Call  BY <1>0, <1>1, CountedCall
<1>2. CASE Retry  BY <1>0, <1>2, CountedRetry
<1>3. CASE Succeeds \/ SucceedsInPart
  <2>1. PICK outcome \in {"success", "review"} : Answers(outcome)
    BY <1>3 DEF Succeeds, SucceedsInPart
  <2>2. "success" \in RowStatus \ {"pending"}
    BY DEF RowStatus
  <2> QED  BY <1>0, <2>1, <2>2, CountedResult DEF Answers
<1>4. CASE Fails
  <2>1. PICK row \in {"failed", "timeout"} : execs' = WithRow(row)
    BY <1>4 DEF Fails
  <2>2. row \in RowStatus \ {"pending"}
    BY DEF RowStatus
  <2>3. attempt \in Nat /\ MaxAttempts \in Nat
    BY AttemptsAssumption DEF CInv, EInv, TypeOK
  <2>4. /\ pc = "calling" /\ pc' = IF attempt < MaxAttempts THEN "waiting" ELSE "settling"
        /\ UNCHANGED << saved, attempt, requests, calls >>
    BY <1>4 DEF Fails
  <2> QED  BY <1>0, <2>1, <2>2, <2>3, <2>4, CountedResult
<1>5. CASE Settle \/ Commit \/ Crash  BY <1>0, <1>5, CountedEnd
<1>6. CASE ConnectorApplies \/ CallAgain \/ UNCHANGED vars  BY <1>0, <1>6, CountedElse
<1> QED  BY <1>1, <1>2, <1>3, <1>4, <1>5, <1>6 DEF Next, Progress

\* Every attempt leaves its row and every call keeps to its attempts, for any number of them.
THEOREM AttemptsAreCounted == Spec => []CInv
<1>1. Init => CInv
  <2> SUFFICES ASSUME Init PROVE CInv
    OBVIOUS
  <2>1. /\ execs = << >> /\ saved.execs = << >> /\ saved.status = "approved" /\ pc = "idle"
        /\ requests = << >> /\ calls = 0
    BY DEF Init
  <2>2. MaxAttempts * calls = 0
    BY <2>1, AttemptsAssumption
  <2> QED  BY <2>1, <2>2, InitKeeps DEF CInv, RowsOfCall, RowsCommitted, Budget, Over
<1>2. CInv /\ [Next]_vars => CInv'  BY CountedNext
<1> QED  BY <1>1, <1>2, PTL DEF Spec

\* Every row of the executor keeps to its type.
THEOREM ExecutorTypes == Spec => []TypeOK
<1>1. EInv => TypeOK  BY DEF EInv
<1> QED  BY <1>1, ExecutorInvariant, PTL

\* The committed status says what the committed attempts say, and a failure that is committed
\* has used up its attempts, none of which is left pending.
THEOREM StatusIsHonest == Spec => []StatusAgreesWithAttempts
<1>1. ASSUME CInv PROVE StatusAgreesWithAttempts
  <2>1. saved.execs \in Seq(RowStatus) /\ MaxAttempts \in Nat
    BY <1>1, AttemptsAssumption DEF CInv, EInv, TypeOK
  <2>2. \A i \in DOMAIN saved.execs : saved.execs[i] # "pending"
    BY <1>1, <2>1 DEF CInv, RowsCommitted, Over
  <2> QED
    BY <1>1, <2>1, <2>2 DEF CInv, EInv, Agreed, Effective, RowsCommitted, StatusAgreesWithAttempts
<1> QED  BY <1>1, AttemptsAreCounted, PTL

\* Calls that are repeated after a crash make at most MaxAttempts requests each.
THEOREM RequestsAreBounded == Spec => []RequestsBounded
<1>1. CInv => RequestsBounded  BY DEF CInv, Budget, RequestsBounded
<1> QED  BY <1>1, AttemptsAreCounted, PTL

-----------------------------------------------------------------------------
(* The executor implements ActionExecution.                                *)

LEMMA InitRefines ==
  ASSUME Init
  PROVE  Abstract!Init
<1>1. /\ saved.status = "approved" /\ pc = "idle" /\ requests = << >>
  BY DEF Init
<1>2. ~HasEffect
  BY <1>1 DEF HasEffect
<1> QED  BY <1>1, <1>2 DEF Abstract!Init, HasEffect

\* A step of the session that neither starts nor ends a call is a stutter.
LEMMA InnerStep ==
  ASSUME EInv, pc # "idle", pc' # "idle", saved' = saved, requests' = requests
  PROVE  UNCHANGED Abstract!vars
BY DEF Abstract!vars

LEMMA AttemptEffect ==
  ASSUME EInv, NEW n, Attempt(n)
  PROVE  /\ requests' # << >> /\ pc' # "idle"
         /\ HasEffect' <=> HasEffect
<1>1. requests \in Seq({"received", "applied"})  BY DEF EInv, TypeOK
<1>2. requests' = Append(requests, "received") /\ pc' = "calling"
  BY DEF Attempt
<1>3. /\ requests' # << >>
      /\ DOMAIN requests' = DOMAIN requests \cup {Len(requests) + 1}
      /\ requests'[Len(requests) + 1] = "received"
      /\ \A i \in DOMAIN requests : requests'[i] = requests[i]
  BY <1>1, <1>2
<1> QED  BY <1>2, <1>3 DEF HasEffect

LEMMA CallRefines ==
  ASSUME EInv, Call
  PROVE  Abstract!Begin
<1>1. /\ pc = "idle" /\ ~Succeeded(execs) /\ Attempt(1) /\ saved' = saved
  BY DEF Call
<1>2. saved.status \notin Effective
  BY <1>1 DEF EInv, InSession, Agreed
<1>3. requests' # << >> /\ pc' # "idle" /\ (HasEffect' <=> HasEffect)
  BY <1>1, AttemptEffect
<1> QED
  BY <1>1, <1>2, <1>3 DEF Abstract!Begin, Abstract!Effective, Effective, HasEffect

LEMMA RetryRefines ==
  ASSUME EInv, Retry
  PROVE  UNCHANGED Abstract!vars
<1>1. /\ pc = "waiting" /\ Attempt(attempt + 1) /\ saved' = saved
  BY DEF Retry
<1>2. requests' # << >> /\ pc' # "idle" /\ (HasEffect' <=> HasEffect)
  BY <1>1, AttemptEffect
<1>3. requests # << >>
  BY <1>1 DEF EInv, Trying
<1> QED  BY <1>1, <1>2, <1>3 DEF Abstract!vars, HasEffect

LEMMA CommitRefines ==
  ASSUME EInv, Commit
  PROVE  Abstract!Succeed \/ Abstract!Fail
<1>1. /\ pc = "settled" /\ pc' = "idle" /\ saved'.status = status /\ requests' = requests
  BY DEF Commit
<1>2. CASE status = "failed"
  BY <1>1, <1>2 DEF Abstract!Fail
<1>3. CASE status \in Effective
  <2>1. HasEffect  BY <1>1, <1>3 DEF EInv, Settling
  <2> QED  BY <1>1, <1>3, <2>1 DEF Abstract!Succeed, Abstract!Effective, Effective, HasEffect
<1> QED  BY <1>1, <1>2, <1>3 DEF EInv, Settling

\* Every step of the executor is a step of the abstract execution or a stutter.
LEMMA NextRefines ==
  ASSUME EInv, [Next]_vars
  PROVE  [Abstract!Next]_Abstract!vars
<1>1. CASE Call
  BY <1>1, CallRefines DEF Abstract!Next
<1>2. CASE CallAgain
  BY <1>2 DEF CallAgain, Abstract!vars
<1>3. CASE ConnectorApplies
  <2>1. requests # << >> /\ requests' # << >> /\ HasEffect'
    BY <1>3, AppliesKeeps DEF HasEffect
  <2>2. saved' = saved /\ pc' = pc
    BY <1>3 DEF ConnectorApplies
  <2>3. Abstract!Apply
    BY <2>1, <2>2 DEF Abstract!Apply, HasEffect
  <2> QED  BY <2>3 DEF Abstract!Next
<1>4. CASE Succeeds \/ SucceedsInPart
  BY <1>4, InnerStep DEF Succeeds, SucceedsInPart, Answers
<1>5. CASE Fails
  BY <1>5, InnerStep DEF Fails
<1>6. CASE Retry
  BY <1>6, RetryRefines
<1>7. CASE Settle
  BY <1>7, InnerStep DEF Settle
<1>8. CASE Commit
  BY <1>8, CommitRefines DEF Abstract!Next
<1>9. CASE Crash
  <2>1. Abstract!Forget
    BY <1>9 DEF Crash, Abstract!Forget
  <2> QED  BY <2>1 DEF Abstract!Next
<1>10. CASE UNCHANGED vars
  BY <1>10 DEF vars, Abstract!vars
<1> QED
  BY <1>1, <1>2, <1>3, <1>4, <1>5, <1>6, <1>7, <1>8, <1>9, <1>10 DEF Next, Progress

\* The executor implements ActionExecution: a committed success stands for an effect that took
\* place, and an action that has succeeded is not run again, for any number of attempts, calls
\* and crashes.
THEOREM ImplementsActionExecution == Spec => KeepsThePromise
<1>1. Init => Abstract!Init  BY InitRefines
<1>2. EInv /\ [Next]_vars => [Abstract!Next]_Abstract!vars  BY NextRefines
<1> QED
  BY <1>1, <1>2, ExecutorInvariant, PTL DEF Spec, KeepsThePromise, Abstract!Spec

-----------------------------------------------------------------------------
(* A call of execute_action comes to its end.                              *)

\* The steps a call may still take by itself: an attempt and its backoff for each that is left,
\* then the outcome and the commit.
StepsLeft ==
  CASE pc = "idle" -> 0
    [] pc = "settled" -> 1
    [] pc = "settling" -> 2
    [] pc = "waiting" -> 2 * (MaxAttempts - attempt) + 2
    [] pc = "calling" -> 2 * (MaxAttempts - attempt) + 3

LEMMA StepsLeftBounded ==
  ASSUME EInv
  PROVE  StepsLeft \in 0 .. 2 * MaxAttempts + 3
<1>1. /\ MaxAttempts \in Nat /\ attempt \in Nat /\ attempt <= MaxAttempts
      /\ pc \in {"idle", "calling", "waiting", "settling", "settled"}
  BY AttemptsAssumption DEF EInv, TypeOK
<1> QED
  BY <1>1 DEF StepsLeft

LEMMA CallShrinks ==
  ASSUME EInv, [Next]_vars, pc # "idle"
  PROVE  StepsLeft' < StepsLeft \/ (pc' = pc /\ attempt' = attempt)
<1>1. /\ MaxAttempts \in Nat /\ attempt \in Nat /\ attempt <= MaxAttempts
      /\ pc \in {"idle", "calling", "waiting", "settling", "settled"}
      /\ pc = "waiting" => attempt < MaxAttempts
  BY AttemptsAssumption DEF EInv, TypeOK, Trying
<1>2. CASE Succeeds \/ SucceedsInPart
  BY <1>1, <1>2 DEF Succeeds, SucceedsInPart, Answers, StepsLeft
<1>3. CASE Fails
  BY <1>1, <1>3 DEF Fails, StepsLeft
<1>4. CASE Retry
  BY <1>1, <1>4 DEF Retry, Attempt, StepsLeft
<1>5. CASE Settle \/ Commit \/ Crash
  BY <1>1, <1>5 DEF Settle, Commit, Crash, StepsLeft
<1>6. CASE Call \/ CallAgain \/ ConnectorApplies \/ UNCHANGED vars
  BY <1>6 DEF Call, CallAgain, ConnectorApplies, vars
<1> QED
  BY <1>2, <1>3, <1>4, <1>5, <1>6 DEF Next, Progress

\* A call is over after 2 * MaxAttempts + 3 steps of its own, the retries, the failures and the
\* timeouts included, and nothing the connector does meanwhile sets it back: what CallEnds leaves
\* to fairness is that the event loop takes them.
THEOREM CallsAdvance ==
  Spec => [][/\ StepsLeft \in 0 .. 2 * MaxAttempts + 3
             /\ pc # "idle" => StepsLeft' < StepsLeft \/ (pc' = pc /\ attempt' = attempt)]_vars
<1>1. EInv /\ [Next]_vars
        => [/\ StepsLeft \in 0 .. 2 * MaxAttempts + 3
            /\ pc # "idle" => StepsLeft' < StepsLeft \/ (pc' = pc /\ attempt' = attempt)]_vars
  BY StepsLeftBounded, CallShrinks
<1> QED
  BY <1>1, ExecutorInvariant, PTL DEF Spec
=============================================================================
