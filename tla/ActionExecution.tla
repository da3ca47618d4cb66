--------------------------- MODULE ActionExecution ---------------------------
(***************************************************************************)
(* What the execution of one action promises to the rest of the system,    *)
(* whatever the executor does inside: a run ends with a status, "success"  *)
(* means that the effect took place, and a successful action is never run  *)
(* again.  A failure promises nothing about the effect: it may have taken  *)
(* place, or may still do.  CasePipeline uses an execution in this form.   *)
(***************************************************************************)
EXTENDS Naturals

VARIABLES
  status,   \* the committed status of the action
  running,  \* a call of execute_action is at work
  begun,    \* the connector has been asked at least once
  applied   \* the effect has taken place in the outside world, once or more

vars == << status, running, begun, applied >>

Effective == {"succeeded", "needs_manual_review"}

Init ==
  /\ status = "approved"
  /\ running = FALSE
  /\ begun = FALSE
  /\ applied = FALSE

Begin ==
  /\ ~running
  /\ status \notin Effective
  /\ running' = TRUE
  /\ begun' = TRUE
  /\ UNCHANGED << status, applied >>

\* The outside world acts on a request, possibly long after the run has ended.
Apply ==
  /\ begun
  /\ applied' = TRUE
  /\ UNCHANGED << status, running, begun >>

Succeed ==
  /\ running
  /\ applied
  /\ status' \in Effective
  /\ running' = FALSE
  /\ UNCHANGED << begun, applied >>

Fail ==
  /\ running
  /\ status' = "failed"
  /\ running' = FALSE
  /\ UNCHANGED << begun, applied >>

\* The process dies: the run is forgotten.
Forget ==
  /\ running
  /\ running' = FALSE
  /\ UNCHANGED << status, begun, applied >>

Next == Begin \/ Apply \/ Succeed \/ Fail \/ Forget

Spec == Init /\ [][Next]_vars
=============================================================================
