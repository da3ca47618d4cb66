---------------------------- MODULE CaseLifecycle ----------------------------
(***************************************************************************)
(* What the pipeline promises about one case as a whole, whatever the      *)
(* engines decide on the way: first a remedy, then the message to the      *)
(* customer, then the closure, each on record at most once.  A remedy is   *)
(* carried out only while none is on record, and a message is sent only    *)
(* when a remedy is and no message is.  A request works on a copy of the   *)
(* record, which is saved at its end or lost; what has been done in the    *)
(* outside world is not lost with it.                                      *)
(***************************************************************************)
EXTENDS Naturals

VARIABLES
  saved,    \* the record as committed
  working,  \* the record as the running request sees it
  paid,     \* remedies carried out in the outside world
  sent      \* messages the customer was sent

vars == << saved, working, paid, sent >>

Progress == [remedied : BOOLEAN, told : BOOLEAN, closed : BOOLEAN]

Fresh == [remedied |-> FALSE, told |-> FALSE, closed |-> FALSE]

Init ==
  /\ saved = Fresh /\ working = Fresh
  /\ paid = 0 /\ sent = 0

\* What was carried out may end up on record or not: a partial success and a lost response do
\* not count as done.
Remedy ==
  /\ ~working.remedied
  /\ paid' = paid + 1
  /\ \E done \in BOOLEAN : working' = [working EXCEPT !.remedied = done]
  /\ UNCHANGED << saved, sent >>

Tell ==
  /\ working.remedied /\ ~working.told
  /\ sent' = sent + 1
  /\ \E done \in BOOLEAN : working' = [working EXCEPT !.told = done]
  /\ UNCHANGED << saved, paid >>

Close ==
  /\ working.told
  /\ working' = [working EXCEPT !.closed = TRUE]
  /\ UNCHANGED << saved, paid, sent >>

Save ==
  /\ saved' = working
  /\ UNCHANGED << working, paid, sent >>

Lose ==
  /\ working' = saved
  /\ UNCHANGED << saved, paid, sent >>

Next == Remedy \/ Tell \/ Close \/ Save \/ Lose

Spec == Init /\ [][Next]_vars
=============================================================================
