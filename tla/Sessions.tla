------------------------------ MODULE Sessions ------------------------------
(***************************************************************************)
(* Requests that work on one case at the same time, each in a database     *)
(* session of its own: deliveries of evidence, POST /cases/{id}/advance    *)
(* and approvers.  CasePipeline serves one request after the other; here   *)
(* their statements interleave, and the module follows one remedy option   *)
(* from its proposal to its execution (engine/nba_engine.py,               *)
(* tools/executor.py, approvals/service.py, api/routers/approvals.py).     *)
(*                                                                         *)
(* The database is the production one, PostgreSQL in its default READ      *)
(* COMMITTED: a query sees what is committed by then, an UPDATE waits for  *)
(* the session that has written the row and then overwrites it, an INSERT  *)
(* waits for an uncommitted row with the same idempotency key, and one     *)
(* session of a circle of waiting sessions is rolled back.  No query of    *)
(* the code locks what it reads.  What lets one cycle of a case run after  *)
(* the other is the date that every cycle writes to the row of the case,   *)
(* after it has loaded the case and before it decides; an approver's       *)
(* request, which runs no cycle, does not write it then.                   *)
(*                                                                         *)
(* A session ends after one remedy: the notification and the closing that  *)
(* follow meet the same way.  Rows of evidence are left out.               *)
(***************************************************************************)
EXTENDS Enums, FiniteSets

CONSTANTS
  Sessions,
  Nobody,         \* holds no lock
  MaxHypotheses,  \* bound: hypotheses that ever lead
  GatedKeys,      \* leading hypotheses under which the option needs an approval
  MaxRequests,    \* bound: requests on the case
  MaxCrashes      \* bound: processes that die inside a request

\* A remedy is keyed by the hypothesis it is proposed under; the option is always the same.
Keys == 1 .. MaxHypotheses

ASSUME SessionsAssumption == IsFiniteSet(Sessions) /\ Nobody \notin Sessions
ASSUME HypothesesAssumption == MaxHypotheses \in Nat \ {0}
ASSUME GatedAssumption == GatedKeys \subseteq Keys
ASSUME BoundsAssumption == MaxRequests \in Nat /\ MaxCrashes \in Nat

VARIABLES
  status,    \* committed status of the remedy with each key
  decision,  \* committed status of its approval
  primary,   \* committed leading hypothesis
  minted,    \* hypotheses created so far
  holder,    \* the session that has written a row and not yet ended
  session,   \* what each request is about to do, and what it has written
  granted,   \* keys whose approval has been committed as approved at some time
  carried,   \* effects in the outside world whose execution is committed
  lost,      \* effects whose execution was rolled back
  asked,     \* requests so far
  crashes

vars == << status, decision, primary, minted, holder, session, granted, carried, lost, asked, crashes >>

CaseRow == 0
Rows == Keys \cup {CaseRow}

RowStatuses == {"absent", "pending_approval", "approved", "rejected", "succeeded", "failed"}

\* The statement a request is at: the hypotheses, the query for a live action, the query for
\* remedies, the query for the key, the insertion, the query for a success, the row of the
\* action, the connector, the commit; an approver's decision.
Steps ==
  {"idle", "leading", "looking", "ranking", "proposing", "inserting", "checking", "starting",
   "calling", "committing", "ruling"}

\* key: the remedy at hand.  wrote: what is written to its row and not committed.  lead: the
\* hypothesis written to the case and not committed, 0 for none.  own: the session has approved
\* the remedy key, and keeps the object it then loaded.  dirty: the object of the case has been
\* changed and is not flushed yet (autoflush is off).
Requests ==
  [at : Steps, hyp : Keys, key : Keys, lead : Keys \cup {0},
   wrote : RowStatuses \cup {"proposed", "executing", "nothing"},
   verdict : {"approved", "rejected"}, own : BOOLEAN, dirty : BOOLEAN]

Resting == [at |-> "idle", hyp |-> 1, key |-> 1, lead |-> 0, wrote |-> "nothing",
            verdict |-> "rejected", own |-> FALSE, dirty |-> FALSE]

At(s, step) == session[s].at = step
Set(s, request) == session' = [session EXCEPT ![s] = request]
Goto(s, step) == Set(s, [session[s] EXCEPT !.at = step])

Outside == UNCHANGED << granted, carried, lost, asked, crashes >>
Committed == UNCHANGED << status, decision, primary >>

-----------------------------------------------------------------------------
(* Rows that are written.                                                  *)

Free(row, s) == holder[row] \in {Nobody, s}
Take(row, s) == Free(row, s) /\ holder' = [holder EXCEPT ![row] = s]

Released(s) == [row \in Rows |-> IF holder[row] = s THEN Nobody ELSE holder[row]]

\* The rows a request is about to write.
Wants(s) ==
  (IF session[s].dirty THEN {CaseRow} ELSE {})
    \cup (IF session[s].at \in {"inserting", "starting", "ruling"} THEN {session[s].key} ELSE {})

WaitsFor(s, t) == s # t /\ \E row \in Wants(s) : holder[row] = t

\* Mutant: nobody looks for cycles.
NeverDeadlocked(s) == FALSE

Deadlocked(s) ==
  \E circle \in SUBSET Sessions :
    /\ s \in circle
    /\ \A t \in circle : /\ \E next \in circle : WaitsFor(t, next)
                          /\ \E last \in circle : WaitsFor(last, t)

\* The transaction is rolled back, what a connector did is not.
Abort(s) ==
  /\ holder' = Released(s)
  /\ Set(s, Resting)
  /\ lost' = IF session[s].wrote = "succeeded" THEN [lost EXCEPT ![session[s].key] = @ + 1] ELSE lost
  /\ UNCHANGED << status, decision, primary, minted, granted, carried, asked >>

-----------------------------------------------------------------------------
(* run_case_cycle and the loop of the approval route.                      *)

\* Mutant: reconcile_case does not write the case.
StartCycleUndated(s) ==
  /\ At(s, "idle")
  /\ asked < MaxRequests
  /\ asked' = asked + 1
  /\ \E step \in {"leading", "looking"} :
       Set(s, [Resting EXCEPT !.at = step, !.hyp = primary])
  /\ UNCHANGED << minted, holder, granted, carried, lost, crashes >>
  /\ Committed

\* A delivery or a manual advance: the case is loaded, and reconcile_case sets its
\* last_activity_at, which is flushed before anything is decided (FlushCase).  Then either a
\* hypothesis is grounded, which will be written to the case too, or nothing new is found.
StartCycle(s) ==
  /\ At(s, "idle")
  /\ asked < MaxRequests
  /\ asked' = asked + 1
  /\ \E step \in {"leading", "looking"} :
       Set(s, [Resting EXCEPT !.at = step, !.hyp = primary, !.dirty = TRUE])
  /\ UNCHANGED << minted, holder, granted, carried, lost, crashes >>
  /\ Committed

\* A flush that writes the case row, before or after the other row it writes.
FlushCase(s) ==
  /\ session[s].dirty
  /\ Take(CaseRow, s)
  /\ Set(s, [session[s] EXCEPT !.dirty = FALSE])
  /\ UNCHANGED minted
  /\ Outside /\ Committed

\* generate_or_update_hypotheses: a new leading hypothesis, flushed before anything else is done.
TakeTheLead(s) ==
  /\ At(s, "leading") /\ ~session[s].dirty
  /\ minted < MaxHypotheses
  /\ minted' = minted + 1
  /\ Set(s, [session[s] EXCEPT !.at = "looking", !.lead = minted + 1, !.hyp = minted + 1,
                               !.dirty = TRUE])
  /\ UNCHANGED holder
  /\ Outside /\ Committed

\* No hypothesis left to mint: the bound of the model.
LeadIsBounded(s) ==
  /\ At(s, "leading") /\ ~session[s].dirty
  /\ minted = MaxHypotheses
  /\ Goto(s, "looking")
  /\ UNCHANGED << minted, holder >>
  /\ Outside /\ Committed

\* Where an action that has been handed back leads to (orchestrator.advance_case).
Onward(st) == IF st = "approved" THEN "checking" ELSE "committing"

\* _live_action: any one live row; no ORDER BY, and no lock.  With none, needs_reevaluation is
\* taken back, if it is set.
Look(s) ==
  /\ At(s, "looking") /\ ~session[s].dirty
  /\ \/ \E k \in Keys :
          /\ status[k] \in LiveStatuses
          /\ Set(s, [session[s] EXCEPT !.at = Onward(status[k]), !.key = k])
     \/ /\ \A k \in Keys : status[k] \notin LiveStatuses
        /\ \E changed \in BOOLEAN :
             Set(s, [session[s] EXCEPT !.at = "ranking", !.dirty = changed])
  /\ UNCHANGED << minted, holder >>
  /\ Outside /\ Committed

\* The remedies of the case as the session sees them: an object it has loaded keeps the status
\* it had then.
Remedy(s, k) == IF session[s].own /\ k = session[s].key THEN "approved" ELSE status[k]

\* The row of the hypothesis is read now, its identifier was with the case: it has been
\* superseded if another one has been committed in between.
StillActive(s) == session[s].lead # 0 \/ session[s].hyp = primary

\* Branch 5: a remedy that is live or done, or the option rejected or failed, ends the request,
\* and so may any branch before, the first one if the hypothesis no longer is active.  Otherwise
\* _propose sets status and stage of the case, which may be what they were.
Rank(s) ==
  /\ At(s, "ranking") /\ ~session[s].dirty
  /\ \/ Goto(s, "committing")
     \/ /\ StillActive(s)
        /\ \A k \in Keys : Remedy(s, k) = "absent"
        /\ \E changed \in BOOLEAN :
             Set(s, [session[s] EXCEPT !.at = "proposing", !.key = session[s].hyp, !.dirty = changed])
  /\ UNCHANGED << minted, holder >>
  /\ Outside /\ Committed

\* The query for the idempotency key.
Propose(s) ==
  /\ At(s, "proposing")
  /\ Goto(s, IF status[session[s].key] = "absent" THEN "inserting" ELSE Onward(status[session[s].key]))
  /\ UNCHANGED << minted, holder >>
  /\ Outside /\ Committed

\* Mutant: an approval is never asked for.
InsertUngated(s) ==
  /\ At(s, "inserting")
  /\ status[session[s].key] = "absent"
  /\ Take(session[s].key, s)
  /\ Set(s, [session[s] EXCEPT !.at = "checking", !.wrote = "proposed"])
  /\ UNCHANGED minted
  /\ Outside /\ Committed

\* The row, and the approval it needs.  No request finds its key taken here (ProposalsAreNotStale).
Insert(s) ==
  /\ At(s, "inserting")
  /\ status[session[s].key] = "absent"
  /\ Take(session[s].key, s)
  /\ LET gated == session[s].key \in GatedKeys
     IN  Set(s, [session[s] EXCEPT !.at = IF gated THEN "committing" ELSE "checking",
                                   !.wrote = IF gated THEN "pending_approval" ELSE "proposed"])
  /\ UNCHANGED minted
  /\ Outside /\ Committed

-----------------------------------------------------------------------------
(* execute_action.                                                         *)

\* Mutant: the executor does not ask for an earlier success.
CheckNothing(s) ==
  /\ At(s, "checking") /\ (session[s].dirty => session[s].wrote = "nothing")
  /\ Goto(s, "starting")
  /\ UNCHANGED << minted, holder >>
  /\ Outside /\ Committed

\* existing_success: a success that is committed by now.  A row that was inserted is flushed, and
\* the case with it.
Check(s) ==
  /\ At(s, "checking") /\ (session[s].dirty => session[s].wrote = "nothing")
  /\ Goto(s, IF carried[session[s].key] > 0 THEN "committing" ELSE "starting")
  /\ UNCHANGED << minted, holder >>
  /\ Outside /\ Committed

\* Mutant: the new status is committed at once.
StartAndCommit(s) ==
  /\ At(s, "starting")
  /\ Take(session[s].key, s)
  /\ Set(s, [session[s] EXCEPT !.at = "calling", !.wrote = "executing"])
  /\ status' = [status EXCEPT ![session[s].key] = "executing"]
  /\ UNCHANGED << minted, decision, primary >>
  /\ Outside

\* The row becomes executing, whatever it has become since it was read.
Start(s) ==
  /\ At(s, "starting")
  /\ Take(session[s].key, s)
  /\ Set(s, [session[s] EXCEPT !.at = "calling", !.wrote = "executing"])
  /\ UNCHANGED minted
  /\ Outside /\ Committed

\* The connector: an effect, or none.  After a success the stage advances, if it is not there.
Succeed(s) ==
  /\ At(s, "calling") /\ ~session[s].dirty
  /\ \E changed \in BOOLEAN :
       Set(s, [session[s] EXCEPT !.at = "committing", !.wrote = "succeeded", !.dirty = changed])
  /\ UNCHANGED << minted, holder >>
  /\ Outside /\ Committed

Fail(s) ==
  /\ At(s, "calling") /\ ~session[s].dirty
  /\ Set(s, [session[s] EXCEPT !.at = "committing", !.wrote = "failed"])
  /\ UNCHANGED << minted, holder >>
  /\ Outside /\ Committed

Commit(s) ==
  /\ At(s, "committing") /\ ~session[s].dirty
  /\ LET r == session[s]
     IN  /\ status' = IF r.wrote = "nothing" THEN status ELSE [status EXCEPT ![r.key] = r.wrote]
         /\ decision' = IF r.wrote = "pending_approval" THEN [decision EXCEPT ![r.key] = "pending"]
                                                        ELSE decision
         /\ primary' = IF r.lead = 0 THEN primary ELSE r.lead
         /\ carried' = IF r.wrote = "succeeded" THEN [carried EXCEPT ![r.key] = @ + 1] ELSE carried
  /\ holder' = Released(s)
  /\ Set(s, Resting)
  /\ UNCHANGED << minted, granted, lost, asked, crashes >>

-----------------------------------------------------------------------------
(* POST /approvals/{id}/decide.                                            *)

\* decide_approval reads the approval as pending ...
StartRuling(s) ==
  /\ At(s, "idle")
  /\ asked < MaxRequests
  /\ asked' = asked + 1
  /\ \E k \in Keys, verdict \in {"approved", "rejected"} :
       /\ decision[k] = "pending"
       /\ Set(s, [Resting EXCEPT !.at = "ruling", !.key = k, !.verdict = verdict])
  /\ UNCHANGED << minted, holder, granted, carried, lost, crashes >>
  /\ Committed

\* ... and writes the approval and its action, whatever they have become, and commits; a session
\* that has approved loads the case and drives it on.
Rule(s) ==
  /\ At(s, "ruling")
  /\ Free(session[s].key, s)
  /\ LET r == session[s]
     IN  /\ status' = [status EXCEPT ![r.key] = r.verdict]
         /\ decision' = [decision EXCEPT ![r.key] = r.verdict]
         /\ IF r.verdict = "approved"
            THEN /\ granted' = granted \cup {r.key}
                 /\ Set(s, [r EXCEPT !.at = "looking", !.own = TRUE, !.hyp = primary])
            ELSE /\ granted' = granted
                 /\ Set(s, Resting)
  /\ UNCHANGED << primary, minted, holder, carried, lost, asked, crashes >>

-----------------------------------------------------------------------------
\* PostgreSQL ends a circle of waiting sessions by rolling one of them back.
DeadlockVictim(s) ==
  /\ Deadlocked(s)
  /\ Abort(s)
  /\ UNCHANGED crashes

\* The process dies inside a request.
Crash(s) ==
  /\ ~At(s, "idle")
  /\ crashes < MaxCrashes
  /\ crashes' = crashes + 1
  /\ Abort(s)

Init ==
  /\ status = [k \in Keys |-> "absent"]
  /\ decision = [k \in Keys |-> "none"]
  /\ primary = 1
  /\ minted = 1
  /\ holder = [row \in Rows |-> Nobody]
  /\ session = [s \in Sessions |-> Resting]
  /\ granted = {}
  /\ carried = [k \in Keys |-> 0]
  /\ lost = [k \in Keys |-> 0]
  /\ asked = 0
  /\ crashes = 0

\* What a request does once it has been taken up.
Work(s) ==
  \/ FlushCase(s) \/ TakeTheLead(s) \/ LeadIsBounded(s) \/ Look(s) \/ Rank(s) \/ Propose(s)
  \/ Insert(s) \/ Check(s) \/ Start(s) \/ Succeed(s) \/ Fail(s)
  \/ Commit(s) \/ Rule(s) \/ DeadlockVictim(s)

Next == \E s \in Sessions : Work(s) \/ StartCycle(s) \/ StartRuling(s) \/ Crash(s)

\* Statements return, connectors answer or time out, waiting sessions get the row in the end.
Spec == Init /\ [][Next]_vars /\ \A s \in Sessions : WF_vars(Work(s))

-----------------------------------------------------------------------------
TypeOK ==
  /\ status \in [Keys -> RowStatuses]
  /\ decision \in [Keys -> {"none", "pending", "approved", "rejected"}]
  /\ primary \in Keys
  /\ minted \in Keys
  /\ holder \in [Rows -> Sessions \cup {Nobody}]
  /\ session \in [Sessions -> Requests]
  /\ granted \subseteq Keys
  /\ carried \in [Keys -> Nat]
  /\ lost \in [Keys -> Nat]
  /\ asked \in 0 .. MaxRequests
  /\ crashes \in 0 .. MaxCrashes

Effects(k) == carried[k] + lost[k]

\* A remedy that needs an approval has an effect, committed or lost with its session, only after
\* an approver's decision for it was committed, however deliveries and approvers interleave.
ApprovedBeforeEffect ==
  \A k \in GatedKeys :
    Effects(k) > 0 \/ (\E s \in Sessions : session[s].key = k /\ session[s].wrote = "succeeded")
      => k \in granted

\* A proposal is decided on what a session has read of hypotheses and remedies, without locking
\* it, and committed later; by then it is still true: no other remedy has come on record, and the
\* hypothesis it is made under leads.  So one of all concurrent deliveries, advances and approvers
\* puts the option forward, once for the case and not once for each key.
ProposalsAreNotStale ==
  [][\A k \in Keys :
       status[k] = "absent" /\ status'[k] # "absent" =>
         primary' = k /\ \A j \in Keys : status[j] = "absent"]_vars

\* A remedy is carried out again only by a request that has looked for an earlier success before
\* the first one was committed: at most once in each session that was then at work.
RepeatsWereUnderWay == \A k \in Keys : carried[k] <= Cardinality(Sessions)

\* Every cycle waits for the row of the case, a cycle takes it before the row of a remedy and an
\* approver after that; still every request ends, since one session of a circle is rolled back.
RequestsEnd == \A s \in Sessions : ~At(s, "idle") ~> At(s, "idle")

\* What the executor claims (executor.py:8-12): calling execute_action twice on the same action
\* never runs the connector again.
CarriedOutOnce == \A k \in Keys : carried[k] <= 1
=============================================================================
