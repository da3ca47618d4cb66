--------------------------- MODULE SessionsProofs ---------------------------
(***************************************************************************)
(* Sessions: what holds for every number of sessions, hypotheses, requests *)
(* and crashes.                                                            *)
(*                                                                         *)
(* The statements of the requests interleave; what keeps them apart is the *)
(* row they have written (RequestOK): until the session ends no other one  *)
(* commits a change of that remedy.  What keeps two cycles apart is the    *)
(* row of the case (SerialOK): the one that has written it decides alone.  *)
(* A step of session s leaves what the others rely on alone                *)
(* (OtherSessions, SerialOthers), so each action is looked at for s and    *)
(* for the remedy it commits only.                                         *)
(***************************************************************************)
EXTENDS Sessions, FiniteSetTheorems, TLAPS

\* What a session has written it holds; how far it is says what it has written; and a remedy that
\* needs no approval stays absent for the others while one session inserts and executes it.
RequestOK(s) ==
  LET r == session[s]
  IN  /\ r.wrote # "nothing" => holder[r.key] = s
      /\ r.at \in {"idle", "leading", "looking", "ranking", "proposing", "inserting", "ruling"}
           => r.wrote = "nothing"
      /\ r.at \in {"checking", "starting"}
           => IF r.key \in GatedKeys THEN r.wrote = "nothing" /\ r.key \in granted
                                     ELSE r.wrote = "proposed"
      /\ r.at = "calling" => r.wrote = "executing"
      /\ r.at = "committing" => r.wrote \in {"nothing", "pending_approval", "succeeded", "failed"}
      /\ r.wrote \in {"executing", "succeeded"} /\ r.key \in GatedKeys => r.key \in granted
      /\ (r.wrote = "pending_approval" \/ r.at = "ruling") => r.key \in GatedKeys
      /\ r.wrote # "nothing" /\ r.key \notin GatedKeys => status[r.key] = "absent"

RemedyOK(k) ==
  /\ status[k] = "approved" => k \in granted
  /\ k \in GatedKeys /\ Effects(k) > 0 => k \in granted
  /\ k \notin GatedKeys =>
       /\ decision[k] = "none"
       /\ status[k] \in {"absent", "succeeded", "failed"}
       /\ carried[k] = IF status[k] = "succeeded" THEN 1 ELSE 0

LockInv ==
  /\ TypeOK
  /\ \A s \in Sessions : RequestOK(s)
  /\ \A k \in Keys : RemedyOK(k)

\* The requests that are past the query for an earlier success.
PastCheck(k) ==
  {s \in Sessions :
     /\ session[s].key = k
     /\ \/ session[s].at \in {"starting", "calling"}
        \/ session[s].at = "committing" /\ session[s].wrote = "succeeded"}

RepeatInv == \A k \in Keys : carried[k] + Cardinality(PastCheck(k)) <= Cardinality(Sessions)

-----------------------------------------------------------------------------

LEMMA FirstKey == 1 \in Keys
  BY HypothesesAssumption DEF Keys

LEMMA InitKeeps ==
  ASSUME Init
  PROVE  LockInv
<1> USE SessionsAssumption, HypothesesAssumption, GatedAssumption, BoundsAssumption
<1>1. TypeOK
  BY DEF Init, TypeOK, Rows, Keys, RowStatuses, Requests, Resting, Steps, CaseRow
<1>2. \A s \in Sessions : RequestOK(s)
  BY DEF Init, RequestOK, Resting
<1>3. \A k \in Keys : RemedyOK(k)
  BY DEF Init, RemedyOK, Effects, Keys
<1> QED
  BY <1>1, <1>2, <1>3 DEF LockInv

\* A step of session s on its own request leaves the invariant to be shown for s, provided that it
\* takes only free rows, and commits only a remedy that no other session has written.
LEMMA OtherSessions ==
  ASSUME LockInv, TypeOK',
         NEW s \in Sessions, NEW r \in Requests,
         Set(s, r),
         \A row \in Rows : holder[row] \in Sessions \ {s} => holder'[row] = holder[row],
         granted \subseteq granted',
         \A k \in Keys : holder[k] \in Sessions \ {s} => status'[k] = status[k] \/ k \in GatedKeys,
         RequestOK(s)',
         \A k \in Keys : RemedyOK(k)'
  PROVE  LockInv'
<1>1. ASSUME NEW t \in Sessions \ {s} PROVE RequestOK(t)'
  <2>1. session'[t] = session[t]
    BY DEF Set, LockInv, TypeOK
  <2>2. RequestOK(t) /\ session[t] \in Requests
    BY DEF LockInv, TypeOK
  <2>3. session[t].key \in Keys /\ session[t].key \in Rows
    BY <2>2 DEF Requests, Rows
  <2>4. holder[session[t].key] = t => holder'[session[t].key] = t
    BY <2>3
  <2>5. holder[session[t].key] = t =>
          status'[session[t].key] = status[session[t].key] \/ session[t].key \in GatedKeys
    BY <2>3
  <2> QED
    BY <2>1, <2>2, <2>4, <2>5 DEF RequestOK
<1> QED
  BY <1>1 DEF LockInv

\* A step that commits nothing and touches no effect.
LEMMA QuietStep ==
  ASSUME LockInv,
         NEW s \in Sessions, NEW r \in Requests,
         Set(s, r),
         holder' = holder \/ (\E row \in Rows : Take(row, s)),
         Committed, UNCHANGED << granted, carried, lost >>,
         minted' \in Keys, asked' \in 0 .. MaxRequests, crashes' \in 0 .. MaxCrashes,
         RequestOK(s)'
  PROVE  LockInv'
<1>1. TypeOK'
  <2>1. session' \in [Sessions -> Requests]
    BY DEF LockInv, TypeOK, Set
  <2>2. holder' \in [Rows -> Sessions \cup {Nobody}]
    BY DEF LockInv, TypeOK, Take
  <2> QED
    BY <2>1, <2>2 DEF LockInv, TypeOK, Committed
<1>2. \A row \in Rows : holder[row] \in Sessions \ {s} => holder'[row] = holder[row]
  BY SessionsAssumption DEF LockInv, TypeOK, Take, Free
<1>3. \A k \in Keys : RemedyOK(k)'
  BY DEF LockInv, RemedyOK, Effects, Committed
<1> QED
  BY <1>1, <1>2, <1>3, OtherSessions DEF Committed

-----------------------------------------------------------------------------
(* The steps of a request that commit nothing.                             *)

LEMMA FlushCaseKeeps ==
  ASSUME LockInv, NEW s \in Sessions, FlushCase(s)
  PROVE  LockInv'
<1> DEFINE r == [session[s] EXCEPT !.dirty = FALSE]
<1>1. r \in Requests /\ session'[s] = r
  <2>1. session[s] \in Requests /\ session \in [Sessions -> Requests]
    BY DEF LockInv, TypeOK
  <2>2. r \in Requests
    BY <2>1 DEF Requests
  <2> QED
    BY <2>1, <2>2 DEF FlushCase, Set
<1>2. \A row \in Rows : holder[row] = s => holder'[row] = s
  BY DEF FlushCase, Take, LockInv, TypeOK
<1>3. RequestOK(s)'
  <2>1. session[s] \in Requests /\ RequestOK(s)
    BY DEF LockInv, TypeOK
  <2>2. session[s].key \in Rows
    BY <2>1 DEF Requests, Rows
  <2>3. /\ session'[s].at = session[s].at /\ session'[s].wrote = session[s].wrote
        /\ session'[s].key = session[s].key
    BY <1>1, <2>1 DEF Requests
  <2>4. granted' = granted /\ status' = status
    BY DEF FlushCase, Committed, Outside
  <2> QED
    BY <1>2, <2>1, <2>2, <2>3, <2>4 DEF RequestOK
<1> QED
  BY <1>1, <1>3, QuietStep DEF FlushCase, Rows, CaseRow, Outside, LockInv, TypeOK

\* Steps that write nothing and move the request to another statement.
LEMMA MoveKeeps ==
  ASSUME LockInv, NEW s \in Sessions, NEW r \in Requests,
         Set(s, r), UNCHANGED holder, Committed, UNCHANGED << granted, carried, lost >>,
         minted' \in Keys, asked' \in 0 .. MaxRequests, crashes' \in 0 .. MaxCrashes,
         r.wrote = "nothing", session[s].wrote = "nothing",
         r.at \in {"leading", "looking", "ranking", "proposing", "inserting", "committing", "ruling",
                   "checking", "starting"},
         r.at = "ruling" => r.key \in GatedKeys,
         r.at \in {"checking", "starting"} => r.key \in GatedKeys /\ r.key \in granted
  PROVE  LockInv'
<1>1. session'[s] = r
  BY DEF Set, LockInv, TypeOK
<1>2. RequestOK(s)'
  BY <1>1 DEF RequestOK, Committed
<1> QED
  BY <1>2, QuietStep

LEMMA StartCycleKeeps ==
  ASSUME LockInv, NEW s \in Sessions, StartCycle(s)
  PROVE  LockInv'
<1>1. PICK step \in {"leading", "looking"} :
        Set(s, [Resting EXCEPT !.at = step, !.hyp = primary, !.dirty = TRUE])
  BY DEF StartCycle
<1> DEFINE r == [Resting EXCEPT !.at = step, !.hyp = primary, !.dirty = TRUE]
<1>2. r \in Requests /\ r.wrote = "nothing" /\ r.at \in {"leading", "looking"}
  BY FirstKey DEF LockInv, TypeOK, Requests, Resting, Steps
<1>3. session[s].wrote = "nothing"
  BY DEF StartCycle, At, LockInv, RequestOK
<1>4. asked' \in 0 .. MaxRequests
  BY BoundsAssumption DEF StartCycle, LockInv, TypeOK
<1> QED
  BY <1>1, <1>2, <1>3, <1>4, MoveKeeps DEF StartCycle, LockInv, TypeOK

LEMMA StartRulingKeeps ==
  ASSUME LockInv, NEW s \in Sessions, StartRuling(s)
  PROVE  LockInv'
<1>1. PICK k \in Keys, verdict \in {"approved", "rejected"} :
         /\ decision[k] = "pending"
         /\ Set(s, [Resting EXCEPT !.at = "ruling", !.key = k, !.verdict = verdict])
  BY DEF StartRuling
<1> DEFINE r == [Resting EXCEPT !.at = "ruling", !.key = k, !.verdict = verdict]
<1>2. r \in Requests /\ r.wrote = "nothing" /\ r.at = "ruling" /\ r.key = k
  BY FirstKey DEF LockInv, TypeOK, Requests, Resting, Steps
<1>3. session[s].wrote = "nothing"
  BY DEF StartRuling, At, LockInv, RequestOK
<1>4. asked' \in 0 .. MaxRequests
  BY BoundsAssumption DEF StartRuling, LockInv, TypeOK
<1>5. k \in GatedKeys
  BY <1>1 DEF LockInv, RemedyOK
<1> QED
  BY <1>1, <1>2, <1>3, <1>4, <1>5, MoveKeeps DEF StartRuling, LockInv, TypeOK

LEMMA LeadKeeps ==
  ASSUME LockInv, NEW s \in Sessions, TakeTheLead(s) \/ LeadIsBounded(s)
  PROVE  LockInv'
<1>1. session[s].wrote = "nothing" /\ session[s] \in Requests
  BY DEF TakeTheLead, LeadIsBounded, At, LockInv, RequestOK, TypeOK
<1>2. CASE TakeTheLead(s)
  <2> DEFINE r == [session[s] EXCEPT !.at = "looking", !.lead = minted + 1, !.hyp = minted + 1,
                                     !.dirty = TRUE]
  <2>1. minted + 1 \in Keys
    BY <1>2, HypothesesAssumption DEF TakeTheLead, LockInv, TypeOK, Keys
  <2>2. r \in Requests /\ r.wrote = "nothing" /\ r.at = "looking"
    BY <1>1, <2>1 DEF Requests, Steps
  <2> QED
    BY <1>1, <1>2, <2>1, <2>2, MoveKeeps DEF TakeTheLead, Outside, LockInv, TypeOK
<1>3. CASE LeadIsBounded(s)
  <2> DEFINE r == [session[s] EXCEPT !.at = "looking"]
  <2>1. r \in Requests /\ r.wrote = "nothing" /\ r.at = "looking"
    BY <1>1 DEF Requests, Steps
  <2> QED
    BY <1>1, <1>3, <2>1, MoveKeeps DEF LeadIsBounded, Goto, Outside, LockInv, TypeOK
<1> QED
  BY <1>2, <1>3

LEMMA LookKeeps ==
  ASSUME LockInv, NEW s \in Sessions, Look(s)
  PROVE  LockInv'
<1>1. session[s].wrote = "nothing" /\ session[s] \in Requests
  BY DEF Look, At, LockInv, RequestOK, TypeOK
<1>2. ASSUME NEW k \in Keys, status[k] \in LiveStatuses,
             Set(s, [session[s] EXCEPT !.at = Onward(status[k]), !.key = k])
      PROVE  LockInv'
  <2> DEFINE r == [session[s] EXCEPT !.at = Onward(status[k]), !.key = k]
  <2>1. /\ r \in Requests /\ r.wrote = "nothing" /\ r.key = k
        /\ r.at \in {"checking", "committing"}
        /\ r.at = "checking" => status[k] = "approved"
    BY <1>1 DEF Requests, Steps, Onward
  <2>2. status[k] = "approved" => k \in GatedKeys /\ k \in granted
    BY DEF LockInv, RemedyOK
  <2>3. Set(s, r)
    BY <1>2
  <2> HIDE DEF r
  <2> QED
    BY <1>1, <2>1, <2>2, <2>3, MoveKeeps DEF Look, Outside, LockInv, TypeOK
<1>3. ASSUME NEW changed \in BOOLEAN,
             Set(s, [session[s] EXCEPT !.at = "ranking", !.dirty = changed])
      PROVE  LockInv'
  <2> DEFINE r == [session[s] EXCEPT !.at = "ranking", !.dirty = changed]
  <2>1. r \in Requests /\ r.wrote = "nothing" /\ r.at = "ranking"
    BY <1>1 DEF Requests, Steps
  <2> QED
    BY <1>1, <1>3, <2>1, MoveKeeps DEF Look, Outside, LockInv, TypeOK
<1> QED
  BY <1>2, <1>3 DEF Look

LEMMA RankKeeps ==
  ASSUME LockInv, NEW s \in Sessions, Rank(s)
  PROVE  LockInv'
<1>1. session[s].wrote = "nothing" /\ session[s] \in Requests
  BY DEF Rank, At, LockInv, RequestOK, TypeOK
<1>2. CASE Goto(s, "committing")
  <2> DEFINE r == [session[s] EXCEPT !.at = "committing"]
  <2>1. r \in Requests /\ r.wrote = "nothing" /\ r.at = "committing"
    BY <1>1 DEF Requests, Steps
  <2> QED
    BY <1>1, <1>2, <2>1, MoveKeeps DEF Rank, Goto, Outside, LockInv, TypeOK
<1>3. ASSUME NEW changed \in BOOLEAN,
             Set(s, [session[s] EXCEPT !.at = "proposing", !.key = session[s].hyp, !.dirty = changed])
      PROVE  LockInv'
  <2> DEFINE r == [session[s] EXCEPT !.at = "proposing", !.key = session[s].hyp, !.dirty = changed]
  <2>1. r \in Requests /\ r.wrote = "nothing" /\ r.at = "proposing"
    BY <1>1 DEF Requests, Steps
  <2> QED
    BY <1>1, <1>3, <2>1, MoveKeeps DEF Rank, Outside, LockInv, TypeOK
<1> QED
  BY <1>2, <1>3 DEF Rank

LEMMA ProposeKeeps ==
  ASSUME LockInv, NEW s \in Sessions, Propose(s)
  PROVE  LockInv'
<1>1. session[s].wrote = "nothing" /\ session[s] \in Requests
  BY DEF Propose, At, LockInv, RequestOK, TypeOK
<1> DEFINE k == session[s].key
           step == IF status[k] = "absent" THEN "inserting" ELSE Onward(status[k])
           r == [session[s] EXCEPT !.at = step]
<1>2. /\ r \in Requests /\ r.wrote = "nothing" /\ r.key = k /\ k \in Keys
      /\ r.at \in {"inserting", "checking", "committing"}
      /\ r.at = "checking" => status[k] = "approved"
  BY <1>1 DEF Requests, Steps, Onward
<1>3. status[k] = "approved" => k \in GatedKeys /\ k \in granted
  BY <1>2 DEF LockInv, RemedyOK
<1> QED
  BY <1>1, <1>2, <1>3, MoveKeeps DEF Propose, Goto, Outside, LockInv, TypeOK

\* A request that has inserted its row keeps what it has written while it asks and starts.
LEMMA CheckKeeps ==
  ASSUME LockInv, NEW s \in Sessions, Check(s)
  PROVE  LockInv'
<1> DEFINE k == session[s].key
           step == IF carried[k] > 0 THEN "committing" ELSE "starting"
           r == [session[s] EXCEPT !.at = step]
<1>1. session[s] \in Requests /\ session[s].at = "checking" /\ RequestOK(s) /\ k \in Keys
  BY DEF Check, At, LockInv, TypeOK, Requests
<1>2. r \in Requests /\ session'[s] = r /\ Set(s, r)
  BY <1>1 DEF Check, Goto, Set, LockInv, TypeOK, Requests, Steps
<1>3. k \notin GatedKeys => carried[k] = 0
  BY <1>1 DEF RequestOK, LockInv, RemedyOK
<1>4. RequestOK(s)'
  BY <1>1, <1>2, <1>3 DEF RequestOK, Check, Outside, Committed
<1> QED
  BY <1>2, <1>4, QuietStep DEF Check, Outside, LockInv, TypeOK

LEMMA StartKeeps ==
  ASSUME LockInv, NEW s \in Sessions, Start(s)
  PROVE  LockInv'
<1> DEFINE k == session[s].key
           r == [session[s] EXCEPT !.at = "calling", !.wrote = "executing"]
<1>1. session[s] \in Requests /\ session[s].at = "starting" /\ RequestOK(s) /\ k \in Keys /\ k \in Rows
  BY DEF Start, At, LockInv, TypeOK, Requests, Rows
<1>2. r \in Requests /\ session'[s] = r /\ Set(s, r)
  BY <1>1 DEF Start, Set, LockInv, TypeOK, Requests, Steps, RowStatuses
<1>3. holder'[k] = s
  BY <1>1 DEF Start, Take, LockInv, TypeOK
<1>4. RequestOK(s)'
  BY <1>1, <1>2, <1>3 DEF RequestOK, Start, Outside, Committed
<1> QED
  BY <1>1, <1>2, <1>4, QuietStep DEF Start, Outside, LockInv, TypeOK

LEMMA ConnectorKeeps ==
  ASSUME LockInv, NEW s \in Sessions, Succeed(s) \/ Fail(s)
  PROVE  LockInv'
<1>1. session[s] \in Requests /\ session[s].at = "calling" /\ RequestOK(s)
  BY DEF Succeed, Fail, At, LockInv, TypeOK
<1>2. PICK outcome \in {"succeeded", "failed"}, changed \in BOOLEAN :
        Set(s, [session[s] EXCEPT !.at = "committing", !.wrote = outcome, !.dirty = changed])
  <2>1. CASE Succeed(s)
    BY <2>1 DEF Succeed
  <2>2. CASE Fail(s)
    <3>1. [session[s] EXCEPT !.at = "committing", !.wrote = "failed"]
           = [session[s] EXCEPT !.at = "committing", !.wrote = "failed", !.dirty = session[s].dirty]
          /\ session[s].dirty \in BOOLEAN
      BY <1>1 DEF Requests
    <3> QED
      BY <2>2, <3>1 DEF Fail
  <2> QED
    BY <2>1, <2>2
<1> DEFINE r == [session[s] EXCEPT !.at = "committing", !.wrote = outcome, !.dirty = changed]
<1>3. /\ r \in Requests /\ session'[s] = r
      /\ r.at = "committing" /\ r.wrote = outcome /\ r.key = session[s].key
  BY <1>1, <1>2 DEF Set, LockInv, TypeOK, Requests, Steps, RowStatuses
<1>4. RequestOK(s)'
  <2>1. UNCHANGED << holder, status, granted >>
    BY DEF Succeed, Fail, Outside, Committed
  <2> HIDE DEF r
  <2> QED
    BY <1>1, <1>3, <2>1 DEF RequestOK
<1> QED
  BY <1>2, <1>3, <1>4, QuietStep DEF Succeed, Fail, Outside, LockInv, TypeOK

LEMMA InsertKeeps ==
  ASSUME LockInv, NEW s \in Sessions, Insert(s)
  PROVE  LockInv'
<1> DEFINE k == session[s].key
           gated == k \in GatedKeys
           r == [session[s] EXCEPT !.at = IF gated THEN "committing" ELSE "checking",
                                   !.wrote = IF gated THEN "pending_approval" ELSE "proposed"]
<1>1. session[s] \in Requests /\ RequestOK(s) /\ k \in Keys /\ k \in Rows /\ status[k] = "absent"
  BY DEF Insert, At, LockInv, TypeOK, Requests, Rows
<1>2. r \in Requests /\ session'[s] = r /\ Set(s, r)
  BY <1>1 DEF Insert, Set, LockInv, TypeOK, Requests, Steps, RowStatuses
<1>3. holder'[k] = s
  BY <1>1 DEF Insert, Take, LockInv, TypeOK
<1>4. RequestOK(s)'
  BY <1>1, <1>2, <1>3 DEF RequestOK, Insert, Outside, Committed
<1> QED
  BY <1>1, <1>2, <1>4, QuietStep DEF Insert, Outside, LockInv, TypeOK

-----------------------------------------------------------------------------
(* The steps that end a session, and the decision of an approver.          *)

LEMMA RestingOK ==
  ASSUME NEW s \in Sessions, session'[s] = Resting
  PROVE  RequestOK(s)'
BY DEF RequestOK, Resting

LEMMA ReleasedRows ==
  ASSUME LockInv, NEW s \in Sessions, holder' = Released(s)
  PROVE  /\ holder' \in [Rows -> Sessions \cup {Nobody}]
         /\ \A row \in Rows : holder[row] \in Sessions \ {s} => holder'[row] = holder[row]
BY DEF Released, LockInv, TypeOK

LEMMA AbortKeeps ==
  ASSUME LockInv, NEW s \in Sessions, Abort(s), crashes' \in 0 .. MaxCrashes
  PROVE  LockInv'
<1>1. session[s] \in Requests /\ session[s].key \in Keys /\ RequestOK(s)
  BY DEF LockInv, TypeOK, Requests
<1>2. Resting \in Requests /\ session'[s] = Resting /\ Set(s, Resting)
  BY FirstKey DEF Abort, Set, LockInv, TypeOK, Requests, Resting, Steps
<1>3. lost' \in [Keys -> Nat]
  <2>1. lost \in [Keys -> Nat]
    BY DEF LockInv, TypeOK
  <2>2. lost' = lost \/ lost' = [lost EXCEPT ![session[s].key] = lost[session[s].key] + 1]
    BY DEF Abort
  <2> QED
    BY <1>1, <2>1, <2>2
<1>4. TypeOK'
  <2>1. session' \in [Sessions -> Requests]
    BY <1>2 DEF Set, LockInv, TypeOK
  <2> QED
    BY <1>3, <2>1, ReleasedRows DEF Abort, LockInv, TypeOK
<1>5. ASSUME NEW k \in Keys PROVE RemedyOK(k)'
  <2>1. lost'[k] = lost[k] \/ (k = session[s].key /\ session[s].wrote = "succeeded")
    BY DEF Abort, LockInv, TypeOK
  <2>2. k \in GatedKeys /\ (Effects(k) > 0)' => k \in granted
    BY <1>1, <2>1 DEF LockInv, RemedyOK, RequestOK, Effects, Abort
  <2> QED
    BY <2>2 DEF LockInv, RemedyOK, Effects, Abort
<1> QED
  BY <1>2, <1>4, <1>5, RestingOK, ReleasedRows, OtherSessions DEF Abort

LEMMA CommitKeeps ==
  ASSUME LockInv, NEW s \in Sessions, Commit(s)
  PROVE  LockInv'
<1> DEFINE q == session[s].key
           w == session[s].wrote
<1>1. /\ session[s] \in Requests /\ q \in Keys /\ q \in Rows /\ RequestOK(s)
      /\ session[s].lead \in Keys \cup {0}
      /\ w \in {"nothing", "pending_approval", "succeeded", "failed"}
  BY DEF LockInv, TypeOK, Requests, Rows, RequestOK, Commit, At
<1>2. Resting \in Requests /\ session'[s] = Resting /\ Set(s, Resting)
  BY FirstKey DEF Commit, Set, LockInv, TypeOK, Requests, Resting, Steps
<1>3. /\ status' = IF w = "nothing" THEN status ELSE [status EXCEPT ![q] = w]
      /\ decision' = IF w = "pending_approval" THEN [decision EXCEPT ![q] = "pending"] ELSE decision
      /\ carried' = IF w = "succeeded" THEN [carried EXCEPT ![q] = @ + 1] ELSE carried
      /\ primary' \in Keys
      /\ granted' = granted /\ lost' = lost
  BY <1>1 DEF Commit, LockInv, TypeOK
<1>4. TypeOK'
  <2>1. session' \in [Sessions -> Requests]
    BY <1>2 DEF Set, LockInv, TypeOK
  <2>2. status' \in [Keys -> RowStatuses] /\ carried' \in [Keys -> Nat]
        /\ decision' \in [Keys -> {"none", "pending", "approved", "rejected"}]
    BY <1>1, <1>3 DEF LockInv, TypeOK, RowStatuses
  <2> QED
    BY <1>3, <2>1, <2>2, ReleasedRows DEF Commit, LockInv, TypeOK
<1>5. \A k \in Keys : holder[k] \in Sessions \ {s} => status'[k] = status[k]
  BY <1>1, <1>3 DEF RequestOK, LockInv, TypeOK
<1>6. ASSUME NEW k \in Keys PROVE RemedyOK(k)'
  <2>1. CASE k # q
    <3>1. status'[k] = status[k] /\ decision'[k] = decision[k] /\ carried'[k] = carried[k]
      BY <1>3, <2>1 DEF LockInv, TypeOK
    <3> QED
      BY <1>3, <3>1 DEF LockInv, RemedyOK, Effects
  <2>2. CASE k = q
    <3>1. /\ status'[k] = IF w = "nothing" THEN status[k] ELSE w
          /\ decision'[k] = IF w = "pending_approval" THEN "pending" ELSE decision[k]
          /\ carried'[k] = IF w = "succeeded" THEN carried[k] + 1 ELSE carried[k]
      BY <1>1, <1>3, <2>2 DEF LockInv, TypeOK
    <3>2. carried[k] \in Nat /\ lost[k] \in Nat /\ RemedyOK(k)
      BY DEF LockInv, TypeOK
    <3> HIDE DEF w
    <3>3. CASE w = "nothing"
      BY <1>3, <3>1, <3>2, <3>3 DEF RemedyOK, Effects
    <3>4. CASE w = "pending_approval"
      <4>1. k \in GatedKeys
        BY <1>1, <2>2, <3>4 DEF RequestOK, w
      <4> QED
        BY <1>3, <3>1, <3>2, <3>4, <4>1 DEF RemedyOK, Effects
    <3>5. CASE w \in {"succeeded", "failed"}
      <4>1. k \in GatedKeys /\ w = "succeeded" => k \in granted
        BY <1>1, <2>2 DEF RequestOK, w
      <4>2. k \notin GatedKeys => status[k] = "absent"
        BY <1>1, <2>2, <3>5 DEF RequestOK, w
      <4> QED
        BY <1>3, <3>1, <3>2, <3>5, <4>1, <4>2 DEF RemedyOK, Effects
    <3> QED
      BY <1>1, <3>3, <3>4, <3>5 DEF w
  <2> QED
    BY <2>1, <2>2
<1>7. holder' = Released(s) /\ granted \subseteq granted'
  BY DEF Commit
<1> QED
  BY <1>2, <1>4, <1>5, <1>6, <1>7, RestingOK, ReleasedRows, OtherSessions

LEMMA RuleKeeps ==
  ASSUME LockInv, NEW s \in Sessions, Rule(s)
  PROVE  LockInv'
<1> DEFINE q == session[s].key
           v == session[s].verdict
           r == IF v = "approved"
                THEN [session[s] EXCEPT !.at = "looking", !.own = TRUE, !.hyp = primary]
                ELSE Resting
<1>1. /\ session[s] \in Requests /\ q \in Keys /\ q \in GatedKeys
      /\ v \in {"approved", "rejected"}
      /\ session[s].wrote = "nothing"
  BY DEF LockInv, TypeOK, Requests, RequestOK, Rule, At
<1>2. /\ r \in Requests /\ Set(s, r) /\ session'[s] = r
      /\ r.at \in {"idle", "looking"} /\ r.wrote = "nothing"
  BY <1>1, FirstKey DEF Rule, Set, LockInv, TypeOK, Requests, Resting, Steps
<1>3. /\ status' = [status EXCEPT ![q] = v]
      /\ decision' = [decision EXCEPT ![q] = v]
      /\ granted' = IF v = "approved" THEN granted \cup {q} ELSE granted
      /\ UNCHANGED << primary, minted, holder, carried, lost, asked, crashes >>
  BY <1>1 DEF Rule
<1>4. TypeOK'
  <2>1. session' \in [Sessions -> Requests]
    BY <1>2 DEF Set, LockInv, TypeOK
  <2>2. status' \in [Keys -> RowStatuses] /\ granted' \subseteq Keys
        /\ decision' \in [Keys -> {"none", "pending", "approved", "rejected"}]
    BY <1>1, <1>3 DEF LockInv, TypeOK, RowStatuses
  <2> QED
    BY <1>3, <2>1, <2>2 DEF LockInv, TypeOK
<1>5. RequestOK(s)'
  <2> HIDE DEF r
  <2> QED
    BY <1>2 DEF RequestOK
<1>6. ASSUME NEW k \in Keys PROVE RemedyOK(k)'
  <2>1. carried[k] \in Nat /\ lost[k] \in Nat /\ RemedyOK(k)
    BY DEF LockInv, TypeOK
  <2>2. CASE k # q
    BY <1>3, <2>1, <2>2 DEF LockInv, TypeOK, RemedyOK, Effects
  <2>3. CASE k = q
    BY <1>1, <1>3, <2>1, <2>3 DEF LockInv, TypeOK, RemedyOK, Effects
  <2> QED
    BY <2>2, <2>3
<1>7. \A k \in Keys : holder[k] \in Sessions \ {s} => status'[k] = status[k] \/ k \in GatedKeys
  BY <1>1, <1>3 DEF LockInv, TypeOK
<1>8. granted \subseteq granted'
  BY <1>3
<1> QED
  BY <1>2, <1>3, <1>4, <1>5, <1>6, <1>7, <1>8, OtherSessions

LEMMA StepKeeps ==
  ASSUME LockInv, [Next]_vars
  PROVE  LockInv'
<1>1. CASE UNCHANGED vars
  BY <1>1 DEF vars, LockInv, TypeOK, RequestOK, RemedyOK, Effects
<1>2. ASSUME NEW s \in Sessions, Work(s) \/ StartCycle(s) \/ StartRuling(s) \/ Crash(s)
      PROVE  LockInv'
  <2>1. crashes \in 0 .. MaxCrashes
    BY DEF LockInv, TypeOK
  <2>2. CASE StartCycle(s) \/ StartRuling(s)
    BY <2>2, StartCycleKeeps, StartRulingKeeps
  <2>3. CASE FlushCase(s) \/ TakeTheLead(s) \/ LeadIsBounded(s) \/ Look(s) \/ Rank(s) \/ Propose(s)
    BY <2>3, FlushCaseKeeps, LeadKeeps, LookKeeps, RankKeeps, ProposeKeeps
  <2>4. CASE Insert(s) \/ Check(s) \/ Start(s) \/ Succeed(s) \/ Fail(s)
    BY <2>4, InsertKeeps, CheckKeeps, StartKeeps, ConnectorKeeps
  <2>5. CASE DeadlockVictim(s)
    BY <2>1, <2>5, AbortKeeps DEF DeadlockVictim
  <2>6. CASE Commit(s) \/ Rule(s)
    BY <2>6, CommitKeeps, RuleKeeps
  <2>7. CASE Crash(s)
    <3>1. crashes' \in 0 .. MaxCrashes
      BY <2>1, <2>7, BoundsAssumption DEF Crash
    <3> QED
      BY <2>7, <3>1, AbortKeeps DEF Crash
  <2> QED
    BY <1>2, <2>2, <2>3, <2>4, <2>5, <2>6, <2>7 DEF Work
<1> QED
  BY <1>1, <1>2 DEF Next

-----------------------------------------------------------------------------
(* How often a remedy is carried out again.                                *)

LEMMA PastCheckFinite ==
  ASSUME NEW k \in Keys
  PROVE  /\ IsFiniteSet(PastCheck(k)) /\ IsFiniteSet(PastCheck(k)')
         /\ Cardinality(PastCheck(k)) \in Nat /\ Cardinality(PastCheck(k)') \in Nat
         /\ Cardinality(Sessions) \in Nat
         /\ Cardinality(PastCheck(k)') <= Cardinality(Sessions)
<1>1. PastCheck(k) \subseteq Sessions /\ PastCheck(k)' \subseteq Sessions
  BY DEF PastCheck
<1> QED
  BY <1>1, SessionsAssumption, FS_Subset, FS_CardinalityType

\* A step that carries out nothing and takes no request past the query.
LEMMA NoneFurther ==
  ASSUME RepeatInv, LockInv, NEW k \in Keys,
         carried'[k] = carried[k], PastCheck(k)' \subseteq PastCheck(k)
  PROVE  carried'[k] + Cardinality(PastCheck(k)') <= Cardinality(Sessions)
<1>1. Cardinality(PastCheck(k)') <= Cardinality(PastCheck(k))
  BY PastCheckFinite, FS_Subset
<1>2. carried[k] \in Nat
  BY DEF LockInv, TypeOK
<1> QED
  BY <1>1, <1>2, PastCheckFinite DEF RepeatInv

LEMMA RepeatCheck ==
  ASSUME RepeatInv, LockInv, NEW s \in Sessions, Check(s)
  PROVE  RepeatInv'
<1> SUFFICES ASSUME NEW k \in Keys
             PROVE  carried'[k] + Cardinality(PastCheck(k)') <= Cardinality(Sessions)
  BY DEF RepeatInv
<1>1. carried' = carried /\ carried[k] \in Nat
  BY DEF Check, Outside, LockInv, TypeOK
<1>2. CASE carried[k] = 0
  BY <1>1, <1>2, PastCheckFinite
<1>3. CASE carried[k] > 0
  <2>1. /\ session'[s].key = session[s].key /\ session'[s].wrote = session[s].wrote
        /\ session'[s].at = IF carried[session[s].key] > 0 THEN "committing" ELSE "starting"
        /\ \A t \in Sessions \ {s} : session'[t] = session[t]
    BY DEF Check, Goto, Set, LockInv, TypeOK, Requests
  <2>2. session[s].at = "checking" /\ session[s].wrote # "succeeded"
    BY DEF Check, At, LockInv, RequestOK
  <2>3. s \notin PastCheck(k)'
    BY <1>3, <2>1, <2>2 DEF PastCheck
  <2>4. PastCheck(k)' \subseteq PastCheck(k)
    BY <2>1, <2>3 DEF PastCheck
  <2> QED
    BY <1>1, <2>4, NoneFurther
<1> QED
  BY <1>1, <1>2, <1>3

LEMMA RepeatCommit ==
  ASSUME RepeatInv, LockInv, NEW s \in Sessions, Commit(s)
  PROVE  RepeatInv'
<1> SUFFICES ASSUME NEW k \in Keys
             PROVE  carried'[k] + Cardinality(PastCheck(k)') <= Cardinality(Sessions)
  BY DEF RepeatInv
<1>1. /\ session'[s] = Resting /\ \A t \in Sessions \ {s} : session'[t] = session[t]
      /\ session[s].at = "committing"
  BY DEF Commit, Set, At, LockInv, TypeOK
<1>2. PastCheck(k)' = PastCheck(k) \ {s}
  BY <1>1 DEF PastCheck, Resting
<1>3. CASE session[s].wrote = "succeeded" /\ session[s].key = k
  <2>1. carried'[k] = carried[k] + 1 /\ carried[k] \in Nat
    BY <1>3 DEF Commit, LockInv, TypeOK
  <2>2. s \in PastCheck(k)
    BY <1>1, <1>3 DEF PastCheck
  <2>3. Cardinality(PastCheck(k)') = Cardinality(PastCheck(k)) - 1
    BY <1>2, <2>2, PastCheckFinite, FS_RemoveElement
  <2> QED
    BY <2>1, <2>3, PastCheckFinite DEF RepeatInv
<1>4. CASE ~(session[s].wrote = "succeeded" /\ session[s].key = k)
  <2>1. carried'[k] = carried[k]
    BY <1>4 DEF Commit, LockInv, TypeOK, Requests
  <2> QED
    BY <1>2, <2>1, NoneFurther
<1> QED
  BY <1>3, <1>4

\* Every other step of s leaves it before the query, or where it was, or makes it end.
LEMMA RepeatOther ==
  ASSUME RepeatInv, LockInv, NEW s \in Sessions,
         NEW r \in Requests, Set(s, r), carried' = carried,
         \/ r.at \notin {"starting", "calling", "committing"}
         \/ r.at = "committing" /\ r.wrote # "succeeded"
         \/ session[s].at \in {"starting", "calling"} /\ r.key = session[s].key
         \/ r.at = session[s].at /\ r.wrote = session[s].wrote /\ r.key = session[s].key
  PROVE  RepeatInv'
<1> SUFFICES ASSUME NEW k \in Keys
             PROVE  carried'[k] + Cardinality(PastCheck(k)') <= Cardinality(Sessions)
  BY DEF RepeatInv
<1>1. session'[s] = r /\ \A t \in Sessions \ {s} : session'[t] = session[t]
  BY DEF Set, LockInv, TypeOK
<1>2. PastCheck(k)' \subseteq PastCheck(k)
  BY <1>1 DEF PastCheck
<1> QED
  BY <1>2, NoneFurther

\* The steps before the query, and those of an approver.
LEMMA RepeatBefore ==
  ASSUME RepeatInv, LockInv, NEW s \in Sessions,
         \/ StartCycle(s) \/ StartRuling(s) \/ TakeTheLead(s) \/ LeadIsBounded(s) \/ Look(s)
         \/ Rank(s) \/ Propose(s) \/ Insert(s) \/ Rule(s)
  PROVE  RepeatInv'
<1>1. session[s] \in Requests /\ Resting \in Requests /\ RequestOK(s)
  BY FirstKey DEF LockInv, TypeOK, Requests, Resting, Steps
<1>2. CASE StartCycle(s)
  <2>1. PICK step \in {"leading", "looking"} :
          Set(s, [Resting EXCEPT !.at = step, !.hyp = primary, !.dirty = TRUE])
    BY <1>2 DEF StartCycle
  <2> DEFINE r == [Resting EXCEPT !.at = step, !.hyp = primary, !.dirty = TRUE]
  <2>2. r \in Requests /\ r.at \in {"leading", "looking"}
    BY FirstKey DEF LockInv, TypeOK, Requests, Resting, Steps
  <2> QED
    BY <1>2, <2>1, <2>2, RepeatOther DEF StartCycle
<1>3. CASE StartRuling(s)
  <2>1. PICK k \in Keys, verdict \in {"approved", "rejected"} :
          Set(s, [Resting EXCEPT !.at = "ruling", !.key = k, !.verdict = verdict])
    BY <1>3 DEF StartRuling
  <2> DEFINE r == [Resting EXCEPT !.at = "ruling", !.key = k, !.verdict = verdict]
  <2>2. r \in Requests /\ r.at = "ruling"
    BY FirstKey DEF LockInv, TypeOK, Requests, Resting, Steps
  <2> QED
    BY <1>3, <2>1, <2>2, RepeatOther DEF StartRuling
<1>4. CASE TakeTheLead(s)
  <2> DEFINE r == [session[s] EXCEPT !.at = "looking", !.lead = minted + 1, !.hyp = minted + 1,
                                     !.dirty = TRUE]
  <2>1. minted + 1 \in Keys
    BY <1>4, HypothesesAssumption DEF TakeTheLead, LockInv, TypeOK, Keys
  <2>2. r \in Requests /\ r.at = "looking"
    BY <1>1, <2>1 DEF Requests, Steps
  <2> QED
    BY <1>4, <2>2, RepeatOther DEF TakeTheLead, Outside
<1>5. CASE LeadIsBounded(s)
  <2> DEFINE r == [session[s] EXCEPT !.at = "looking"]
  <2>1. r \in Requests /\ r.at = "looking"
    BY <1>1 DEF Requests, Steps
  <2> QED
    BY <1>5, <2>1, RepeatOther DEF LeadIsBounded, Goto, Outside
<1>6. CASE Look(s)
  <2>1. session[s].wrote = "nothing" /\ carried' = carried
    BY <1>1, <1>6 DEF Look, At, RequestOK, Outside
  <2>2. ASSUME NEW k \in Keys, Set(s, [session[s] EXCEPT !.at = Onward(status[k]), !.key = k])
        PROVE  RepeatInv'
    <3> DEFINE r == [session[s] EXCEPT !.at = Onward(status[k]), !.key = k]
    <3>1. r \in Requests /\ r.wrote = "nothing" /\ r.at \in {"checking", "committing"}
      BY <1>1, <2>1 DEF Requests, Steps, Onward
    <3>2. Set(s, r)
      BY <2>2
    <3> HIDE DEF r
    <3> QED
      BY <2>1, <3>1, <3>2, RepeatOther
  <2>3. ASSUME NEW changed \in BOOLEAN,
               Set(s, [session[s] EXCEPT !.at = "ranking", !.dirty = changed])
        PROVE  RepeatInv'
    <3> DEFINE r == [session[s] EXCEPT !.at = "ranking", !.dirty = changed]
    <3>1. r \in Requests /\ r.at = "ranking"
      BY <1>1 DEF Requests, Steps
    <3> QED
      BY <2>1, <2>3, <3>1, RepeatOther
  <2> QED
    BY <1>6, <2>2, <2>3 DEF Look
<1>7. CASE Rank(s)
  <2>1. session[s].wrote = "nothing" /\ carried' = carried
    BY <1>1, <1>7 DEF Rank, At, RequestOK, Outside
  <2>2. CASE Goto(s, "committing")
    <3> DEFINE r == [session[s] EXCEPT !.at = "committing"]
    <3>1. r \in Requests /\ r.wrote = "nothing" /\ r.at = "committing"
      BY <1>1, <2>1 DEF Requests, Steps
    <3> QED
      BY <2>1, <2>2, <3>1, RepeatOther DEF Goto
  <2>3. ASSUME NEW changed \in BOOLEAN,
               Set(s, [session[s] EXCEPT !.at = "proposing", !.key = session[s].hyp, !.dirty = changed])
        PROVE  RepeatInv'
    <3> DEFINE r == [session[s] EXCEPT !.at = "proposing", !.key = session[s].hyp, !.dirty = changed]
    <3>1. r \in Requests /\ r.at = "proposing"
      BY <1>1 DEF Requests, Steps
    <3> QED
      BY <2>1, <2>3, <3>1, RepeatOther
  <2> QED
    BY <1>7, <2>2, <2>3 DEF Rank
<1>8. CASE Propose(s)
  <2>1. session[s].wrote = "nothing" /\ carried' = carried
    BY <1>1, <1>8 DEF Propose, At, RequestOK, Outside
  <2> DEFINE k == session[s].key
             step == IF status[k] = "absent" THEN "inserting" ELSE Onward(status[k])
             r == [session[s] EXCEPT !.at = step]
  <2>2. r \in Requests /\ r.wrote = "nothing" /\ r.at \in {"inserting", "checking", "committing"}
    BY <1>1, <2>1 DEF Requests, Steps, Onward
  <2>3. Set(s, r)
    BY <1>8 DEF Propose, Goto
  <2> HIDE DEF r
  <2> QED
    BY <2>1, <2>2, <2>3, RepeatOther
<1>9. CASE Insert(s)
  <2> DEFINE gated == session[s].key \in GatedKeys
             r == [session[s] EXCEPT !.at = IF gated THEN "committing" ELSE "checking",
                                     !.wrote = IF gated THEN "pending_approval" ELSE "proposed"]
  <2>1. /\ r \in Requests
        /\ r.at \in {"committing", "checking"} /\ r.wrote \in {"pending_approval", "proposed"}
    BY <1>1 DEF Requests, Steps, RowStatuses
  <2>2. Set(s, r) /\ carried' = carried
    BY <1>9 DEF Insert, Outside
  <2> HIDE DEF r
  <2> QED
    BY <2>1, <2>2, RepeatOther
<1>10. CASE Rule(s)
  <2>1. carried' = carried
    BY <1>10 DEF Rule
  <2>2. CASE Set(s, Resting)
    BY <1>1, <2>1, <2>2, RepeatOther DEF Resting
  <2>3. CASE Set(s, [session[s] EXCEPT !.at = "looking", !.own = TRUE, !.hyp = primary])
    <3> DEFINE r == [session[s] EXCEPT !.at = "looking", !.own = TRUE, !.hyp = primary]
    <3>1. primary \in Keys
      BY DEF LockInv, TypeOK
    <3>2. r \in Requests /\ r.at = "looking"
      BY <1>1, <3>1 DEF Requests, Steps
    <3> QED
      BY <2>1, <2>3, <3>2, RepeatOther
  <2> QED
    BY <1>10, <2>2, <2>3 DEF Rule
<1> QED
  BY <1>2, <1>3, <1>4, <1>5, <1>6, <1>7, <1>8, <1>9, <1>10

LEMMA RepeatKeeps ==
  ASSUME RepeatInv, LockInv, [Next]_vars
  PROVE  RepeatInv'
<1>1. CASE UNCHANGED vars
  BY <1>1 DEF vars, RepeatInv, PastCheck
<1>2. ASSUME NEW s \in Sessions, Work(s) \/ StartCycle(s) \/ StartRuling(s) \/ Crash(s)
      PROVE  RepeatInv'
  <2>1. session[s] \in Requests /\ Resting \in Requests
    BY FirstKey DEF LockInv, TypeOK, Requests, Resting, Steps
  <2>2. CASE Check(s)
    BY <2>2, RepeatCheck
  <2>3. CASE Commit(s)
    BY <2>3, RepeatCommit
  <2>4. CASE DeadlockVictim(s) \/ Crash(s)
    <3>1. Set(s, Resting) /\ carried' = carried
      BY <2>4 DEF DeadlockVictim, Crash, Abort
    <3> QED
      BY <2>1, <3>1, RepeatOther DEF Resting
  <2>5. CASE Start(s)
    <3> DEFINE r == [session[s] EXCEPT !.at = "calling", !.wrote = "executing"]
    <3>1. r \in Requests /\ r.key = session[s].key
      BY <2>1 DEF Requests, Steps
    <3> QED
      BY <2>5, <3>1, RepeatOther DEF Start, At, Outside
  <2>6. CASE Succeed(s)
    <3>1. PICK changed \in BOOLEAN :
            Set(s, [session[s] EXCEPT !.at = "committing", !.wrote = "succeeded", !.dirty = changed])
      BY <2>6 DEF Succeed
    <3> DEFINE r == [session[s] EXCEPT !.at = "committing", !.wrote = "succeeded", !.dirty = changed]
    <3>2. r \in Requests /\ r.key = session[s].key
      BY <2>1 DEF Requests, Steps, RowStatuses
    <3> QED
      BY <2>6, <3>1, <3>2, RepeatOther DEF Succeed, At, Outside
  <2>7. CASE Fail(s)
    <3> DEFINE r == [session[s] EXCEPT !.at = "committing", !.wrote = "failed"]
    <3>1. r \in Requests /\ r.key = session[s].key
      BY <2>1 DEF Requests, Steps, RowStatuses
    <3> QED
      BY <2>7, <3>1, RepeatOther DEF Fail, At, Outside
  <2>8. CASE FlushCase(s)
    <3> DEFINE r == [session[s] EXCEPT !.dirty = FALSE]
    <3>1. /\ r \in Requests /\ r.key = session[s].key
          /\ r.at = session[s].at /\ r.wrote = session[s].wrote
      BY <2>1 DEF Requests
    <3> QED
      BY <2>8, <3>1, RepeatOther DEF FlushCase, Outside
  <2>9. CASE StartCycle(s) \/ StartRuling(s) \/ TakeTheLead(s) \/ LeadIsBounded(s) \/ Look(s)
             \/ Rank(s) \/ Propose(s) \/ Insert(s) \/ Rule(s)
    BY <2>9, RepeatBefore
  <2> QED
    BY <1>2, <2>2, <2>3, <2>4, <2>5, <2>6, <2>7, <2>8, <2>9 DEF Work
<1> QED
  BY <1>1, <1>2 DEF Next

LEMMA RepeatInit ==
  ASSUME Init
  PROVE  RepeatInv
<1>1. ASSUME NEW k \in Keys PROVE carried[k] + Cardinality(PastCheck(k)) <= Cardinality(Sessions)
  <2>1. carried[k] = 0 /\ PastCheck(k) = {}
    BY <1>1 DEF Init, PastCheck, Resting
  <2> QED
    BY <2>1, FS_EmptySet, PastCheckFinite
<1> QED
  BY <1>1 DEF RepeatInv

-----------------------------------------------------------------------------
(* How far a request is from its end, and which rows it holds.             *)

\* The statements a request may still issue, the one it is at included.
Ahead(step) ==
  CASE step = "idle" -> 0
    [] step = "committing" -> 1
    [] step = "calling" -> 2
    [] step = "starting" -> 3
    [] step = "checking" -> 4
    [] step = "inserting" -> 5
    [] step = "proposing" -> 6
    [] step = "ranking" -> 7
    [] step = "looking" -> 8
    [] step \in {"leading", "ruling"} -> 9

\* Every statement may be preceded by the flush of the case.
Left(r) == 2 * Ahead(r.at) + (IF r.dirty THEN 1 ELSE 0)

\* The rows a request may hold: the case, and the remedy it has written.
Own(r) == {CaseRow} \cup (IF r.wrote = "nothing" THEN {} ELSE {r.key})

ClaimOK(s) ==
  /\ \A row \in Rows : holder[row] = s => row \in Own(session[s])
  /\ session[s].at \in {"idle", "ruling"} =>
       ~session[s].dirty /\ \A row \in Rows : holder[row] # s

ClaimInv == \A s \in Sessions : ClaimOK(s)

\* What a step of session s does: it takes rows or gives its own back, and ends the request or
\* brings it forward.
Turn(s) ==
  /\ session' \in [Sessions -> Requests]
  /\ \A t \in Sessions \ {s} : session'[t] = session[t]
  /\ \A row \in Rows : holder'[row] \in {holder[row], s, Nobody}
  /\ ClaimOK(s)'
  /\ At(s, "idle") \/ Left(session'[s]) < Left(session[s])

\* One session moves at a time.  It takes up a request, which is counted, or brings the one it is
\* at nearer to its end.
Advance ==
  \E s \in Sessions :
    /\ \A t \in Sessions \ {s} : session'[t] = session[t]
    /\ IF At(s, "idle") THEN asked' = asked + 1
                        ELSE asked' = asked /\ Left(session'[s]) < Left(session[s])

LEMMA LeftIsNat ==
  ASSUME NEW r \in Requests
  PROVE  Left(r) \in 0 .. 19
BY DEF Left, Ahead, Requests, Steps

\* A step that moves the request forward and leaves the rows alone.
LEMMA MoveTurns ==
  ASSUME LockInv, ClaimInv, NEW s \in Sessions, NEW r \in Requests,
         Set(s, r), UNCHANGED holder,
         r.at \in {"idle", "ruling"} => ~r.dirty /\ session[s].at \in {"idle", "ruling"},
         session[s].wrote = "nothing" \/ (r.wrote # "nothing" /\ r.key = session[s].key),
         At(s, "idle") \/ Left(r) < Left(session[s])
  PROVE  Turn(s)
<1>1. session' \in [Sessions -> Requests] /\ session'[s] = r
  BY DEF Set, LockInv, TypeOK
<1>2. \A t \in Sessions \ {s} : session'[t] = session[t]
  BY DEF Set, LockInv, TypeOK
<1>3. Own(session[s]) \subseteq Own(r)
  BY DEF Own
<1>4. ClaimOK(s)'
  BY <1>1, <1>3 DEF ClaimOK, ClaimInv, At
<1> QED
  BY <1>1, <1>2, <1>4 DEF Turn

\* A step that writes a row.
LEMMA TakeTurns ==
  ASSUME LockInv, ClaimInv, NEW s \in Sessions, NEW r \in Requests, NEW row \in Rows,
         Set(s, r), Take(row, s), r.at \notin {"idle", "ruling"},
         row \in Own(r),
         session[s].wrote = "nothing" \/ (r.wrote # "nothing" /\ r.key = session[s].key),
         Left(r) < Left(session[s])
  PROVE  Turn(s)
<1>1. session' \in [Sessions -> Requests] /\ session'[s] = r
  BY DEF Set, LockInv, TypeOK
<1>2. \A t \in Sessions \ {s} : session'[t] = session[t]
  BY DEF Set, LockInv, TypeOK
<1>3. Own(session[s]) \subseteq Own(r)
  BY DEF Own
<1>4. \A other \in Rows : holder'[other] = IF other = row THEN s ELSE holder[other]
  BY DEF Take, LockInv, TypeOK
<1>5. ClaimOK(s)'
  BY <1>1, <1>3, <1>4 DEF ClaimOK, ClaimInv, At
<1> QED
  BY <1>1, <1>2, <1>4, <1>5 DEF Turn

\* A step that ends the request.
LEMMA EndTurns ==
  ASSUME LockInv, NEW s \in Sessions,
         Set(s, Resting), holder' = Released(s), ~At(s, "idle")
  PROVE  Turn(s)
<1>1. Resting \in Requests
  BY FirstKey DEF Requests, Resting, Steps
<1>2. session' \in [Sessions -> Requests] /\ session'[s] = Resting
  BY <1>1 DEF Set, LockInv, TypeOK
<1>3. \A t \in Sessions \ {s} : session'[t] = session[t]
  BY DEF Set, LockInv, TypeOK
<1>4. \A row \in Rows : holder'[row] = IF holder[row] = s THEN Nobody ELSE holder[row]
  BY DEF Released
<1>5. ClaimOK(s)'
  BY <1>2, <1>4, SessionsAssumption DEF ClaimOK, At, Resting
<1>6. Left(Resting) < Left(session[s])
  BY DEF At, Left, Ahead, Resting, LockInv, TypeOK, Requests, Steps
<1> QED
  BY <1>2, <1>3, <1>4, <1>5, <1>6 DEF Turn

LEMMA RequestsTurn ==
  ASSUME LockInv, ClaimInv, NEW s \in Sessions, StartCycle(s) \/ StartRuling(s)
  PROVE  Turn(s)
<1>1. session[s].wrote = "nothing"
  BY DEF StartCycle, StartRuling, At, LockInv, RequestOK
<1>2. CASE StartCycle(s)
  <2>1. PICK step \in {"leading", "looking"} :
          Set(s, [Resting EXCEPT !.at = step, !.hyp = primary, !.dirty = TRUE])
    BY <1>2 DEF StartCycle
  <2> DEFINE r == [Resting EXCEPT !.at = step, !.hyp = primary, !.dirty = TRUE]
  <2>2. r \in Requests /\ r.at \in {"leading", "looking"}
    BY FirstKey DEF LockInv, TypeOK, Requests, Resting, Steps
  <2> QED
    BY <1>1, <1>2, <2>1, <2>2, MoveTurns DEF StartCycle, At
<1>3. CASE StartRuling(s)
  <2>1. PICK k \in Keys, verdict \in {"approved", "rejected"} :
           Set(s, [Resting EXCEPT !.at = "ruling", !.key = k, !.verdict = verdict])
    BY <1>3 DEF StartRuling
  <2> DEFINE r == [Resting EXCEPT !.at = "ruling", !.key = k, !.verdict = verdict]
  <2>2. r \in Requests /\ ~r.dirty
    BY FirstKey DEF LockInv, TypeOK, Requests, Resting, Steps
  <2> QED
    BY <1>1, <1>3, <2>1, <2>2, MoveTurns DEF StartRuling, At
<1> QED
  BY <1>2, <1>3

LEMMA FlushTurns ==
  ASSUME LockInv, ClaimInv, NEW s \in Sessions, FlushCase(s)
  PROVE  Turn(s)
<1> DEFINE r == [session[s] EXCEPT !.dirty = FALSE]
<1>1. session[s] \in Requests /\ session[s].dirty
  BY DEF FlushCase, LockInv, TypeOK
<1>2. /\ r \in Requests /\ r.at = session[s].at /\ r.wrote = session[s].wrote
      /\ r.key = session[s].key /\ ~r.dirty
  BY <1>1 DEF Requests
<1>3. session[s].at \notin {"idle", "ruling"}
  BY <1>1 DEF ClaimInv, ClaimOK
<1>4. Set(s, r) /\ Take(CaseRow, s) /\ CaseRow \in Rows /\ CaseRow \in Own(r)
  BY DEF FlushCase, Rows, Own
<1>5. Left(r) < Left(session[s])
  BY <1>1, <1>2 DEF Left, Ahead, Requests, Steps
<1> HIDE DEF r
<1> QED
  BY <1>2, <1>3, <1>4, <1>5, TakeTurns

LEMMA LeadTurns ==
  ASSUME LockInv, ClaimInv, NEW s \in Sessions, TakeTheLead(s) \/ LeadIsBounded(s)
  PROVE  Turn(s)
<1>1. /\ session[s].wrote = "nothing" /\ session[s] \in Requests /\ session[s].at = "leading"
      /\ ~session[s].dirty
  BY DEF TakeTheLead, LeadIsBounded, At, LockInv, RequestOK, TypeOK, ClaimInv, ClaimOK
<1>2. CASE TakeTheLead(s)
  <2> DEFINE r == [session[s] EXCEPT !.at = "looking", !.lead = minted + 1, !.hyp = minted + 1,
                                     !.dirty = TRUE]
  <2>1. minted + 1 \in Keys
    BY <1>2, HypothesesAssumption DEF TakeTheLead, LockInv, TypeOK, Keys
  <2>2. r \in Requests /\ r.at = "looking" /\ r.dirty
    BY <1>1, <2>1 DEF Requests, Steps
  <2>3. Left(r) < Left(session[s])
    BY <1>1, <2>2 DEF Left, Ahead
  <2> QED
    BY <1>1, <1>2, <2>2, <2>3, MoveTurns DEF TakeTheLead
<1>3. CASE LeadIsBounded(s)
  <2> DEFINE r == [session[s] EXCEPT !.at = "looking"]
  <2>1. r \in Requests /\ r.at = "looking" /\ ~r.dirty
    BY <1>1 DEF Requests, Steps
  <2>2. Left(r) < Left(session[s])
    BY <1>1, <2>1 DEF Left, Ahead
  <2> QED
    BY <1>1, <1>3, <2>1, <2>2, MoveTurns DEF LeadIsBounded, Goto
<1> QED
  BY <1>2, <1>3

LEMMA LookTurns ==
  ASSUME LockInv, ClaimInv, NEW s \in Sessions, Look(s)
  PROVE  Turn(s)
<1>1. /\ session[s].wrote = "nothing" /\ session[s] \in Requests /\ session[s].at = "looking"
      /\ ~session[s].dirty
  BY DEF Look, At, LockInv, RequestOK, TypeOK
<1>2. ASSUME NEW k \in Keys, Set(s, [session[s] EXCEPT !.at = Onward(status[k]), !.key = k])
      PROVE  Turn(s)
  <2> DEFINE r == [session[s] EXCEPT !.at = Onward(status[k]), !.key = k]
  <2>1. r \in Requests /\ r.at \in {"checking", "committing"} /\ ~r.dirty
    BY <1>1 DEF Requests, Steps, Onward
  <2>2. Left(r) < Left(session[s])
    BY <1>1, <2>1 DEF Left, Ahead
  <2>3. Set(s, r) /\ UNCHANGED holder
    BY <1>2 DEF Look
  <2> HIDE DEF r
  <2> QED
    BY <1>1, <2>1, <2>2, <2>3, MoveTurns
<1>3. ASSUME NEW changed \in BOOLEAN,
             Set(s, [session[s] EXCEPT !.at = "ranking", !.dirty = changed])
      PROVE  Turn(s)
  <2> DEFINE r == [session[s] EXCEPT !.at = "ranking", !.dirty = changed]
  <2>1. r \in Requests /\ r.at = "ranking"
    BY <1>1 DEF Requests, Steps
  <2>2. Left(r) < Left(session[s])
    BY <1>1, <2>1 DEF Left, Ahead
  <2>3. Set(s, r) /\ UNCHANGED holder
    BY <1>3 DEF Look
  <2> HIDE DEF r
  <2> QED
    BY <1>1, <2>1, <2>2, <2>3, MoveTurns
<1> QED
  BY <1>2, <1>3 DEF Look

LEMMA RankTurns ==
  ASSUME LockInv, ClaimInv, NEW s \in Sessions, Rank(s)
  PROVE  Turn(s)
<1>1. /\ session[s].wrote = "nothing" /\ session[s] \in Requests /\ session[s].at = "ranking"
      /\ ~session[s].dirty /\ UNCHANGED holder
  BY DEF Rank, At, LockInv, RequestOK, TypeOK
<1>2. CASE Goto(s, "committing")
  <2> DEFINE r == [session[s] EXCEPT !.at = "committing"]
  <2>1. r \in Requests /\ r.at = "committing" /\ ~r.dirty
    BY <1>1 DEF Requests, Steps
  <2>2. Left(r) < Left(session[s])
    BY <1>1, <2>1 DEF Left, Ahead
  <2> QED
    BY <1>1, <1>2, <2>1, <2>2, MoveTurns DEF Goto
<1>3. ASSUME NEW changed \in BOOLEAN,
             Set(s, [session[s] EXCEPT !.at = "proposing", !.key = session[s].hyp, !.dirty = changed])
      PROVE  Turn(s)
  <2> DEFINE r == [session[s] EXCEPT !.at = "proposing", !.key = session[s].hyp, !.dirty = changed]
  <2>1. r \in Requests /\ r.at = "proposing"
    BY <1>1 DEF Requests, Steps
  <2>2. Left(r) < Left(session[s])
    BY <1>1, <2>1 DEF Left, Ahead
  <2>3. Set(s, r)
    BY <1>3
  <2> HIDE DEF r
  <2> QED
    BY <1>1, <2>1, <2>2, <2>3, MoveTurns
<1> QED
  BY <1>2, <1>3 DEF Rank

LEMMA ProposeTurns ==
  ASSUME LockInv, ClaimInv, NEW s \in Sessions, Propose(s)
  PROVE  Turn(s)
<1>1. session[s].wrote = "nothing" /\ session[s] \in Requests /\ session[s].at = "proposing"
  BY DEF Propose, At, LockInv, RequestOK, TypeOK
<1> DEFINE st == status[session[s].key]
           r == [session[s] EXCEPT !.at = IF st = "absent" THEN "inserting" ELSE Onward(st)]
<1>2. /\ r \in Requests /\ r.at \in {"inserting", "checking", "committing"}
      /\ r.dirty = session[s].dirty
  BY <1>1 DEF Requests, Steps, Onward
<1>3. Left(r) < Left(session[s])
  BY <1>1, <1>2 DEF Left, Ahead
<1> QED
  BY <1>1, <1>2, <1>3, MoveTurns DEF Propose, Goto

LEMMA InsertTurns ==
  ASSUME LockInv, ClaimInv, NEW s \in Sessions, Insert(s)
  PROVE  Turn(s)
<1> DEFINE k == session[s].key
           gated == k \in GatedKeys
           r == [session[s] EXCEPT !.at = IF gated THEN "committing" ELSE "checking",
                                   !.wrote = IF gated THEN "pending_approval" ELSE "proposed"]
<1>1. session[s].wrote = "nothing" /\ session[s] \in Requests /\ session[s].at = "inserting"
  BY DEF Insert, At, LockInv, RequestOK, TypeOK
<1>2. /\ r \in Requests /\ r.at \in {"committing", "checking"} /\ r.wrote # "nothing"
      /\ r.key = k /\ r.dirty = session[s].dirty
  BY <1>1 DEF Requests, Steps, RowStatuses
<1>3. Set(s, r) /\ Take(k, s) /\ k \in Rows /\ k \in Own(r)
  BY <1>1, <1>2 DEF Insert, Rows, Own, Requests
<1>4. Left(r) < Left(session[s])
  BY <1>1, <1>2 DEF Left, Ahead
<1> HIDE DEF r, k
<1> QED
  BY <1>1, <1>2, <1>3, <1>4, TakeTurns

LEMMA ExecutionTurns ==
  ASSUME LockInv, ClaimInv, NEW s \in Sessions, Check(s) \/ Start(s) \/ Succeed(s) \/ Fail(s)
  PROVE  Turn(s)
<1>1. session[s] \in Requests /\ RequestOK(s)
  BY DEF LockInv, TypeOK
<1>2. CASE Check(s)
  <2> DEFINE r == [session[s] EXCEPT !.at = IF carried[session[s].key] > 0 THEN "committing"
                                                                           ELSE "starting"]
  <2>1. /\ r \in Requests /\ r.at \in {"committing", "starting"} /\ r.wrote = session[s].wrote
        /\ r.key = session[s].key /\ r.dirty = session[s].dirty /\ session[s].at = "checking"
    BY <1>1, <1>2 DEF Check, At, Requests, Steps
  <2>2. Left(r) < Left(session[s])
    BY <2>1 DEF Left, Ahead
  <2>3. Set(s, r) /\ UNCHANGED holder
    BY <1>2 DEF Check, Goto
  <2> HIDE DEF r
  <2> QED
    BY <1>1, <2>1, <2>2, <2>3, MoveTurns
<1>3. CASE Start(s)
  <2> DEFINE k == session[s].key
             r == [session[s] EXCEPT !.at = "calling", !.wrote = "executing"]
  <2>1. /\ r \in Requests /\ r.at = "calling" /\ r.wrote = "executing" /\ r.key = k
        /\ r.dirty = session[s].dirty /\ session[s].at = "starting"
    BY <1>1, <1>3 DEF Start, At, Requests, Steps
  <2>2. Set(s, r) /\ Take(k, s) /\ k \in Rows /\ k \in Own(r)
    BY <1>1, <1>3, <2>1 DEF Start, Rows, Own, Requests
  <2>3. Left(r) < Left(session[s])
    BY <2>1 DEF Left, Ahead
  <2> HIDE DEF r, k
  <2> QED
    BY <2>1, <2>2, <2>3, TakeTurns DEF k
<1>4. ASSUME NEW changed \in BOOLEAN, NEW result \in {"succeeded", "failed"},
             session[s].at = "calling", ~session[s].dirty, UNCHANGED holder,
             Set(s, [session[s] EXCEPT !.at = "committing", !.wrote = result, !.dirty = changed])
      PROVE  Turn(s)
  <2> DEFINE r == [session[s] EXCEPT !.at = "committing", !.wrote = result, !.dirty = changed]
  <2>1. r \in Requests /\ r.at = "committing" /\ r.wrote # "nothing" /\ r.key = session[s].key
    BY <1>1 DEF Requests, Steps, RowStatuses
  <2>2. Left(r) < Left(session[s])
    BY <1>4, <2>1 DEF Left, Ahead
  <2>3. Set(s, r)
    BY <1>4
  <2> HIDE DEF r
  <2> QED
    BY <1>4, <2>1, <2>2, <2>3, MoveTurns
<1>5. CASE Succeed(s)
  BY <1>4, <1>5 DEF Succeed, At
<1>6. CASE Fail(s)
  <2>1. [session[s] EXCEPT !.at = "committing", !.wrote = "failed"]
          = [session[s] EXCEPT !.at = "committing", !.wrote = "failed", !.dirty = FALSE]
    BY <1>1, <1>6 DEF Fail, Requests
  <2> QED
    BY <1>4, <1>6, <2>1 DEF Fail, At
<1> QED
  BY <1>2, <1>3, <1>5, <1>6

LEMMA EndingTurns ==
  ASSUME LockInv, ClaimInv, NEW s \in Sessions,
         Commit(s) \/ DeadlockVictim(s) \/ Crash(s)
  PROVE  Turn(s)
<1>1. DeadlockVictim(s) => ~At(s, "idle")
  <2>1. ~At(s, "idle") \/ Wants(s) = {}
    BY DEF ClaimInv, ClaimOK, At, Wants
  <2>2. DeadlockVictim(s) => Wants(s) # {}
    BY DEF DeadlockVictim, Deadlocked, WaitsFor
  <2> QED
    BY <2>1, <2>2
<1>2. ~At(s, "idle")
  BY <1>1 DEF Commit, Crash, At
<1>3. Set(s, Resting) /\ holder' = Released(s)
  BY DEF Commit, DeadlockVictim, Crash, Abort
<1> QED
  BY <1>2, <1>3, EndTurns

LEMMA RuleTurns ==
  ASSUME LockInv, ClaimInv, NEW s \in Sessions, Rule(s)
  PROVE  Turn(s)
<1>1. /\ session[s].wrote = "nothing" /\ session[s] \in Requests /\ session[s].at = "ruling"
      /\ ~session[s].dirty /\ UNCHANGED holder /\ primary \in Keys
  BY DEF Rule, At, LockInv, RequestOK, TypeOK, ClaimInv, ClaimOK
<1>2. CASE Set(s, Resting)
  <2>1. Resting \in Requests /\ ~Resting.dirty /\ Resting.at = "idle"
    BY FirstKey DEF Requests, Resting, Steps
  <2>2. Left(Resting) < Left(session[s])
    BY <1>1, <2>1 DEF Left, Ahead
  <2> QED
    BY <1>1, <1>2, <2>1, <2>2, MoveTurns
<1>3. CASE Set(s, [session[s] EXCEPT !.at = "looking", !.own = TRUE, !.hyp = primary])
  <2> DEFINE r == [session[s] EXCEPT !.at = "looking", !.own = TRUE, !.hyp = primary]
  <2>1. r \in Requests /\ ~r.dirty /\ r.at = "looking"
    BY <1>1 DEF Requests, Steps
  <2>2. Left(r) < Left(session[s])
    BY <1>1, <2>1 DEF Left, Ahead
  <2> QED
    BY <1>1, <1>3, <2>1, <2>2, MoveTurns
<1> QED
  BY <1>2, <1>3 DEF Rule

LEMMA StepTurns ==
  ASSUME LockInv, ClaimInv,
         NEW s \in Sessions, Work(s) \/ StartCycle(s) \/ StartRuling(s) \/ Crash(s)
  PROVE  Turn(s)
BY RequestsTurn, FlushTurns, LeadTurns, LookTurns, RankTurns, ProposeTurns, InsertTurns,
   ExecutionTurns, EndingTurns, RuleTurns DEF Work

LEMMA ClaimInit ==
  ASSUME Init
  PROVE  ClaimInv
BY SessionsAssumption DEF Init, ClaimInv, ClaimOK, Resting

LEMMA ClaimKeeps ==
  ASSUME LockInv, ClaimInv, [Next]_vars
  PROVE  ClaimInv'
<1>1. CASE UNCHANGED vars
  BY <1>1 DEF vars, ClaimInv, ClaimOK, At
<1>2. CASE Next
  <2>1. PICK s \in Sessions : Turn(s)
    BY <1>2, StepTurns DEF Next
  <2>2. ASSUME NEW t \in Sessions \ {s} PROVE ClaimOK(t)'
    <3>1. session'[t] = session[t] /\ \A row \in Rows : holder'[row] = t => holder[row] = t
      BY <2>1, SessionsAssumption DEF Turn
    <3> QED
      BY <3>1 DEF ClaimInv, ClaimOK, At
  <2> QED
    BY <2>1, <2>2 DEF Turn, ClaimInv
<1> QED
  BY <1>1, <1>2

\* A session waits for the case or for the remedy at hand, and for nothing it holds.
LEMMA WaitsForRow ==
  ASSUME NEW s \in Sessions, NEW t \in Sessions, session[s] \in Requests, WaitsFor(s, t)
  PROVE  s # t /\ \E row \in Rows : row \in {CaseRow, session[s].key} /\ holder[row] = t
BY DEF WaitsFor, Wants, Requests, Rows

\* Who holds a remedy waits for the case only, and who holds the case for a remedy only.
LEMMA TwoRows ==
  ASSUME LockInv, ClaimInv, NEW s \in Sessions, NEW t \in Sessions, NEW row \in Rows,
         holder[row] = s, WaitsFor(s, t)
  PROVE  IF row = CaseRow THEN holder[session[s].key] = t ELSE holder[CaseRow] = t
<1>1. session[s] \in Requests /\ row \in Own(session[s])
  BY DEF LockInv, TypeOK, ClaimInv, ClaimOK
<1>2. s # t /\ (holder[CaseRow] = t \/ holder[session[s].key] = t)
  BY <1>1, WaitsForRow
<1> QED
  BY <1>1, <1>2 DEF Own

LEMMA PairOfSessions ==
  ASSUME LockInv, ClaimInv, NEW s \in Sessions, Deadlocked(s)
  PROVE  \E t \in Sessions :
           WaitsFor(s, t) /\ WaitsFor(t, s) /\ (holder[CaseRow] = s \/ holder[CaseRow] = t)
<1>1. PICK circle \in SUBSET Sessions :
        /\ s \in circle
        /\ \A t \in circle : /\ \E next \in circle : WaitsFor(t, next)
                             /\ \E last \in circle : WaitsFor(last, t)
  BY DEF Deadlocked
<1>2. PICK next \in circle : WaitsFor(s, next)
  BY <1>1
<1>3. PICK last \in circle : WaitsFor(last, s)
  BY <1>1
<1>4. ASSUME NEW t \in circle
      PROVE  /\ t \in Sessions /\ session[t] \in Requests
             /\ session[t].key \in Rows /\ session[t].key # CaseRow
  BY <1>1 DEF LockInv, TypeOK, Requests, Rows, Keys, CaseRow
<1>5. CaseRow \in Rows
  BY DEF Rows
<1>6. PICK held \in Rows : held \in {CaseRow, session[last].key} /\ holder[held] = s /\ last # s
  BY <1>3, <1>4, WaitsForRow
<1>7. CASE held = CaseRow
  \* next holds the remedy that s waits for, and so it waits for s.
  <2>1. holder[session[s].key] = next
    BY <1>2, <1>4, <1>5, <1>6, <1>7, TwoRows
  <2>2. PICK third \in circle : WaitsFor(next, third)
    BY <1>1
  <2>3. session[s].key \in Rows /\ session[s].key # CaseRow /\ next \in Sessions /\ third \in Sessions
    BY <1>1, <1>4
  <2>4. holder[CaseRow] = third
    BY <2>1, <2>2, <2>3, TwoRows
  <2> QED
    BY <1>1, <1>2, <1>6, <1>7, <2>2, <2>3, <2>4
<1>8. CASE held # CaseRow
  \* next holds the case that s waits for.  So does last, which waits for the remedy of s, since it
  \* holds a row and it cannot be the remedy.
  <2>1. holder[CaseRow] = next
    BY <1>2, <1>4, <1>6, <1>8, TwoRows
  <2>2. PICK third \in circle : WaitsFor(third, last)
    BY <1>1
  <2>3. PICK row \in Rows : holder[row] = last
    BY <1>4, <2>2, WaitsForRow
  <2>4. row \in Own(session[last])
    BY <1>4, <2>3 DEF ClaimInv, ClaimOK
  <2>5. held = session[last].key
    BY <1>6, <1>8
  <2>6. row = CaseRow
    BY <1>6, <2>3, <2>4, <2>5 DEF Own
  <2> QED
    BY <1>1, <1>2, <1>3, <1>4, <2>1, <2>3, <2>6
<1> QED
  BY <1>7, <1>8

\* Only the session that has inserted it commits a remedy that needs no approval.
LEMMA InlineStays ==
  ASSUME LockInv, [Next]_vars, NEW k \in Keys \ GatedKeys, status[k] # "absent"
  PROVE  status'[k] = status[k]
<1>1. CASE UNCHANGED vars
  BY <1>1 DEF vars
<1>2. ASSUME NEW s \in Sessions, Work(s) \/ StartCycle(s) \/ StartRuling(s) \/ Crash(s)
      PROVE  status'[k] = status[k]
  <2>1. RequestOK(s) /\ session[s].key \in Keys
    BY DEF LockInv, TypeOK, Requests
  <2>2. CASE Commit(s)
    BY <2>1, <2>2 DEF Commit, RequestOK, LockInv, TypeOK
  <2>3. CASE Rule(s)
    BY <2>1, <2>3 DEF Rule, At, RequestOK, LockInv, TypeOK
  <2>4. CASE ~Commit(s) /\ ~Rule(s)
    BY <1>2, <2>4 DEF Work, FlushCase, TakeTheLead, LeadIsBounded, Look, Rank, Propose, Insert,
       Check, Start, Succeed, Fail, DeadlockVictim, Abort, StartCycle, StartRuling,
       Crash, Committed
  <2> QED
    BY <2>2, <2>3, <2>4
<1> QED
  BY <1>1, <1>2 DEF Next

\* Only a request that is taken up is counted, and only an idle session takes one up.
LEMMA OneStatement ==
  ASSUME LockInv, ClaimInv, Next
  PROVE  Advance
<1>1. PICK s \in Sessions : Work(s) \/ StartCycle(s) \/ StartRuling(s) \/ Crash(s)
  BY DEF Next
<1>2. Turn(s)
  BY <1>1, StepTurns
<1>3. CASE StartCycle(s) \/ StartRuling(s)
  BY <1>2, <1>3 DEF StartCycle, StartRuling, Advance, Turn
<1>4. CASE Work(s) \/ Crash(s)
  <2>1. asked' = asked
    BY <1>4 DEF Work, FlushCase, TakeTheLead, LeadIsBounded, Look, Rank, Propose, Insert,
       Check, Start, Succeed, Fail, Commit, Rule, DeadlockVictim, Abort, Crash, Outside
  <2>2. ~At(s, "idle")
    <3>1. At(s, "idle") => ~session[s].dirty /\ Wants(s) = {}
      BY DEF ClaimInv, ClaimOK, At, Wants
    <3>2. DeadlockVictim(s) => Wants(s) # {}
      BY DEF DeadlockVictim, Deadlocked, WaitsFor
    <3> QED
      BY <1>4, <3>1, <3>2 DEF Work, FlushCase, TakeTheLead, LeadIsBounded, Look, Rank, Propose,
         Insert, Check, Start, Succeed, Fail, Commit, Rule, Crash, At
  <2> QED
    BY <1>2, <2>1, <2>2 DEF Advance, Turn
<1> QED
  BY <1>1, <1>3, <1>4

-----------------------------------------------------------------------------
(* What a cycle has decided on, and why it is still true.                  *)

\* The cycle holds the row of the case, no remedy is on record, and the one at hand is keyed by the
\* hypothesis that leads once the cycle has committed.
Fresh(s) ==
  LET r == session[s]
  IN  /\ ~r.own /\ holder[CaseRow] = s
      /\ \A k \in Keys : status[k] = "absent"
      /\ r.key = IF r.lead = 0 THEN primary ELSE r.lead

\* A cycle that has written the date of the case.
Dated(s) ==
  LET r == session[s]
  IN  ~r.own /\ r.at \notin {"idle", "ruling"} /\ ~(r.dirty /\ r.at \in {"leading", "looking"})

\* A cycle decides under the row of the case; an approver never proposes, and does not take that
\* row before it has executed or found nothing to execute; and a row that is only read, not
\* inserted, is there.
SerialOK(s) ==
  LET r == session[s]
  IN  /\ Dated(s) => holder[CaseRow] = s
      /\ r.own =>
           /\ r.at \in {"looking", "ranking", "checking", "starting", "calling", "committing"}
           /\ r.at \in {"looking", "checking", "starting", "calling"} =>
                ~r.dirty /\ holder[CaseRow] # s
      /\ r.lead # 0 => ~r.own /\ r.at \notin {"ruling", "leading"} /\ r.hyp = r.lead
      /\ r.at \in {"proposing", "inserting"} \/ (r.wrote # "nothing" /\ status[r.key] = "absent")
           => Fresh(s)
      /\ (r.at \in {"checking", "starting"} /\ r.wrote = "nothing") \/ r.at = "ruling"
           => status[r.key] # "absent"

SerialInv ==
  /\ \A s \in Sessions : SerialOK(s)
  /\ \A k \in Keys : decision[k] # "none" => status[k] # "absent"

SInv == LockInv /\ ClaimInv /\ SerialInv

Step(s) == Work(s) \/ StartCycle(s) \/ StartRuling(s) \/ Crash(s)

LEMMA SerialInit ==
  ASSUME Init
  PROVE  SerialInv
<1>1. ASSUME NEW s \in Sessions PROVE SerialOK(s)
  BY <1>1 DEF Init, SerialOK, Dated, Resting
<1> QED
  BY <1>1 DEF Init, SerialInv

\* A session leaves the rows of the others alone.
LEMMA RowsOfOthers ==
  ASSUME LockInv, NEW s \in Sessions, Step(s), NEW row \in Rows, holder[row] # Nobody, holder[row] # s
  PROVE  holder'[row] = holder[row]
<1>1. holder' = holder \/ (\E other \in Rows : Take(other, s)) \/ holder' = Released(s)
  <2>1. session[s].key \in Rows /\ CaseRow \in Rows
    BY DEF LockInv, TypeOK, Requests, Rows
  <2> QED
    BY <2>1 DEF Step, Work, FlushCase, TakeTheLead, LeadIsBounded, Look, Rank, Propose, Insert, Check,
       Start, Succeed, Fail, Commit, Rule, DeadlockVictim, Abort, StartCycle, StartRuling, Crash
<1> QED
  BY <1>1 DEF Take, Free, Released, LockInv, TypeOK

\* Only a commit and an approver change what is committed.
LEMMA CommittedBy ==
  ASSUME LockInv, NEW s \in Sessions, Step(s), ~Commit(s), ~Rule(s)
  PROVE  Committed
BY DEF Step, Work, FlushCase, TakeTheLead, LeadIsBounded, Look, Rank, Propose, Insert, Check,
   Start, Succeed, Fail, DeadlockVictim, Abort, StartCycle, StartRuling, Crash, Committed

\* A commit by s, spelled out.
LEMMA CommitWrites ==
  ASSUME LockInv, NEW s \in Sessions, Commit(s)
  PROVE  /\ session[s].at = "committing" /\ ~session[s].dirty /\ session[s].key \in Keys
         /\ session[s].wrote \in {"nothing", "pending_approval", "succeeded", "failed"}
         /\ \A k \in Keys :
              /\ status'[k] = IF k = session[s].key /\ session[s].wrote # "nothing"
                              THEN session[s].wrote ELSE status[k]
              /\ decision'[k] = IF k = session[s].key /\ session[s].wrote = "pending_approval"
                                THEN "pending" ELSE decision[k]
         /\ primary' = IF session[s].lead = 0 THEN primary ELSE session[s].lead
BY DEF Commit, At, LockInv, TypeOK, RequestOK, Requests

LEMMA RuleWrites ==
  ASSUME LockInv, NEW s \in Sessions, Rule(s)
  PROVE  /\ session[s].at = "ruling" /\ session[s].key \in Keys
         /\ session[s].verdict \in {"approved", "rejected"}
         /\ \A k \in Keys :
              /\ status'[k] = IF k = session[s].key THEN session[s].verdict ELSE status[k]
              /\ decision'[k] = IF k = session[s].key THEN session[s].verdict ELSE decision[k]
         /\ primary' = primary
BY DEF Rule, At, LockInv, TypeOK, Requests

\* A remedy that is on record stays there, and one whose approval is asked for is.
LEMMA RecordsStay ==
  ASSUME SInv, NEW s \in Sessions, Step(s), NEW k \in Keys
  PROVE  /\ status[k] # "absent" => status'[k] # "absent"
         /\ decision'[k] # "none" => status'[k] # "absent"
<1>0. decision[k] # "none" => status[k] # "absent"
  BY DEF SInv, SerialInv
<1>1. CASE Commit(s)
  BY <1>0, <1>1, CommitWrites DEF SInv
<1>2. CASE Rule(s)
  BY <1>0, <1>2, RuleWrites DEF SInv
<1>3. CASE ~Commit(s) /\ ~Rule(s)
  BY <1>0, <1>3, CommittedBy DEF SInv, Committed
<1> QED
  BY <1>1, <1>2, <1>3

\* While a cycle that found no remedy holds the row of the case nobody else commits one, or a lead.
LEMMA FreshStays ==
  ASSUME SInv, NEW s \in Sessions, Step(s), NEW t \in Sessions \ {s}, Fresh(t)
  PROVE  status' = status /\ primary' = primary
<1>0. /\ SerialOK(s) /\ holder[CaseRow] = t /\ \A k \in Keys : status[k] = "absent"
      /\ status \in [Keys -> RowStatuses] /\ session[s] \in Requests
  BY DEF SInv, SerialInv, Fresh, LockInv, TypeOK
<1>1. CASE Commit(s)
  <2>1. session[s].at = "committing" /\ session[s].key \in Keys
    BY <1>1, CommitWrites DEF SInv
  <2>2. session[s].wrote = "nothing"
    BY <1>0, <2>1 DEF SerialOK, Fresh
  <2>3. session[s].lead = 0
    BY <1>0, <2>1 DEF SerialOK, Dated
  <2> QED
    BY <1>1, <2>2, <2>3 DEF Commit
<1>2. CASE Rule(s)
  BY <1>0, <1>2, RuleWrites DEF SInv, SerialOK
<1>3. CASE ~Commit(s) /\ ~Rule(s)
  BY <1>3, CommittedBy DEF SInv, Committed
<1> QED
  BY <1>1, <1>2, <1>3

LEMMA SerialOthers ==
  ASSUME SInv, NEW s \in Sessions, Step(s), NEW t \in Sessions \ {s}
  PROVE  SerialOK(t)'
<1>1. session'[t] = session[t]
  BY StepTurns DEF SInv, Step, Turn
<1>2. SerialOK(t) /\ session[t].key \in Keys /\ CaseRow \in Rows /\ t # Nobody
  BY SessionsAssumption DEF SInv, SerialInv, LockInv, TypeOK, Requests, Rows
<1>3. (holder'[CaseRow] = t) <=> (holder[CaseRow] = t)
  <2>1. holder[CaseRow] = t => holder'[CaseRow] = t
    BY <1>2, RowsOfOthers DEF SInv
  <2>2. holder'[CaseRow] \in {holder[CaseRow], s, Nobody}
    BY <1>2, StepTurns DEF SInv, Step, Turn
  <2> QED
    BY <1>2, <2>1, <2>2
<1>4. status[session[t].key] # "absent" => status'[session[t].key] # "absent"
  BY <1>2, RecordsStay
<1>5. Dated(t)' <=> Dated(t)
  BY <1>1 DEF Dated
<1>6. Fresh(t) => Fresh(t)'
  BY <1>1, <1>3, FreshStays DEF Fresh
<1> QED
  BY <1>1, <1>2, <1>3, <1>4, <1>5, <1>6 DEF SerialOK

\* A step that commits nothing, and leaves the row of the case to the session that holds it.
LEMMA SerialMove ==
  ASSUME SInv, NEW s \in Sessions, NEW r \in Requests, Set(s, r), Committed,
         holder'[CaseRow] = holder[CaseRow],
         r.own = session[s].own, r.lead = session[s].lead, r.hyp = session[s].hyp,
         session[s].at \notin {"idle", "leading", "ruling"}, ~session[s].dirty \/ ~session[s].own,
         session[s].at = "looking" => ~session[s].dirty,
         r.at \in {"ranking", "proposing", "inserting", "checking", "starting", "calling", "committing"},
         r.own => /\ r.at \notin {"proposing", "inserting"}
                  /\ r.at \in {"checking", "starting", "calling"} => ~r.dirty /\ holder[CaseRow] # s,
         r.at \in {"proposing", "inserting"} \/ (r.wrote # "nothing" /\ status[r.key] = "absent")
           => /\ holder[CaseRow] = s /\ ~r.own
              /\ \A k \in Keys : status[k] = "absent"
              /\ r.key = IF r.lead = 0 THEN primary ELSE r.lead,
         r.at \in {"checking", "starting"} /\ r.wrote = "nothing" => status[r.key] # "absent"
  PROVE  SerialOK(s)'
<1>1. session'[s] = r
  BY DEF Set, SInv, LockInv, TypeOK
<1>2. SerialOK(s)
  BY DEF SInv, SerialInv
<1>3. Dated(s)' => holder'[CaseRow] = s
  BY <1>1, <1>2 DEF SerialOK, Dated
<1>4. /\ r.at \in {"proposing", "inserting"} \/ (r.wrote # "nothing" /\ status[r.key] = "absent")
           => Fresh(s)'
      /\ (r.at \in {"checking", "starting"} /\ r.wrote = "nothing") \/ r.at = "ruling"
           => status'[r.key] # "absent"
  BY <1>1 DEF Fresh, Committed
<1>5. r.lead # 0 => ~r.own /\ r.at \notin {"ruling", "leading"} /\ r.hyp = r.lead
  BY <1>2 DEF SerialOK
<1>6. r.own =>
        /\ r.at \in {"looking", "ranking", "checking", "starting", "calling", "committing"}
        /\ r.at \in {"looking", "checking", "starting", "calling"} =>
             ~r.dirty /\ holder'[CaseRow] # s
  OBVIOUS
<1> QED
  BY <1>1, <1>3, <1>4, <1>5, <1>6 DEF SerialOK, Committed

LEMMA SerialRest ==
  ASSUME SInv, NEW s \in Sessions, Set(s, Resting)
  PROVE  SerialOK(s)'
<1>1. session'[s] = Resting
  BY DEF Set, SInv, LockInv, TypeOK
<1> QED
  BY <1>1 DEF SerialOK, Dated, Resting

LEMMA SerialTakenUp ==
  ASSUME SInv, NEW s \in Sessions, StartCycle(s) \/ StartRuling(s)
  PROVE  SerialOK(s)'
<1>1. CASE StartCycle(s)
  <2>1. PICK step \in {"leading", "looking"} :
          session'[s] = [Resting EXCEPT !.at = step, !.hyp = primary, !.dirty = TRUE]
    BY <1>1 DEF StartCycle, Set, SInv, LockInv, TypeOK
  <2> QED
    BY <2>1 DEF SerialOK, Dated, Resting
<1>2. CASE StartRuling(s)
  <2>1. PICK k \in Keys, verdict \in {"approved", "rejected"} :
          /\ decision[k] = "pending"
          /\ session'[s] = [Resting EXCEPT !.at = "ruling", !.key = k, !.verdict = verdict]
    BY <1>2 DEF StartRuling, Set, SInv, LockInv, TypeOK
  <2>2. status'[k] # "absent"
    BY <1>2, <2>1 DEF StartRuling, Committed, SInv, SerialInv
  <2> QED
    BY <2>1, <2>2 DEF SerialOK, Dated, Resting
<1> QED
  BY <1>1, <1>2

LEMMA SerialRule ==
  ASSUME SInv, NEW s \in Sessions, Rule(s)
  PROVE  SerialOK(s)'
<1>1. CASE Set(s, Resting)
  BY <1>1, SerialRest
<1>2. CASE Set(s, [session[s] EXCEPT !.at = "looking", !.own = TRUE, !.hyp = primary])
  <2>1. /\ session[s] \in Requests /\ session[s].at = "ruling" /\ session[s].wrote = "nothing"
        /\ CaseRow \in Rows /\ holder' = holder
    BY DEF Rule, At, SInv, LockInv, TypeOK, RequestOK, Rows
  <2>2. ~session[s].dirty /\ holder[CaseRow] # s
    BY <2>1 DEF SInv, ClaimInv, ClaimOK
  <2>3. session[s].lead = 0
    BY <2>1 DEF SInv, SerialInv, SerialOK
  <2>4. session'[s] = [session[s] EXCEPT !.at = "looking", !.own = TRUE, !.hyp = primary]
    BY <1>2 DEF Set, SInv, LockInv, TypeOK
  <2>5. /\ session'[s].at = "looking" /\ session'[s].own /\ session'[s].wrote = "nothing"
        /\ session'[s].lead = 0 /\ ~session'[s].dirty
    BY <2>1, <2>2, <2>3, <2>4 DEF Requests
  <2> QED
    BY <2>1, <2>2, <2>5 DEF SerialOK, Dated
<1> QED
  BY <1>1, <1>2 DEF Rule

LEMMA SerialFlush ==
  ASSUME SInv, NEW s \in Sessions, FlushCase(s)
  PROVE  SerialOK(s)'
<1>1. session[s] \in Requests /\ SerialOK(s) /\ CaseRow \in Rows
  BY DEF SInv, LockInv, TypeOK, SerialInv, Rows
<1>2. session'[s] = [session[s] EXCEPT !.dirty = FALSE] /\ Committed /\ session[s].dirty
  BY DEF FlushCase, Set, SInv, LockInv, TypeOK
<1>3. holder'[CaseRow] = s
  BY <1>1 DEF FlushCase, Take, SInv, LockInv, TypeOK
<1>4. \A field \in {"at", "hyp", "key", "lead", "wrote", "own"} :
        session'[s][field] = session[s][field]
  BY <1>1, <1>2 DEF Requests
<1>5. Fresh(s) => Fresh(s)'
  BY <1>2, <1>3, <1>4 DEF Fresh, Committed
<1> QED
  BY <1>1, <1>2, <1>3, <1>4, <1>5 DEF SerialOK, Committed

LEMMA SerialLead ==
  ASSUME SInv, NEW s \in Sessions, TakeTheLead(s) \/ LeadIsBounded(s)
  PROVE  SerialOK(s)'
<1>1. /\ session[s] \in Requests /\ SerialOK(s) /\ session[s].at = "leading"
      /\ ~session[s].dirty /\ session[s].wrote = "nothing" /\ holder' = holder
  BY DEF TakeTheLead, LeadIsBounded, At, SInv, LockInv, TypeOK, SerialInv, RequestOK
<1>2. ~session[s].own /\ session[s].lead = 0 /\ holder[CaseRow] = s
  BY <1>1 DEF SerialOK, Dated
<1>3. CASE TakeTheLead(s)
  <2>1. session'[s] = [session[s] EXCEPT !.at = "looking", !.lead = minted + 1, !.hyp = minted + 1,
                                         !.dirty = TRUE]
    BY <1>3 DEF TakeTheLead, Set, SInv, LockInv, TypeOK
  <2>2. /\ session'[s].at = "looking" /\ ~session'[s].own /\ session'[s].wrote = "nothing"
        /\ session'[s].lead = session'[s].hyp
    BY <1>1, <1>2, <2>1 DEF Requests
  <2> QED
    BY <1>1, <1>2, <2>2 DEF SerialOK, Dated
<1>4. CASE LeadIsBounded(s)
  <2>1. session'[s] = [session[s] EXCEPT !.at = "looking"]
    BY <1>4 DEF LeadIsBounded, Goto, Set, SInv, LockInv, TypeOK
  <2>2. /\ session'[s].at = "looking" /\ ~session'[s].own /\ session'[s].wrote = "nothing"
        /\ session'[s].lead = 0
    BY <1>1, <1>2, <2>1 DEF Requests
  <2> QED
    BY <1>1, <1>2, <2>2 DEF SerialOK, Dated
<1> QED
  BY <1>3, <1>4

LEMMA SerialLook ==
  ASSUME SInv, NEW s \in Sessions, Look(s)
  PROVE  SerialOK(s)'
<1>1. /\ session[s] \in Requests /\ SerialOK(s) /\ session[s].at = "looking" /\ ~session[s].dirty
      /\ session[s].wrote = "nothing" /\ holder' = holder /\ Committed
  BY DEF Look, At, SInv, LockInv, TypeOK, SerialInv, RequestOK
<1>2. session[s].own => holder[CaseRow] # s
  BY <1>1 DEF SerialOK
<1>3. ASSUME NEW k \in Keys, status[k] \in LiveStatuses,
             Set(s, [session[s] EXCEPT !.at = Onward(status[k]), !.key = k])
      PROVE  SerialOK(s)'
  <2> DEFINE r == [session[s] EXCEPT !.at = Onward(status[k]), !.key = k]
  <2>1. /\ r \in Requests /\ r.at \in {"checking", "committing"} /\ r.key = k
        /\ r.own = session[s].own /\ r.lead = session[s].lead /\ r.hyp = session[s].hyp
        /\ ~r.dirty /\ r.wrote = "nothing"
    BY <1>1 DEF Requests, Steps, Onward
  <2>2. Set(s, r) /\ status[k] # "absent"
    BY <1>3 DEF LiveStatuses
  <2> HIDE DEF r
  <2> QED
    BY <1>1, <1>2, <2>1, <2>2, SerialMove
<1>4. ASSUME NEW changed \in BOOLEAN,
             Set(s, [session[s] EXCEPT !.at = "ranking", !.dirty = changed])
      PROVE  SerialOK(s)'
  <2> DEFINE r == [session[s] EXCEPT !.at = "ranking", !.dirty = changed]
  <2>1. /\ r \in Requests /\ r.at = "ranking"
        /\ r.own = session[s].own /\ r.lead = session[s].lead /\ r.hyp = session[s].hyp
        /\ r.wrote = "nothing"
    BY <1>1 DEF Requests, Steps
  <2>2. Set(s, r)
    BY <1>4
  <2> HIDE DEF r
  <2> QED
    BY <1>1, <2>1, <2>2, SerialMove
<1> QED
  BY <1>3, <1>4 DEF Look

\* What is proposed is keyed by the hypothesis that leads, and nothing else is on record.
LEMMA SerialRank ==
  ASSUME SInv, NEW s \in Sessions, Rank(s)
  PROVE  SerialOK(s)'
<1>1. /\ session[s] \in Requests /\ SerialOK(s) /\ session[s].at = "ranking" /\ ~session[s].dirty
      /\ session[s].wrote = "nothing" /\ holder' = holder /\ Committed
  BY DEF Rank, At, SInv, LockInv, TypeOK, SerialInv, RequestOK
<1>2. CASE Goto(s, "committing")
  <2> DEFINE r == [session[s] EXCEPT !.at = "committing"]
  <2>1. /\ r \in Requests /\ r.at = "committing"
        /\ r.own = session[s].own /\ r.lead = session[s].lead /\ r.hyp = session[s].hyp
        /\ r.wrote = "nothing"
    BY <1>1 DEF Requests, Steps
  <2>2. Set(s, r)
    BY <1>2 DEF Goto
  <2> HIDE DEF r
  <2> QED
    BY <1>1, <2>1, <2>2, SerialMove
<1>3. ASSUME StillActive(s), \A k \in Keys : Remedy(s, k) = "absent", NEW changed \in BOOLEAN,
             Set(s, [session[s] EXCEPT !.at = "proposing", !.key = session[s].hyp, !.dirty = changed])
      PROVE  SerialOK(s)'
  <2> DEFINE r == [session[s] EXCEPT !.at = "proposing", !.key = session[s].hyp, !.dirty = changed]
  <2>1. /\ r \in Requests /\ r.at = "proposing" /\ r.key = session[s].hyp
        /\ r.own = session[s].own /\ r.lead = session[s].lead /\ r.hyp = session[s].hyp
    BY <1>1 DEF Requests, Steps
  <2>2. Set(s, r)
    BY <1>3
  <2>3. ~session[s].own
    <3>1. session[s].key \in Keys
      BY <1>1 DEF Requests
    <3> QED
      BY <1>3, <3>1 DEF Remedy
  <2>4. holder[CaseRow] = s
    BY <1>1, <2>3 DEF SerialOK, Dated
  <2>5. \A k \in Keys : status[k] = "absent"
    BY <1>3, <2>3 DEF Remedy
  <2>6. session[s].hyp = IF session[s].lead = 0 THEN primary ELSE session[s].lead
    BY <1>1, <1>3 DEF StillActive, SerialOK
  <2> HIDE DEF r
  <2> QED
    BY <1>1, <2>1, <2>2, <2>3, <2>4, <2>5, <2>6, SerialMove
<1> QED
  BY <1>2, <1>3 DEF Rank

LEMMA SerialPropose ==
  ASSUME SInv, NEW s \in Sessions, Propose(s)
  PROVE  SerialOK(s)'
<1>1. /\ session[s] \in Requests /\ session[s].at = "proposing" /\ session[s].key \in Keys
      /\ Fresh(s) /\ holder' = holder /\ Committed
  BY DEF Propose, At, SInv, LockInv, TypeOK, SerialInv, SerialOK, Requests
<1> DEFINE r == [session[s] EXCEPT !.at = "inserting"]
<1>2. /\ r \in Requests /\ r.at = "inserting" /\ r.key = session[s].key
      /\ r.own = session[s].own /\ r.lead = session[s].lead /\ r.hyp = session[s].hyp
  BY <1>1 DEF Requests, Steps
<1>3. Set(s, r)
  BY <1>1 DEF Propose, Goto, Fresh
<1> HIDE DEF r
<1> QED
  BY <1>1, <1>2, <1>3, SerialMove DEF Fresh

LEMMA SerialInsert ==
  ASSUME SInv, NEW s \in Sessions, Insert(s)
  PROVE  SerialOK(s)'
<1> DEFINE k == session[s].key
           gated == k \in GatedKeys
           r == [session[s] EXCEPT !.at = IF gated THEN "committing" ELSE "checking",
                                   !.wrote = IF gated THEN "pending_approval" ELSE "proposed"]
<1>1. /\ session[s] \in Requests /\ session[s].at = "inserting" /\ k \in Keys /\ Fresh(s) /\ Committed
  BY DEF Insert, At, SInv, LockInv, TypeOK, SerialInv, SerialOK, Requests
<1>2. /\ r \in Requests /\ r.at \in {"committing", "checking"} /\ r.key = session[s].key
      /\ r.own = session[s].own /\ r.lead = session[s].lead /\ r.hyp = session[s].hyp
      /\ r.wrote # "nothing"
  BY <1>1 DEF Requests, Steps, RowStatuses
<1>3. Set(s, r)
  BY DEF Insert
<1>4. holder'[CaseRow] = holder[CaseRow]
  BY <1>1 DEF Insert, Take, SInv, LockInv, TypeOK, Keys, CaseRow, Rows
<1> HIDE DEF r
<1> QED
  BY <1>1, <1>2, <1>3, <1>4, SerialMove DEF Fresh

LEMMA SerialExecution ==
  ASSUME SInv, NEW s \in Sessions, Check(s) \/ Start(s) \/ Succeed(s) \/ Fail(s)
  PROVE  SerialOK(s)'
<1>1. session[s] \in Requests /\ SerialOK(s) /\ RequestOK(s) /\ session[s].key \in Keys
  BY DEF SInv, LockInv, TypeOK, SerialInv, Requests
<1>2. CASE Check(s)
  <2> DEFINE r == [session[s] EXCEPT !.at = IF carried[session[s].key] > 0 THEN "committing"
                                                                           ELSE "starting"]
  <2>1. /\ r \in Requests /\ r.at \in {"committing", "starting"} /\ r.wrote = session[s].wrote
        /\ r.key = session[s].key /\ r.dirty = session[s].dirty /\ session[s].at = "checking"
        /\ r.own = session[s].own /\ r.lead = session[s].lead /\ r.hyp = session[s].hyp
    BY <1>1, <1>2 DEF Check, At, Requests, Steps
  <2>2. Set(s, r) /\ UNCHANGED holder /\ Committed
    BY <1>2 DEF Check, Goto
  <2> HIDE DEF r
  <2> QED
    BY <1>1, <2>1, <2>2, SerialMove DEF SerialOK, Fresh
<1>3. CASE Start(s)
  <2> DEFINE r == [session[s] EXCEPT !.at = "calling", !.wrote = "executing"]
  <2>1. /\ r \in Requests /\ r.at = "calling" /\ r.wrote = "executing" /\ r.key = session[s].key
        /\ r.dirty = session[s].dirty /\ session[s].at = "starting"
        /\ r.own = session[s].own /\ r.lead = session[s].lead /\ r.hyp = session[s].hyp
    BY <1>1, <1>3 DEF Start, At, Requests, Steps
  <2>2. Set(s, r) /\ Committed
    BY <1>3 DEF Start
  <2>3. holder'[CaseRow] = holder[CaseRow]
    BY <1>1, <1>3 DEF Start, Take, SInv, LockInv, TypeOK, Keys, CaseRow, Rows
  <2> HIDE DEF r
  <2> QED
    BY <1>1, <2>1, <2>2, <2>3, SerialMove DEF SerialOK, Fresh
<1>4. ASSUME NEW changed \in BOOLEAN, NEW result \in {"succeeded", "failed"},
             session[s].at = "calling", ~session[s].dirty, UNCHANGED holder, Committed,
             Set(s, [session[s] EXCEPT !.at = "committing", !.wrote = result, !.dirty = changed])
      PROVE  SerialOK(s)'
  <2> DEFINE r == [session[s] EXCEPT !.at = "committing", !.wrote = result, !.dirty = changed]
  <2>1. /\ r \in Requests /\ r.at = "committing" /\ r.wrote # "nothing" /\ r.key = session[s].key
        /\ r.own = session[s].own /\ r.lead = session[s].lead /\ r.hyp = session[s].hyp
    BY <1>1 DEF Requests, Steps, RowStatuses
  <2>2. Set(s, r)
    BY <1>4
  <2>3. session[s].wrote = "executing"
    BY <1>1, <1>4 DEF RequestOK
  <2> HIDE DEF r
  <2> QED
    BY <1>1, <1>4, <2>1, <2>2, <2>3, SerialMove DEF SerialOK, Fresh
<1>5. CASE Succeed(s)
  BY <1>4, <1>5 DEF Succeed, At
<1>6. CASE Fail(s)
  <2>1. [session[s] EXCEPT !.at = "committing", !.wrote = "failed"]
          = [session[s] EXCEPT !.at = "committing", !.wrote = "failed", !.dirty = FALSE]
    BY <1>1, <1>6 DEF Fail, Requests
  <2> QED
    BY <1>4, <1>6, <2>1 DEF Fail, At
<1> QED
  BY <1>2, <1>3, <1>5, <1>6

LEMMA SerialKeeps ==
  ASSUME SInv, [Next]_vars
  PROVE  SerialInv'
<1>1. CASE UNCHANGED vars
  BY <1>1 DEF vars, SInv, SerialInv, SerialOK, Dated, Fresh
<1>2. CASE Next
  <2>1. PICK s \in Sessions : Step(s)
    BY <1>2 DEF Next, Step
  <2>2. Commit(s) \/ DeadlockVictim(s) \/ Crash(s) => Set(s, Resting)
    BY DEF Commit, DeadlockVictim, Crash, Abort
  <2>3. SerialOK(s)'
    BY <2>1, <2>2, SerialRest, SerialTakenUp, SerialRule, SerialFlush, SerialLead, SerialLook,
       SerialRank, SerialPropose, SerialInsert, SerialExecution DEF Step, Work
  <2>4. \A t \in Sessions \ {s} : SerialOK(t)'
    BY <2>1, SerialOthers
  <2>5. \A k \in Keys : decision'[k] # "none" => status'[k] # "absent"
    BY <2>1, RecordsStay
  <2> QED
    BY <2>3, <2>4, <2>5 DEF SerialInv
<1> QED
  BY <1>1, <1>2

LEMMA SInvHolds == Spec => []SInv
<1>1. Spec => [](LockInv /\ ClaimInv)
  BY InitKeeps, StepKeeps, ClaimInit, ClaimKeeps, PTL DEF Spec
<1>2. Init => SerialInv
  BY SerialInit
<1>3. LockInv /\ ClaimInv /\ SerialInv /\ [Next]_vars => SerialInv'
  BY SerialKeeps DEF SInv
<1>4. LockInv /\ ClaimInv /\ SerialInv => SInv
  BY DEF SInv
<1> QED
  BY <1>1, <1>2, <1>3, <1>4, PTL DEF Spec

\* A remedy comes on record only when the session that has inserted it commits.
LEMMA NotStale ==
  ASSUME SInv, [Next]_vars, NEW k \in Keys, status[k] = "absent", status'[k] # "absent"
  PROVE  primary' = k /\ \A j \in Keys : status[j] = "absent"
<1>1. CASE UNCHANGED vars
  BY <1>1 DEF vars
<1>2. CASE Next
  <2>1. PICK s \in Sessions : Step(s)
    BY <1>2 DEF Next, Step
  <2>2. CASE Commit(s)
    <3>1. k = session[s].key /\ session[s].wrote # "nothing"
      BY <2>2, CommitWrites DEF SInv
    <3>2. Fresh(s)
      BY <3>1 DEF SInv, SerialInv, SerialOK
    <3> QED
      BY <2>2, <3>1, <3>2, CommitWrites DEF SInv, Fresh
  <2>3. CASE Rule(s)
    <3>1. k = session[s].key /\ session[s].at = "ruling"
      BY <2>3, RuleWrites DEF SInv
    <3> QED
      BY <3>1 DEF SInv, SerialInv, SerialOK
  <2>4. CASE ~Commit(s) /\ ~Rule(s)
    BY <2>1, <2>4, CommittedBy DEF SInv, Committed
  <2> QED
    BY <2>2, <2>3, <2>4
<1> QED
  BY <1>1, <1>2

\* In the pair, the one that holds the case is a cycle about to start a remedy, and the other an
\* approver's session that has executed that remedy.
LEMMA CycleAndApprover ==
  ASSUME SInv, NEW c \in Sessions, NEW a \in Sessions,
         WaitsFor(c, a), WaitsFor(a, c), holder[CaseRow] = c
  PROVE  /\ At(c, "starting") /\ ~session[c].own
         /\ At(a, "committing") /\ session[a].own
         /\ session[a].key = session[c].key
<1>1. /\ session[c] \in Requests /\ session[a] \in Requests
      /\ session[c].key \in Rows /\ CaseRow \in Rows /\ session[c].key # CaseRow
      /\ session[a].key \in Keys
      /\ SerialOK(c) /\ SerialOK(a) /\ RequestOK(a) /\ ClaimOK(a) /\ ClaimOK(c)
  BY DEF SInv, LockInv, TypeOK, SerialInv, ClaimInv, Requests, Rows, Keys, CaseRow
<1>2. holder[session[c].key] = a /\ c # a
  BY <1>1, TwoRows DEF SInv, WaitsFor
<1>3. session[a].key = session[c].key /\ session[a].wrote # "nothing"
  BY <1>1, <1>2 DEF ClaimOK, Own
<1>4. session[a].dirty
  BY <1>1, <1>2, <1>3 DEF WaitsFor, Wants
<1>5. session[c].at \in {"inserting", "starting"}
  BY <1>1, <1>2 DEF WaitsFor, Wants, ClaimOK
<1>6. session[a].at \in {"checking", "starting", "calling", "committing"}
  BY <1>1, <1>3 DEF RequestOK, Requests, Steps
<1>7. session[a].own
  BY <1>1, <1>2, <1>6 DEF SerialOK, Dated
<1>8. At(a, "committing")
  BY <1>1, <1>4, <1>6, <1>7 DEF SerialOK, At
<1>9. session[c].at # "inserting"
  BY <1>1, <1>3, <1>7 DEF SerialOK, Fresh
<1>10. ~session[c].own
  BY <1>1, <1>5, <1>9 DEF SerialOK
<1> QED
  BY <1>3, <1>5, <1>7, <1>8, <1>9, <1>10 DEF At

-----------------------------------------------------------------------------

\* The rows, the locks and the requests keep their shape however the sessions interleave.
THEOREM SessionsTyped == Spec => []TypeOK
<1>1. Spec => []LockInv
  BY InitKeeps, StepKeeps, PTL DEF Spec
<1>2. LockInv => TypeOK
  BY DEF LockInv
<1> QED
  BY <1>1, <1>2, PTL

\* No interleaving of deliveries, approvers, crashes and rolled back sessions carries out a remedy
\* that needs an approval before one has been committed.
THEOREM NothingBeforeApproval == Spec => []ApprovedBeforeEffect
<1>1. Spec => []LockInv
  BY InitKeeps, StepKeeps, PTL DEF Spec
<1>2. LockInv => ApprovedBeforeEffect
  BY GatedAssumption DEF LockInv, ApprovedBeforeEffect, RequestOK, RemedyOK
<1> QED
  BY <1>1, <1>2, PTL

\* A remedy is carried out at most once in each session: whoever asks after the first success is
\* committed finds it.
THEOREM RepeatsAreBounded == Spec => []RepeatsWereUnderWay
<1>1. Spec => [](LockInv /\ RepeatInv)
  BY InitKeeps, StepKeeps, RepeatInit, RepeatKeeps, PTL DEF Spec
<1>2. LockInv /\ RepeatInv => RepeatsWereUnderWay
  <2> SUFFICES ASSUME LockInv, RepeatInv, NEW k \in Keys
               PROVE  carried[k] <= Cardinality(Sessions)
    BY DEF RepeatsWereUnderWay
  <2>1. carried[k] \in Nat
    BY DEF LockInv, TypeOK
  <2> QED
    BY <2>1, PastCheckFinite DEF RepeatInv
<1> QED
  BY <1>1, <1>2, PTL

\* What needs no approval is final once it is committed: no delivery, approver or retry that comes
\* later, or is under way, writes its row again, so that a success is never overwritten.
THEOREM InlineIsFinal ==
  Spec => [][\A k \in Keys \ GatedKeys : status[k] # "absent" => status'[k] = status[k]]_vars
<1>1. Spec => []LockInv
  BY InitKeeps, StepKeeps, PTL DEF Spec
<1>2. LockInv /\ [Next]_vars
        => [\A k \in Keys \ GatedKeys : status[k] # "absent" => status'[k] = status[k]]_vars
  BY InlineStays
<1> QED
  BY <1>1, <1>2, PTL DEF Spec

\* No row stays locked by a session that has ended, however it ended, and a request never holds
\* more than the row of the case and the one remedy it has written.
THEOREM RowsAreGivenBack ==
  Spec => [](\A row \in Rows, s \in Sessions :
               holder[row] = s => ~At(s, "idle") /\ row \in Own(session[s]))
<1>1. Spec => [](LockInv /\ ClaimInv)
  BY InitKeeps, StepKeeps, ClaimInit, ClaimKeeps, PTL DEF Spec
<1>2. ClaimInv => \A row \in Rows, s \in Sessions :
                    holder[row] = s => ~At(s, "idle") /\ row \in Own(session[s])
  BY DEF ClaimInv, ClaimOK, At
<1> QED
  BY <1>1, <1>2, PTL

\* Nothing locks what a request reads, and yet a remedy comes on record only while it is the first
\* one of the case and under the hypothesis that leads, however many deliveries, advances and
\* approvers are at work: the row of the case, which a cycle writes before it decides, keeps the
\* others from deciding too (Fresh).
THEOREM ProposalsAreSerial == Spec => ProposalsAreNotStale
<1>1. SInv /\ [Next]_vars =>
        [\A k \in Keys : status[k] = "absent" /\ status'[k] # "absent" =>
           primary' = k /\ \A j \in Keys : status[j] = "absent"]_vars
  BY NotStale
<1> QED
  BY <1>1, SInvHolds, PTL DEF Spec, ProposalsAreNotStale

\* Two cycles of a case are never both past the date they write to it; an approver's request is
\* none, and may run beside one.
THEOREM CyclesTakeTurns == Spec => [](\A s, t \in Sessions : Dated(s) /\ Dated(t) => s = t)
<1>1. SInv => \A s, t \in Sessions : Dated(s) /\ Dated(t) => s = t
  BY DEF SInv, SerialInv, SerialOK
<1> QED
  BY <1>1, SInvHolds, PTL

\* A cycle writes the case and then the remedy it executes; an approver's request, the remedy and
\* then the stage of the case.  Every deadlock PostgreSQL has to break is such a pair, about one
\* approved remedy, however many sessions are at work: no longer circle exists, no pair of cycles
\* or of approvers, and none in which a remedy is inserted.
THEOREM DeadlocksAreOfTwo ==
  Spec => [](\A s \in Sessions : Deadlocked(s) =>
               \E c, a \in Sessions :
                 /\ s \in {c, a} /\ WaitsFor(c, a) /\ WaitsFor(a, c)
                 /\ holder[CaseRow] = c /\ At(c, "starting") /\ ~session[c].own
                 /\ At(a, "committing") /\ session[a].own
                 /\ session[a].key = session[c].key)
<1> DEFINE Pair(s) ==
             \E c, a \in Sessions :
               /\ s \in {c, a} /\ WaitsFor(c, a) /\ WaitsFor(a, c)
               /\ holder[CaseRow] = c /\ At(c, "starting") /\ ~session[c].own
               /\ At(a, "committing") /\ session[a].own
               /\ session[a].key = session[c].key
<1>1. ASSUME SInv, NEW s \in Sessions, Deadlocked(s) PROVE Pair(s)
  <2>1. PICK t \in Sessions :
          WaitsFor(s, t) /\ WaitsFor(t, s) /\ (holder[CaseRow] = s \/ holder[CaseRow] = t)
    BY <1>1, PairOfSessions DEF SInv
  <2>2. CASE holder[CaseRow] = s
    BY <1>1, <2>1, <2>2, CycleAndApprover
  <2>3. CASE holder[CaseRow] = t
    BY <1>1, <2>1, <2>3, CycleAndApprover
  <2> QED
    BY <2>1, <2>2, <2>3
<1>2. SInv => \A s \in Sessions : Deadlocked(s) => Pair(s)
  BY <1>1
<1> QED
  BY <1>2, SInvHolds, PTL

\* A request ends after nineteen statements and flushes at the latest, and nothing that the other
\* sessions do adds to them: what RequestsEnd leaves to fairness is that each of them returns.
THEOREM RequestsAdvance ==
  Spec => [][Advance /\ \A s \in Sessions : Left(session[s]) \in 0 .. 19]_vars
<1>1. Spec => [](LockInv /\ ClaimInv)
  BY InitKeeps, StepKeeps, ClaimInit, ClaimKeeps, PTL DEF Spec
<1>2. LockInv /\ ClaimInv /\ [Next]_vars
        => [Advance /\ \A s \in Sessions : Left(session[s]) \in 0 .. 19]_vars
  <2>1. LockInv => \A s \in Sessions : Left(session[s]) \in 0 .. 19
    BY LeftIsNat DEF LockInv, TypeOK
  <2> QED
    BY <2>1, OneStatement
<1> QED
  BY <1>1, <1>2, PTL DEF Spec
=============================================================================
