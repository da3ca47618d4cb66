# TLA+ models of the order and customer case journey (OCCJ)

OCCJ investigates why a retail customer's journey failed. Evidence from source
systems is reconciled into a timeline, hypotheses are generated from it, and a
deterministic engine drives each case through evidence requests, impact analysis,
incident escalation, an approval-gated remedy, a message to the customer and the
closing of the case. This directory models the backend's core, checks it with TLC and
proves its invariants with TLAPS. Paths below are relative to
`src/backend/app/`.

## Inventory

| Component | State | Operations | Hard behaviour | Correct when |
|---|---|---|---|---|
| Next-best-action engine `engine/nba_engine.py` | `action_requests`, `approvals`, case status | `decide_next_action` (seven branches), `_propose` | re-evaluation while an action is live; a change of hypothesis after rejections, failures, partial and full successes | one live action; a rejected remedy stays out; one remedy succeeds; closing is justified |
| Orchestration `engine/case_service.py`, `orchestrator.py`, `stage.py` | the loop's `taken`, case stage | `create_case`, `run_case_cycle`, `advance_case`, `advance_stage` | the loop must stall by itself; the stage moves back on re-evaluation | requests end; the stage claims only what happened |
| Recovery catalog `engine/recovery_catalog.py` | none | `rank_recovery_options` | rounding and equality at the threshold | dear remedies are gated |
| Executor `tools/executor.py`, `tools/base.py` | `tool_executions`, action status | `execute_action` | timeouts, retries, late effects, a crash before the commit | what succeeded is not run again; status and attempts agree |
| Connectors, registry `tools/` | the outside world | `execute`, `resolve` | an effect without an answer | an effect is not repeated |
| Approvals `approvals/service.py`, `routers/approvals.py` | `approvals` | `decide_approval`, `POST /approvals/{id}/decide` | two transactions in one request | the right role, once, and then carried out |
| Evidence, reconciliation `reconciliation/` | `evidence_records`, `canonical_events`, `uncertainty_flags` | `ingest_evidence`, `assemble_timeline`, `detect_uncertainty` | repeated, corrected and reordered deliveries, records shared by customers | one current fact per source record; the timeline is the customer's own |
| Hypothesis engine `engine/hypothesis_engine.py` | `hypotheses`, `evidence_links`, primary hypothesis | `generate_or_update_hypotheses` | generation that yields nothing; a shift of confidence | grounded hypotheses only; one generation active |
| Impact engine `engine/impact_engine.py` | `impact_assessments` | `assess_impact` | run inline by the engine | assessed once per hypothesis |
| API `routers/` | none; one session per request | open, advance, ingest, decide, queries | concurrent requests; cases driven by id | see the components |
| Persistence `db.py`, `models/` | PostgreSQL tables; the session of a request | flush, commit, roll back | what a session has read is stale when it writes; deadlocks | an approval precedes its remedy; no proposal is stale; sessions end |
| Audit, replay `audit/` | `audit_entries` | `record`, `replay_case_state` | inline actions have one entry | the fold equals the rows |
| Authentication, LLM client, messages, seed, frontend, migrations | tokens, texts, test data | | | not modelled, see below |

A route opens a session, calls the services and commits once (twice in
`decide`). The services share the session; connectors and the LLM are the only
calls that leave the process. There is no background task and no queue: a
case moves when a request moves it. No query locks what it reads. Two cycles on one case
nevertheless run one after the other: each of them writes `last_activity_at` to the row of the
case (`reconciler.py:369-370`) before it reads hypotheses or live actions, and holds that row
until it commits. An approver's request runs no cycle and does not write the case first; it
meets the others only at the rows of the action and the approval, and at the case row when the
stage changes.

## Modules

| Module | Models | Role |
|---|---|---|
| `Enums` | `models/enums.py`, `stage.py` | status sets, stages as indices, `LaterStage` |
| `RecoveryCatalog` | `recovery_catalog.py`, the choice in branch 5 | money in cents, the gate of each option |
| `CasePipeline` | engine, orchestration, approvals, the routes | the core: one case driven by requests |
| `ActionExecution` | what `execute_action` promises | abstract specification |
| `Executor` | `execute_action` and its connectors | implements `ActionExecution` |
| `EvidenceStore` | ingestion, timeline, duplicate and contradictory flags | evidence of several customers and cases |
| `CaseLifecycle` | what the pipeline promises of a case | abstract specification |
| `Sessions` | the same engine, executor and approvals, statement by statement | concurrent requests on one case |
| `Investigation` | flags over time, `hypothesis_engine.py`, the evidence requests of the engine | how a case comes to its diagnosis |
| `MC*`, `*.cfg` | | small instances |
| `CasePipelineProofs`, `LifecycleProofs`, `AccountingProofs`, `RoundsProofs` | `CasePipeline`, `CaseLifecycle`; each extends the one before | theorems and their proofs |
| `ExecutorProofs`, `EvidenceStoreProofs`, `SessionsProofs`, `InvestigationProofs` | the modules they name | theorems and their proofs |

How they fit: `Investigation` finds the diagnosis that `CasePipeline` takes as an input,
`EvidenceStore` the rows and the timeline behind the facts of `Investigation`.
`Executor` implements `ActionExecution`, whose outcomes are those an execution has in
`CasePipeline`. `CasePipeline` implements `CaseLifecycle`. `Sessions` drops the
assumption of `CasePipeline` that requests are serial, for one remedy.

### CasePipeline

`db` holds the committed rows of one case, `tx` what the session of the running
request sees, `req` the control of the request (loop rounds, keys already
returned), `remedies` and `notices` what the connectors have done in the outside
world, `minted` the hypothesis ids used. The code between two awaits that matter is
one action:

* `OpenCase`, `AdvanceCase` - `POST /cases`, `POST /cases/{id}/advance` and an
  evidence delivery that drives this case, up to the loop of `run_case_cycle`. The
  evidence that has arrived, the flags `detect_uncertainty` raises and the diagnosis
  that ranks first (or none) are inputs.
* one action per branch of `decide_next_action`, in the guard order of the code:
  `ReturnLiveAction`, `RequestAnyEvidence` (1), `RequestMissingEvidence` (2),
  `RunAnalysis` (3), `EscalateItsm` (4), `ProposeRecovery` and
  `RecoveryOptionsExhausted` (5), `NotifyCustomer` (6), `CloseCase` (7),
  `NothingToDo`. `Propose` is `_propose`: the status and the stage are set before the
  idempotency key is looked up, and a known key hands the old row back.
* `FinishExecution` - the rest of `execute_action`: its outcome, the stage, the
  incident that comes back as evidence, the effect in the outside world.
* `Approve`, `Reject` - `decide_approval` and its commit; `Approve` then drives the
  pipeline in a second transaction.
* `Commit`, `Crash` - the end of a session, or of the process.

Simplifications. Requests on the case are serial (`Sessions` interleaves them). An execution is atomic here, with the
outcomes `Executor` allows: `lost` is an effect nobody heard of; one that takes place
even later is recorded at the end of the execution. Confidence is in percent, money in
cents; a share that falls on half a cent is rounded up, where the float of the code goes
either way. A correction that another customer's delivery makes of a record does not
take evidence away from the case. Mock connectors fail only when a test asks them
to; the outcomes are those the connector interface and the two real connectors
have. `assess_impact` cannot fail.

### CaseLifecycle

The life of a case without the decisions behind it: `Remedy`, `Tell`, `Close` work on the
record of the running request, `Save` commits it, `Lose` is a crash; `paid` and `sent` count
what happened in the outside world and is never taken back. A remedy is carried out only
while none is on record, a message only when a remedy is and no message is. The mapping
`Progress` reads the three facts of the record off the rows of `CasePipeline`; `paid` and
`sent` are the lengths of its ledgers.

### Executor and ActionExecution

`Executor` splits `execute_action` at its awaits. `requests` is the outside world: a
request that was received may take effect at any time, also after its attempt has
timed out or the process has died. `saved` is what the transaction has committed.
`ActionExecution` is the promise: `Begin` only if no success is committed, `Succeed`
only if the effect took place, `Fail` and `Forget` say nothing of the effect. The
refinement mapping (`Abstract`) forgets attempts, rows and results. `CasePipeline` relies on
exactly this: an outcome of success stands for an effect, a failure may hide one.

### EvidenceStore

`records` is the evidence table in order of insertion. The lookup of the row a
delivery repeats or corrects has no `ORDER BY`, so `Found` is a set and any of its
members may be picked. `Timelines` and `Detected` are `assemble_timeline` and
`detect_uncertainty` for the cases a request drives; `latest` is a ghost that
remembers what each source said last. Missing and stale flags need the clock and are in
`Investigation`.

### Sessions

Each request has a database session of its own, and one action is the code between two
statements: the load of the case (`StartCycle`), the flush of its date by `reconcile_case`
(`FlushCase`), the hypotheses (`TakeTheLead`), the query for a live action (`Look`), for
remedies (`Rank`), for the key (`Propose`), the `Insert`, the query for a success
(`Check`), the row of the action (`Start`), the connector, the `Commit`; the two halves
of an approver's decision (`StartRuling`, `Rule`), after which that session goes on at `Look`.
A query sees what is committed at that moment. The session has autoflush off: a change of the
case object is `dirty` until some flush writes it (`FlushCase`). Objects keep what was loaded:
an approver's session the action it approved (`own`), whatever the row has become, and any
session the leading hypothesis of the case it loaded (`hyp`), which may be superseded by the time
it is used (`StillActive`).

What the database does is external to the repository and modelled as PostgreSQL documents
it for READ COMMITTED, the default the code leaves in place: an UPDATE waits for the
writer of the row and then overwrites it, an INSERT waits for an uncommitted row with the same
key, one session of a circle of waiting ones is rolled back (`DeadlockVictim`). That an INSERT
finds its key committed does not happen, because proposals are never stale (see the run). A session ends after one remedy, and the option is always the same, so
that a key is the hypothesis it is proposed under. Branches of the engine that come before
the remedy end the request (`Rank`).

### Investigation

One order: facts (a source's own identifiers), each at its current version, and the days
on which they happened. `Deliver` brings a fact or its correction, `Tick` is a day.
`Run` is a cycle: flags for missing, duplicate, contradictory and stale evidence are
`Raised` and never resolved; the rules (`FromFlags`) or a model (`FromAnswer`, any set in
`Answers`, invented citations included) propose specs, which are `Merged` by category, linked to
current records, given the weighted `Confidence` of `compute_confidence` in
ten-thousandths, and stored as a new generation that supersedes the one before. What follows is
`Drive`: an action that waits for its approval is handed back (`HandBack`), an approved one is
carried out, and if that fails or is left for review the request ends (`CarryOutInVain`); only
when neither stops it does the engine take up a re-evaluation and ask for evidence or put an
action forward (`DecideAnew`). `Reject` ends its request without driving the case;
`Approve` commits, and `DriveApproved` is the second transaction of the same request, which a
crash may leave to a later cycle. Every payment is captured, every fulfilment
delivered, every contact a dispute of receipt: other statuses raise fewer flags.
Confidence is rounded half up where the float of the code rounds its nearest neighbour.

## Runs

| Run | Shows | Instance |
|---|---|---|
| `pipeline` | eleven properties of one case: the live action, the money gate, rejections, remedies, closing, stage and what may turn it back, status, loop | two diagnoses that may replace each other, one below the threshold of confidence and systemic-prone; exposure at the approval threshold, so that full refunds are gated and shares are not; one flag; success, partial success, failure; two approver roles (0.9 million states) |
| `pipeline_crash` | records and messages against the outside world under a crash, termination of requests, approvals carried out, the refinement of `CaseLifecycle` | one diagnosis, one crash, outcomes success and lost |
| `executor` | the guard, the agreement of rows and status, bounded attempts, termination, the refinement of `ActionExecution` | the three attempts of the code, two calls |
| `evidence` | chains of corrections, the timeline, flags | two customers with a case each, four source records, four deliveries |
| `sessions` | the gate, proposals that are not stale and repeats under interleaving, deadlock and a crash; every request ends | three sessions, two hypotheses of which one makes the remedy gated, five requests, one crash (0.26 million states) |
| `investigation` | grounding of what a cycle stores, one generation, the cap of a lone record, re-evaluation across approvals, rejections and failures | two payments, one corrected, a fulfilment and a contact; facts of the day or three days old; three days, three cycles; rules or two answers of a model (3.8 million states) |
| `pipeline_repeat`, `pipeline_closed`, `executor_once`, `evidence_unique`, `sessions_once`, `investigation_gap` | disagreements, see Findings | the smallest instance that reaches them |

Bounds. `MaxHypotheses = 2`: hypotheses matter by whether they are the one an action was
proposed for, so two show every change of leadership the engine tells apart; a
generation that yields nothing is always possible in addition. `MaxCrashes = 1`
covers each point of a request; the ledger properties count crashes, so that a second one
adds nothing new. `MaxCalls = 2` is a call and the call that meets its rows; two is
enough because a call leaves nothing behind but the rows and the outstanding requests.
`MaxRecords = 4` holds an original, its repetition and two corrections, or one row for
each of the four sources. Three `Sessions` are two cycles that take turns at the row of the case and
an approver between them, or two approvers and a cycle; `MaxRequests = 5` leaves
room for a proposal, its approval, a change of the leading hypothesis and two requests more.
`MaxClock = 3` and `Delays = {0, 3}` put a payment on either side of its two-day window
and evidence on either side of the two days after which it is stale; three cycles are a
generation, one that shifts away from it, and one that finds no further shift.
The theorems below do not depend on any of these bounds. `CHECK_DEADLOCK` is off only where
calls, requests, days or cycles are used up.

Fairness. `WF_vars(ServerStep)` in `CasePipeline`, `WF_vars(Progress)` in `Executor`,
`WF_vars(Work(s))` for each session in `Sessions`: once a request has been accepted,
the event loop runs it, every connector call is cut off by `asyncio.wait_for`, every
loop is bounded and the database ends a circle of waiting sessions, so some step is always
taken. Nobody has to send a request, approve anything, or let an outstanding request take
effect; no fairness is assumed for those. `Investigation` and `EvidenceStore` claim no
liveness and assume no fairness.

## Findings

Each is a violation run whose property states what the repository says.

* `pipeline_repeat` - a remedy that needs manual review is neither done nor rejected; under
  a new hypothesis it is executed again, though `tools/base.py:23-25` rules out a retry of
  the primary effect.
* `pipeline_closed` - a closed case named by its id goes back to investigating, is never
  marked reopened and never closed again.
* `executor_once` - the idempotency key does not reach the connectors, so a retry after a
  timeout can double an effect.
* `evidence_unique` - a repeated and then corrected delivery leaves two current rows.
* `sessions_once` - an approval is committed before its action is executed; a delivery of evidence
  in between locks the action first and executes it, and the approver's request, which has looked
  for a success before that was committed, waits for the row and executes it again, though `tools/executor.py:9-12` rules that out.
* `investigation_gap` - no flag is ever resolved: a case keeps asking for a follow-up that has
  arrived, though `engine/orchestrator.py:3-5` has it stall only at what has not.

Observed while modelling, and not held against a sentence of the repository by a run:

* the delivery remedy never asks for an approval, whatever its cost (`recovery_catalog.py`),
  although the project README wants one from $75 on; `ApprovalGate` leaves this remedy out;
* a notification that failed is never tried again (`nba_engine.py:344`);
* an approver who read the approval as pending may write `approved` over a success
  (`approvals/service.py:46`); the action is then live for ever and not executed again;
* a re-evaluation outlives a rejection and an execution that failed or needs review: such a
  request ends before anything is decided again (`routers/approvals.py:62-69`), and the case waits
  for the next delivery or advance with no action in flight;
* a delivery without a case id locks the rows of all open cases of its customer until it commits,
  in no fixed order (`routers/ingestion.py:60-67`), so that two of them may deadlock; `Sessions`
  models one case;
* a model that names one record twice in one hypothesis exceeds the cap of a lone record
  (`hypothesis_engine.py:255`); `LoneRecordIsCapped` leaves such hypotheses out;
* a shift is measured from one generation to the next only (`hypothesis_engine.py:227`), and a
  flag whose description is open already is not raised again for corrected evidence
  (`reconciler.py:237`), so that a hypothesis may keep leading on superseded records.

`CorrectionsLeaveOne` and `EvidenceIsCountedOnce` leave repeated deliveries out, so that
they hold of everything else.

## Proofs

Everything is proved for all values of the constants, from the assumptions the
modules name (a positive approval threshold, the types of the sets, finitely many
sessions and facts, at least one attempt and one hypothesis). Every invariant and action
property of the passing runs is proved, one of them under a hypothesis (`CycleStallsByItself`, see
`RoundsProofs`), and so are both refinements. Some theorems state more than a run checks: what
a step may never do to rows that are over, and how many steps are left.

`CasePipelineProofs`. The properties speak of what is committed, and the steps work on
what a session has written so far, so none is inductive. `IInv` says `Sound` of the
committed rows and of the working rows alike - one live action, every recovery that got
past its approval cleared and every pending one with its role named, no rejected option
among what may be proposed, one success, a pending approval visible in the status - and
that the loop runs only while rounds are left. `Inductive` proves it. The work is in
lemmas about the only ways a set of actions changes - one is added (`SoundAdd`) or
one moves to another status (`SoundMove`) - so that each branch of the engine only has
to show which of them it is; `RankedAreGood` says what the catalog guarantees of
every option. `TypeCorrect`, `AtMostOneLive`, `MoneyIsGated`, `RejectionIsFinal`,
`OneRemedy` and `PendingShows` follow.

`LifecycleProofs`. A row of the case is `Honest` when each claim it makes is backed by an
action: a message by the remedy it names, the closure by a remedy and a message about it, the
stage by an action that took effect. `LInv` adds to `IInv` that committed and working rows are
honest, that what they show as done is in the ledgers of the outside world (`Ledgered`), which
statuses an action may have in which phase of a request (`Phased`), that an approval on
record is being acted on (`Acted`), and how the working rows start and stay related to the
committed ones (`Opening`, `AtRest`, `Frozen`). A step changes a row in one of five ways
(`KeptRow`, `AddedRow`, `ClosedRow`, `MovedRow`, `FinishedRow`); one half of the lemmas says what
each way preserves, the other which way each step takes. `Implements`, `MessagesAreTrue`,
`ClosingIsJustified`, `StagesAreTrue`, `CommitsAreSettled` and `SummaryIsFrozen` follow.

`AccountingProofs`. That the remedies carried out are accounted for counts rows: a request
carries out at most one remedy that its rows do not show as a success (`Spent`), and a
finished remedy counts as one more because its row is the only one of its idempotency key
(`Countable`). `RInv` yields `NoRemedyUnaccounted`.

`RoundsProofs`. How long a request works, and what it may not touch on the way. `HInv` adds to `LInv`
what relates the rows of a session to the committed ones: what is over stays as it is
(`Remembers`), no key disappears (`KeepsKeys`), a case is escalated and closed once (`Single`).
`HistoryKept` follows. For the loop, each round hands back an action whose key was not taken
before, so the number of rounds is the number of keys taken (`Counted`); a key that was taken is on
record as over (`OnRecord`), and fits the ground the engine decides on (`Fits`) - evidence is asked for
while it is short, the customer told only when it is not, an incident raised before that - and no
step of the loop but the incident changes that ground (`SameGround`). What is left to count is one
key for each branch, and one for each flag: `CyclesAreBrief` bounds the rounds by six or by the
number of flags plus four. `CyclesStall` is the property the run checks, and needs at most seven
flags: `detect_uncertainty` raises a flag for missing evidence for each overdue record
(`reconciler.py:302-322`), the query for one has no order, and a case with a dozen open flags could
be asked for a different one in each round until the cap ends the loop. That is the hypothesis of the
theorem, and why none without it is stated. `RequestsShrink` bounds a request in any case: each of its
steps lowers `WorkLeft`, which is at most 26. `StageIsJustified` needs to know that hypotheses
are not handed out twice and that the stage of the session, while it is behind the committed one, is so for the
reason the property gives (`Staged`); every other step moves it forward (`Onward`).

`ExecutorProofs`. The guard of the code reads the attempts, `ActionExecution` is judged by
the status. `EInv` says that a session starts from the committed rows, that an attempt
is only made while none has succeeded, that what is settled is what the last attempt
said, and therefore that status and attempts agree when committed. From it
follow `NothingAfterSuccess` and, with one lemma per step,
`ImplementsActionExecution`: every step of the executor is a step of the abstract
execution or a stutter. `StatusIsHonest` is read off `EInv`; `CInv` counts the rows of a call
and what is committed against the calls (`Budget`), which yields `RequestsAreBounded`. `CallsAdvance`
bounds the steps of a call by `2 * MaxAttempts + 3` (`StepsLeft`), whatever the outside world does
between them.

`EvidenceStoreProofs`. A delivery appends a row and may mark one as superseded
(`DeliveryStores`, over the lemmas `AppendedRow` and `CorrectedRow` on sequences of
rows). The chains stay linear because only a current row is corrected, and nothing points
back at a current row; the latest statement of a source stays stored because a row is
only superseded by a later one of the same record; an entry never stands next to its
direct correction because `assemble_timeline` adds current records only and takes the
entry of the predecessor away when it does; a flag counts no more than was delivered because
the rows it counts map one to one to source records (`AboutIsInjective`). `SInv` is the
conjunction of the type invariant and the six properties, and is inductive; `EvidenceTypes`,
`HistoryIsAChain`, `NothingIsLost`, `OneRowIsLeft`, `TimelinesAreOwn`,
`TimelinesFollowCorrections` and `CorrectionsAreNotCounted` follow. `EvidenceIsAppended` is what
`models/evidence.py:20` says of corrections: no step changes what a row says, revives a
superseded one, or takes an entry off a timeline without that of its direct correction coming in.

`SessionsProofs`. What keeps interleaved sessions apart is the row each has written:
`RequestOK` says what a session has written by the statement it is at and that it holds that
row, `RemedyOK` what is committed of a remedy; a step of one session leaves what the others rely
on alone. `LockInv` yields `SessionsTyped` and `NothingBeforeApproval`;
`RepeatsAreBounded` counts in addition the sessions that are past the query for an
earlier success (`RepeatInv`). `InlineIsFinal` says that a committed row that needed no approval is
not written again. `ClaimInv` says which rows a session may hold (`Own`): the row of the case and the
remedy it has written, and none while it is idle; `RowsAreGivenBack` states it. `SerialInv` is about the
row of the case: a cycle that is past its date (`Dated`) holds that row and is the only one
(`CyclesTakeTurns`), so that what it has read of remedies and hypotheses is what is committed until it
ends (`SerialOK`); an approver's session never gets as far as a proposal, since the remedy it
has approved is on record. `ProposalsAreSerial` follows. A circle of waiting sessions then
needs a cycle, which holds the row of the case and waits for an action, and an approver, which has
executed that action and waits to write the stage: `DeadlocksAreOfTwo` says that every circle contains
such a pair and no session outside it, however many are at work.
`RequestsAdvance` bounds a request by 19 statements and flushes (`Left`).

`InvestigationProofs`. The confidence formula is bounded by lemmas about the rounded quotient;
`CreatedOK` says what one generation stores, and the conjuncts of `IInv` follow step by step.
`InvestigationTyped` (a confidence stays between 0 and 1), `AlwaysGrounded`,
`OneGenerationAtATime`, `LoneRecordCapped` and `ReevaluationIsNotLost` follow. `AlwaysGrounded` is an
action property about what a cycle stores, with the invariant `Grounded` it leaves behind: a
hypothesis is not rewritten when a record it cites is corrected later, so that of those stored earlier
only the weaker claim holds. `ReevaluationIsNotLost` adds to the property of the run that nothing but
`DecideAnew` ever takes a re-evaluation back; it needs that the leading hypothesis is the best of the
active ones (`LeadIsBest`), since the code compares the best and the property speaks of the leader.
`EvidenceDrivesConfidence` is about the formula alone: for any finite sets of evidence, more in support
or less against never lowers the confidence, rounding included. `ConclusionsArePreserved` says that a
stored hypothesis is never rewritten nor revived.

Only model-checked: the liveness properties (`RequestTerminates`, `ApprovedIsCarriedOut`,
`CallEnds`, `RequestsEnd`), since fairness and ENABLED are beyond the prover. Of `RequestTerminates`,
`CallEnds` and `RequestsEnd` the measures above leave just that: as long as a request is at work some
step of its own is enabled, and fairness takes it. `CycleStallsByItself` is
claimed for up to seven flags only.

## Not modelled

* Audit trail and replay: append-only rows that follow the actions of the other modules one by
  one, and a fold over them that is a query; nothing else reads either.
* Impact formula: the exposure is an input of `CasePipeline`; the composite score is for display.
* Authentication: stateless library code; the role check of approvals is modelled.
* The text of messages and rationales, the LLM client and its fallback: they change no state; a
  message is the remedy it names, an answer of the model is any of a set of specs.
* Which connector serves an action, and how Freshservice finds an incident it already knows: a
  connector is what it may answer and whether its effect takes place.
* Queries, the frontend, seed data, migrations and configuration: they keep no state of their
  own, or are generated.

## Plan

Done: `CasePipeline` with `RecoveryCatalog` and `CaseLifecycle`; `Executor` against
`ActionExecution`; `EvidenceStore`; `Sessions`; `Investigation`; the proofs above.

Left: the notification and the closing under interleaved sessions, which meet the way the
remedy does; a composition of `Investigation` with the rows of `EvidenceStore` for several
orders; the entries of the audit trail, should anything come to depend on the fold of
`replay_case_state`.
