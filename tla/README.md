# TLA+ models of werkcrew-ai

werkcrew-ai coordinates a small construction crew: it takes in jobs (M1), follows
the work in the field (M2), plans and replans (M3, M7), prices (M5) and puts the
decisions that need a human in front of the owner (M4, M6). The package is
`src/src/werkcrew_ai/`; paths below are relative to it unless they start with
`docs/`, `migrations/` or `tests/`.

This directory models the components that keep state or decide over it. It says
what is modelled, what TLC checks, what TLAPS proves and what is left.

## 1. Inventory

| Component | State | Operations | Hard behaviour |
|---|---|---|---|
| M1 lifecycle and publication (`intake/`) | canonical jobs, fact revisions, operations, conflicts, publications | create, bind, follow-up, dormancy, wake-up, publish | replay against conflict, stale base revisions, a projection read in one transaction and published in a later one |
| M2 domain (`field/models.py`) | plan days, job execution roots (tasks, stages, assignments), directives, processed-event ledger | constructors, scope checks, governing order of directives | which of several directives governs is recomputed from sequence, supersession and the ledger |
| M2 reducer (`field/reducer.py`) | none: `reduce(scope, input, context)` is pure | sixteen event handlers, seven signals, reference checks, receipts | events of offline devices arrive late, repeated and in any order; timers race reports |
| M2 durable repository (`field/repository.py`, migration 0006) | inbox, roots, evidence identities and usages, conflicts, outbox | `accept_input`, `process_input`, `execute`, `create_*_root` | two transactions per request, concurrent requests, crash between them, partial hydration, rollback |
| M3 current plan and evaluation (`planning/current_plan*.py`, `evaluation_*.py`, `m2_bridge.py`, `m3_unavailability_impact.py`) | chains of plan revisions, evaluation inputs | import a revision, report, snapshot, record | chains validated as a whole on every read, a snapshot older than the transaction that uses it |
| M3-C search (`planning/bounded_feasibility.py`) | none: pure | generate and validate repair candidates | three budgets that may bite on the last element; overlap, travel and dependencies in separate passes; evidence finer than a proposal may be |
| M3-E (`authority/`) | registry, roots, principals, captures, consents, approvals, policies; an evidence cut | provision, register, issue, capture, act, withdraw; decide | retries of withdrawn consents; evidence captured in stages while the stores move |
| M7 (`dispatch/`, `persistence.py`, `agent/m7_*.py`) | calendar, materials, workflows, proposals, gates, decisions | plan, propose, gate, claim, apply | crash while a gate is RESUMING, checks before the transaction, stale proposals |
| M4/M6 (`agent/`, `infrastructure/demo_workflow_store.py`) | workflow snapshot, site visit, owner gate | assess, visit, plan, price, interrupt, claim, resume, commit | two responses race for one gate, resume outside the lock |
| M2 API, web application, serialization, M5, M8, migrations, C0 support, crew planner, demo data | - | - | section 6 |

How they interact. M1 publications and plan days are the preconditions of M2 roots.
A device posts a field event to the M2 API, which calls
`M2DurableRepository.execute`: `accept_input` stores the input in one
`BEGIN IMMEDIATE` transaction, `process_input` hydrates, reduces and commits in a
second one. An UNAVAILABLE report is turned by the bridge into a request to M3,
which evaluates it against the current plan revision and the M2 roots in the same
database; M3-C searches repairs over that input and a support snapshot; M3-E decides
what may be done with them. M7 and M6 keep their own gates for the owner; an agent
turn claims a gate, works outside the transaction or lock, and comes back to commit.

What makes it correct, in the words of the contracts under `docs/`: safety holds are
never lifted by a report; disputed or unsafe work does not show as done; a retry
returns the first result; an input is processed completely or not at all; a
publication shows the revision it names; a gate is decided once, by the answer that
claimed it, on what the owner was shown; a calendar moves by applied proposals only;
a withdrawn consent stays withdrawn; an ACT is authorised by the stores of that
moment; a candidate called feasible can be carried out; a search that stopped early
says so.

## 2. Modules

| Module | Models | Notes |
|---|---|---|
| `M2Types`, `M2Reducer` | `field/models.py`, `field/reducer.py` | one operator per handler; `Reduce(scope, input, context)` |
| `FieldState` | M2 as one atomic service | variables `scope` (roots and ledger) and `emitted`; also the abstract specification of `DurableInbox` |
| `DurableInbox` | `field/repository.py` | tables, requests in flight (`session`), answers given, crashes |
| `IntakeLifecycle` | `intake/lifecycle.py`, `repository.py`, `models.py`, `normalization.py` | the record `db` holds the tables; a handler maps `db` and a request to the new `db` and the result |
| `HandoffPublication` | `intake/publication.py` | extends `IntakeLifecycle`; read and publish are two steps |
| `DispatchPlanner` | `dispatch/planner.py`, `dispatch/models.py` | pure operators |
| `ReplanGate` | `persistence.py`, `dispatch/service.py`, `agent/m7_*.py` | extends `DispatchPlanner`; one step per transaction, `pc[p]` is what a request remembers between them |
| `OwnerGate` | `infrastructure/demo_workflow_store.py`, `agent/orchestrator.py`, `agent/tools.py`, `field/site_visit_workflow.py` | one step per call under the lock |
| `DecisionGate` | - | abstract: a gate is opened once, claimed by one answer at a time, decided by the claimed one, for ever |
| `PolicyEvidence` | `authority/repository.py`, `policy_evidence*.py` | roots, principals, signed captures, consumption, consents |
| `WorkingTime`, `OperationalAuthority` | `authority/operational_authority.py` | pure operators over an evidence cut |
| `AuthorityDecision` | the same, run against stores that move | staged capture by a fallible adaptor, then `Decide` |
| `PlanChain` | `planning/current_plan*.py` | append-only chains, bindings to M2 |
| `EvaluationInput` | `m2_bridge.py`, `m3_unavailability_impact.py`, `evaluation_*.py` | extends `PlanChain`; snapshot and record are two steps |
| `BoundedFeasibility` | `planning/bounded_feasibility.py` | the search as a deterministic machine, one draft per step |
| `M2Scenarios`, `MC*` | - | instances for TLC |
| `*Proofs` | - | theorems, section 4 |

Conventions. Every SQLite transaction (or locked call) is one step. A crash inside a
transaction equals one before it, so only the points between transactions matter. A
content-addressed record stands for its own fingerprint and id. Free text is a member
of a small set or a Boolean, time a small number; reason codes are kept where they
steer something, their wording never. A refused request that changes nothing is no
step, unless its refusal is stored or answered. What an agent's language model
chooses is free.

M2. Immutable definitions are constants (`TaskDef`, `AsgDef`, `DayDef`, `DirDef`); the
constructors' checks on them are `DefinitionAssumption`. `accept_input` is four actions,
one per branch, `process_input` four more. `Hydrate` restricts the stored state to what
`_hydrate` loads and the reducer is applied to that. `StorageError` collects the checks
that raise. The compare-and-set of `_apply_deltas` runs in the transaction that
hydrated, so it always succeeds and has no branch.

M7 and M6. `ReplanGate` keeps a tool call, its interrupt, the gate row bound to it, the
claim and the application apart, because each is a transaction of its own; `Fail(p)`
loses what a process holds at any point between them. `OwnerGate` does the same with
the in-memory store. Both are mapped to `DecisionGate` (`INSTANCE ... WITH`), which
knows only opened, claimed, decided and void gates.

M3. A plan revision is `[company, number, previous, content]`. What the plan reads of M2
is the hydrated jobs, task status and job revisions; `HydrateJob` and `FieldEvent` change
them between any two M3 transactions. In `BoundedFeasibility` a world is one evaluation
input and one support snapshot; commitments, workers and vehicles are numbers in the
order the code sorts identities. A draft maps the commitments it changes to worker,
vehicle and start. Time counts in fractions of a second (`Second` units make one): the
evidence takes any instant, task durations and routes are whole seconds, and a proposed
placement refuses a fraction. The refusal is a step of its own, from a seed (`RefuseSeed`)
or from an expansion (`Examine`), and ends the search with an exception
(`PlacementRefused`).

M3-E. `AuthorityDecision` captures the stages one by one and lets stores change in
between and the adaptor get one stage wrong; `Decide` builds the cut as the code does
and compares it with the heads it reads at that moment.

## 3. Runs

| Run | Instance | Distinct states |
|---|---|---|
| `FieldWork` | scenarios *crew* (a crew task of two stages and a STOP; ten inputs) and *evidence* (required, altered and reused photographs, four policy contexts) | 149,298 |
| `FieldPlan` | *directives* (four of one day, appearing one by one; acknowledgements, an exception, two E1 timers), *day* (draft to closed, two policies) and *report* | 66,461 |
| `Durable` | *requests* (two clients, a crash, two payloads for an id, two rule versions), *hydration*, *evidence*, *reuse* (one photograph for a task, its job, another task and a directive); refinement and liveness | 47,676 |
| `Intake` | two jobs sharing a conversation, two follow-ups on the same base, dormancy, a reused key, a publisher | 272,084 |
| `ReplanGate` | four demonstration days, two processes, two proposals, three calls for approval, one edit of a workflow or a material | 242,580 |
| `OwnerGate` | two requests, two reports with different prices and one with gaps, two gates, two instances | 708,700 |
| `PolicyEvidence` | two companies under one capture key, a registry that grows | 48,690 |
| `Authority` | two workers, three candidates around midnight and the overtime threshold, one edit of a store, one wrong stage | 71,481 |
| `Evaluation` | two companies, three revisions each, eight contents, two edits of the field | 57,376 |
| `Feasibility` | 2,465 evidence cuts: overlaps, routes, vehicles, missing evidence, chains, cut anchors, plans over the end of the horizon, fractions of a second, exhausted probes, mismatched inputs | 17,789 |
| `StagePhoto` | an accepted input can be processed: violated, finding 1 | - |
| `FieldException` | an excepted action is not confirmed later: violated, finding 2 | - |

`FieldWork`, `FieldPlan` and `Durable` choose one of several scenarios in the initial
state (`Plays`); scenarios never mix. Every M2 input may be submitted repeatedly and in
every order.

What the properties say is written above each of them. The main ones:

* M2: `SafeHoldPersists`, `StopExceptionHolds`; `DoneIsEarned` (an unsafe report or
  dispute never stands against a DONE, an allowed completion backs it, its evidence is
  unaltered); `DirectiveAnsweredOnce` (one acknowledgement informs, a late one rolls
  nothing back, one escalation); `AvailabilityByGesture`; `RetryIsSilent`.
* Repository: `OneAnswerPerInput`, `CompletionIsAtomic`, `ServerIdOwnedOnce`,
  `FirstAcceptanceStands`, `EvidenceRegistered`, `StorableIsProcessable`,
  `StorableIsCompleted` (liveness), `ImplementsFieldState` (refinement, with
  `MisjudgesEvidence` as its one exception).
* M1: `OneResultPerRequest`, `FactsAnswerForEvidence`, `PublishedAsRead`,
  `RevisionIdentifiesContent`.
* Gates: `ReplanGateDecidesOnce` and `OwnerGateDecidesOnce` (refinements of
  `DecisionGate`), `GateAgreesWithProposal`, `CalendarIsAppliedHistory`,
  `ProposalIsFeasible`, `ClaimsSettle` (liveness), `DecidedAsShown`,
  `PricesShownOrWithdrawn`.
* Authority: `ConsentIsLastWord`, `OneActionPerCapture`, `EvidenceStaysReadable`;
  `ActIsAuthorised` (judged from the stores, not from the evidence),
  `HonestEvidenceAccepted`, `EvaluationNeverRaises`, `ApprovalNeverCures`.
* M3: `StoredPlanReadable`, `RecordedInputIsCurrent`, `ImpactIsReachability` (against
  graph connectivity); `FeasibleMeansFeasible` (against a definition by instants that
  shares nothing with the interval tests of the code), `ExhaustionHonest` (with
  `CutUnreported` as its one exception), `SearchConcludes` (liveness; a search may raise
  where an anchor has a fraction of a second, and for no other reason).

Bounds. Two workers (the lead and another member) suffice for every rule that
distinguishes actors, two stages for rules that look at another stage, two directives of
a stream plus a superseding one for the governing order, two processes for a race, one
crash because a second one meets a state the first one left equally. Two proposals
planned from the same placement are the smallest lost update; three plan revisions the
smallest chain in which a placement is dropped and comes back; two gates show that a
withdrawn one does not answer for its successor. The search runs with four evaluations
instead of twelve and the derived limits of five probes and five anchors: the code
relates all three by `MAX + 1`, and each is met, missed by one and exceeded. The limit of
three modified commitments is the code's own, with four commitments to exceed it. Bounds
are named `Max...` and are guards of the actions they bound. `Intake` and
`PolicyEvidence` start from a state that deployment reaches by itself.

Deadlock is checked except where the bounded instance may really stop: gates and plans
run out of edits (`ReplanGate`, `OwnerGate`, `PolicyEvidence`, `Evaluation`), a search
ends (`Feasibility`). Symmetry is used in `Intake` (publishers),
`PolicyEvidence` (capture references) and `Evaluation` (companies), where no liveness is
checked.

Fairness. `StorableIsCompleted` assumes that a request that has begun and does not crash
is finished (`Served`: FastAPI runs the handler to its end) and that a device resubmits
an input while it has no result (`AcceptPending`). Nothing else in the repository drives
an input that is RECEIVED; there is no sweeper. `ClaimsSettle` assumes only that a
process which has claimed an answer runs on (`Resume`), and exempts one that failed.
`SearchConcludes` assumes that a call of a pure function runs on.

### Findings

1. *A photo of two stages* (`StagePhoto`). The reducer compares a photo by content and
   task, `_persist_evidence` by stage as well, and raises; the input stays RECEIVED and
   every retry fails. Similar: RESOURCE_MISSING or SCOPE_FACT with a task and a photo but
   no job id is accepted by the reducer and refused by storage, and so is a scope fact
   whose photo belongs to job j1 and that names only a directive of j1.
2. *Exception, then acknowledgement* (`FieldException`). The proposal of an action that
   the worker excepted becomes the confirmed plan when the worker acknowledges it later.

### Observations without a run

* M2: UNAVAILABLE_TODAY for a plan day that is not stored is rejected and completed with
  a version 2 proof that no retry can read back (`field/repository.py:4402`; row field
  `ProofReadable`). A completion of a task that names another stage passes the unsafe
  report of a stage. A stage that was DONE stays so when the task as a whole is reported
  unsafe. Hydration does not find every earlier use of an evidence id that the reducer
  over the whole ledger would judge by: a rejected event whose attachment could not be
  registered leaves no usage row, and the directive that an earlier event named in place
  of a job, a task or an assignment is not loaded (`field/repository.py:1803-1854`). Two
  scope facts with one photo, the first naming only a directive of job j1, the second job
  j1 itself, are both REPORTED by the atomic service; the repository rejects the second
  with EVIDENCE_SCOPE_CONFLICT. `MisjudgesEvidence` names exactly these reports and
  `ImplementsFieldState` excepts them; scenario *reuse* of `Durable` reaches both kinds.
* M2: the historical reconstruction (`field/repository.py:610-770, 857-1007`) walks
  FIELD_EVENT rows only, so an end-of-day signal between two reports makes an intact
  chain look ambiguous.
* M7: a proposal is bound to the revisions of the assignments it *moves*. With three
  tasks, two proposals that move different tasks can both be applied and leave two of
  them double-booked; `CalendarIsAppliedHistory` is about placements, not about their
  union. Material readiness is checked when planning, not when applying. A gate left
  RESUMING by a process that failed can never be claimed again (`persistence.py:1067`).
* M6: prices are frozen while a gate is active by withdrawing the gate when a report
  arrives; `PricesShownOrWithdrawn` states both halves
  (`docs/decisions/0007`, item 9).
* Authority: the AUTH-0 root keeps the registry revision it was provisioned with, so
  after the next revision of the worker registry no cut binds any more. This fails
  closed, as `docs/decisions/0014` asks for the exact binding. Under an unsupported cost
  policy the P_COST gate reads PASS with a cost above the limit; the override stays
  PENDING and the outcome is ABSTAIN.
* M3-C: seed drafts that end behind the horizon are skipped without a trace
  (`bounded_feasibility.py:942`), while
  `docs/mobilewc/M3_BOUNDED_FEASIBILITY_CANDIDATE_GENERATION.md` counts the horizon among
  the bounds that lead to SEARCH_ENVELOPE_EXHAUSTED; `ExhaustionHonest` therefore speaks
  of seeds inside the horizon. When the planned start of a direct commitment is inside
  the horizon and its end is not, it takes one of the thirteen anchor places without an
  evaluation. If all twelve evaluations then go to that commitment and that worker, the
  anchors cut behind the thirteenth are dropped and the result does not say so
  (`bounded_feasibility.py:862, 893-898`). `CutUnreported` is exactly this set of seeds;
  the run reaches it, and the theorem shows that nothing else is ever left out in silence.
* M3-C: `ProposedWorkerPlacement` refuses an instant with microseconds
  (`bounded_feasibility.py:154-163, 202-212`), while the evidence constructors accept one
  (`feasibility_support.py:103-110, 744-765, 829-839`) and `_anchor_starts` passes it on.
  One shift, customer window, planned start or planned end off the second can make the
  whole search raise instead of answering, for every commitment and worker of the input.
  `SearchConcludes` says when it may.
* M3-C: CREW_REPAIR_UNSUPPORTED is also returned when SINGLE commitments
  were searched and rejected next to a crew commitment, where the document says no direct
  impact has SINGLE support. Travel is checked between neighbours in the order of
  starts: in a plan that books a worker twice already, the longer of two overlapping
  stops can be missed (`FeasibleMeansFeasible` assumes a plan without double bookings). An
  expansion keeps the worker a counterpart is planned for, even the one who reported
  unavailable; only the availability ledger prevents that.

## 4. Proofs

TLAPS proves the following for every value of the constants: sets of tasks, workers,
directives, inputs, jobs, companies, clients and processes of any size, and any number of
crashes, retries and revisions. The runs check the same properties on their instances.

| Module | Theorem | States |
|---|---|---|
| `FieldStateProofs` | `TypeCorrect`, `SafeHoldAlwaysBlocks`, `StopExceptionAlwaysHolds`, `SafeHoldIsForever`, `RetryAlwaysSilent` | types, holds, retries |
| | `AvailabilityAlwaysByGesture` | `AvailabilityByGesture` |
| | `DirectiveAlwaysAnsweredOnce` | `DirectiveAnsweredOnce` |
| | `DoneAlwaysEarned` | `DoneIsEarned` |
| `DurableInboxProofs` | `DurableTypeCorrect`, `OneAnswer`, `CompletionAtomic`, `ServerIdsOwnedOnce`, `FirstAcceptanceAlwaysStands` | rows, answers, claims |
| | `EvidenceAlwaysRegistered` | `EvidenceRegistered` |
| | `DurableImplementsService` | the refinement `ImplementsFieldState`, for all inputs |
| `IntakeProofs` | `AlwaysOneResultPerRequest`, `FactsAlwaysAnswerForEvidence`, `RevisionAlwaysIdentifiesContent`, `AlwaysPublishedAsRead` | M1's ledger and its publications |
| `ReplanGateProofs` | `GateAlwaysAgreesWithProposal`, `CalendarAlwaysAppliedHistory`, `ReplanGateAlwaysDecidesOnce` | M7's gate, with the refinement of `DecisionGate` |
| | `ProposalAlwaysFeasible` | the planner behind it: `ProposalIsFeasible` |
| `OwnerGateProofs` | `PricesAlwaysShownOrWithdrawn`, `AlwaysDecidedAsShown`, `OwnerGateAlwaysDecidesOnce` | M6's gate, with the refinement of `DecisionGate` |
| `AuthorityProofs` | `ConsentAlwaysLastWord`, `AlwaysOneActionPerCapture`, `EvidenceAlwaysReadable` | principals, captures, consents |
| | `ActsAreAuthorised`, `ApprovalsNeverCure` | what is released, on whose word |
| | `EvaluationAlwaysAgrees`, `HonestEvidenceAlwaysAccepted` | no false alarm: nothing raises, nothing honest is refused |
| | `SweepCounts` | merged working time is the number of units covered |
| `PlanningProofs` | `FeasibleAlwaysFeasible`, `ExhaustionAlwaysHonest` | the bounded search |
| | `ResultNeverRefused`, `RaisesOnFractionsOnly` | what can make it raise: the safety part of `SearchConcludes` |
| | `StoredPlanAlwaysReadable`, `RecordedInputAlwaysCurrent`, `ImpactAlwaysReachability` | plan chains, evaluation inputs |

`M2ReducerProofs` holds the lemmas about the reducer that the first two share.

Assumptions. All are named `ASSUME`s of the module that declares the constant, and TLC
evaluates them in the runs.

* M2: `DefinitionAssumption` and `InputAssumption` are what the constructors of
  `field/models.py` enforce on definitions and inputs (among others: sequence numbers are
  natural, the attachments of one event have different ids) and what the trigger ids of
  signals encode (two signals with one id name one directive). `CrashAssumption` and
  `KeyAssumption`: `MaxCrashes` is a natural number, `None` is no key.
* Repository: nothing beyond these; evidence ids may be reused by anybody.
* M1: `RequestAssumption` (the shape of requests), `NoneAssumption`.
* Elsewhere: `None` is no gate record, root, key or company (`NoneAssumption`); the first
  registry names workers (`RegistryAssumption`).
* M7: `WorldAssumption` is what the constructors of the dispatch facts accept (`WorldOK`):
  finitely many assignments, numbered, each with a job, a start before its end and a known
  status, at most one material row for each (expected material has an arrival time), travel
  times that are natural numbers, availability windows and a working day that are not
  empty. `ArrivalAssumption`: arrival times are natural numbers.
* Plan chains: `TasksAssumption`, the tasks of the M2 roots are finitely many.
* Authority: `WorkingTimeAssumption` is what the constructors of the plan and of
  `M3RepairCandidate` enforce (placements take time, a commitment is placed once, a
  candidate modifies at least one commitment and proposes one placement for each);
  `VerdictAssumption` that a candidate is feasible when its whole trace passes;
  `AuthorityDecisionAssumption` that workers are registered and what `StoresOK` says of
  the stores: the ledger holds whole bookings of the days that are compared, thresholds
  are not negative, principals are registered, and who consents is one of them.
* M3-C: `EvidenceAssumption` is what the constructors of `feasibility_support.py` and
  `current_plan.py` guarantee: finitely many records, work that takes time, durations and
  routes in whole seconds, instants with any fraction of one; positive bounds. That the support answers the
  input is no assumption: `ContextOK` is checked by the search, and its failure ends it.

**M2, the atomic service.** `Inv` is `TypeOK`, `Guarded(scope)` (a task is blocked
exactly in SAFE_HOLD, is not authorized then, and a STOP with an exception is in force
over a held task) and `LedgerOnce(scope)` (an event id has one receipt). `Guarded` is not
inductive without the types of the handlers' results; `RetryIsSilent` needs `LedgerOnce`
because the replay takes any receipt with the event's id. `M2ReducerProofs` has one lemma
per handler that the resulting scope is well typed, guarded and lets no held task go
(`ReduceGood`, `NormalizeGood`), and one per handler that bounds what it moves
(`EventMove`, `SignalMove`): which task, stage, day or directive changes, under which
outcome, and what the event must have passed. `ReduceMove` folds them into three kinds of
step (handled, quiet, signal), so the properties below need one case per kind and not one
per handler.

`Base` adds that a stage is never itself in SAFE_HOLD (the hold is the task's) and that
every applied receipt has passed the reference checks of its event. Over it stand three
independent strengthenings:

* `DaysReported`: an unavailable or closed day has its worker's applied report.
* `Answers`: issued directives are in scope and numbered apart within their stream
  (`Issued`); a directive is ACKED exactly when the ledger holds the acknowledgement it
  names, and no other (`Answered`); an acknowledged proposal is confirmed unless a later
  directive governs (`Confirmed`). `Escalated`: a directive has at most one escalation in
  the outbox, and then its flag is set.
* `EvidenceOwned`, `DisputesHalt`, `DoneBacked` and `UnsafeNeverDone` itself: which
  receipt each DONE, dispute and unsafe report goes back to. `EvidenceOwned` adds to
  `EvidenceImmutable` that evidence lies on tasks of the scope only, because that is the
  history with which the reducer compares an attachment.

**M2, the repository.** `Inv` is `TypeOK` plus `Stored`: every row is either RECEIVED
without result and receipts or COMPLETED with the receipt that its result reports
(`RowOK`); the owner of a collision is another row that claims the id (`OwnerOK`); claims
are unique (`Claims`); outbox rows, evidence uses and answers belong to completed rows.
`OneAnswerPerInput` follows because a completed row never changes (`Kept`).
`EvidenceRegistered` needs `Registered`, which adds the guards of the stored roots, and
the moves of the reducer applied to the hydrated scope: evidence enters a task only
together with an attachment that `_persist_evidence` has just registered for it.

That the repository implements the service compares two reductions of one input: of what
`_hydrate` loads, and of everything stored (`Whole`, which is `Grown` from the first by
putting back what was left out). Reading comes first: each check of the reducer has the
same answer in both (`ScopeErrorsRead`, `EventRead`, `GovernedRead`, `EvidenceRead`,
`BlockedRead`, `UnsafeRead`, `DisputableRead`, `ConfirmsRead`, `SignalRead`), because
`_hydrate` loads the roots, streams, STOPs and receipts the check can reach. Evidence is
the hard one. A task that counts an item is registered as its owner, so the id leads to
the task (`TaskEvidenceRead`); an accepted report with an attachment has a usage row and
names its job if it names a task or an assignment (`UsesRecorded`, an invariant of its
own), so the id leads to the report and the report to the same job. What remains are the
reports of `MisjudgesEvidence` (`JudgedOrMisjudged`). Then writing: every handler changes the roots it was given in the same
way whatever else is in the scope (`EventCarries`, `SignalCarries`), `Carries` being "the
same result, with the rest put back". `FinalizeStores`, `RawStores` and `PendingStores`
follow the reduction through receipts, revisions and the normalisation for durability to
what is committed (`Stores`); a pending input that owns its claim is new to the ledger
(`PendingIsFresh`), so the service submits it without a replay. A commit is then one
submission, materialisation is itself, and every other step leaves roots, ledger and outbox
alone. The lemmas named `Service...` say that the instance of `FieldState` has the
operators of the reducer; the prover sees the two as different symbols.

**M1.** `Sound(db)` says of the tables that their types hold, that every applied
operation key has one row and a conflict one per content (`Recorded`), that every fact row
with an evidence is reported by the result of that follow-up (`RowsAnswered`), and that
every row a result reports exists (`Reported`). `AllKept` ties what was returned to those
rows. For the publications `Faithful`,
`OneContent` and `InOrder` say that a draft or publication shows the content its revision
had; they rest on `RevisionIdentifiesContent`, which is proved for each of the seven
paths that change a job.

**Gates.** `ReplanGate`: `Agrees` relates the status of every gate to that of its
proposal, `Ungated` says that a proposal without a gate is open, `Turns` relates what each
process holds in memory to both, `Traced` and `DecisionsOfGates` are about the trace and
decision rows, and `History` reconstructs each placement from the applied proposals.
`OwnerGate`: `Numbered` (a gate number is given once), `Resumable` (a claimed answer picks
a variant the gate shows, and nothing is decided while the gate is active) and
`DecisionOfGate` (only a resolved gate has a decision). In both, every step moves the gates in one of a few ways,
and each way is a step or a stutter of `DecisionGate` under the mapping of the module.

**Policy evidence.** `Lineages` is the core: the consents of a lineage are numbered without
gaps in the order in which they were said, each naming the one before. `Consumption` ties a
capture to the action that used it, `Answered` the answers given to the evidence rows,
`Rooted` and `Provisioned` make the reads succeed.

**Authority.** The evaluation is a function of a cut and a vector, so most of the work is
about these. `AssessmentsAgree` goes through the cascade once and finds the gates, the
relation and the disposition consistent; that needs only that the hard boundaries are
known (`BoundariesKnown`). `ApprovalsNeverCure` compares two cuts that differ in the
approvals: what is required and what is observed is the same (`SameRequirements`,
`SameObservations`), so what was undecidable stays so. For `ActIsAuthorised`, `Traced`
keeps where each part of the cut came from, and `ObservedNow` says that a cut that
matches the vector holds the values of the stores of that moment, whenever it was
captured. The overtime is the long part: the code adds up merged intervals, the property
counts units of time. `SweepCounts` is the invariant of the merging loop (the time so far
is the number of units covered, and what is left starts no earlier), `CountableIs` cuts
it to a day, and then a touched day is one of the expected periods, for which the checks
of the cut leave the adaptor no choice but all planned, booked and proposed work
(`ComparedWork`); an untouched day is the same before and after. For
`HonestEvidenceAccepted`, `AsTheStoresAre` says stage by stage that an honest capture
equals the stores while they stand still, and one lemma for each check of the cut says
that such a capture passes (`HonestCutOK`, `HonestValid`, `HonestComparesAll`): the
periods of `_local_calendar_periods` are exactly the days that have a unit of changed
work (`DayHit`, `KeysExpected`), and the ledger's content can be rebuilt from its
entries.

**M3-C, the search.** `CanBeCarriedOut` speaks of instants and of who takes what; the
code of intervals, of shared resources and of neighbours in an order. The lemmas go from
the one to the other: an interval passes a check exactly when its instants do; a draft
without rejections books nothing twice (`NothingTakenTwice`, which needs the plan to book
nothing twice for the pairs the draft leaves alone); two stops of a resource with nothing
of it in between are neighbours in the order of `ordered_schedule` (`TravelInTime`, the
heart of it: without double bookings whatever lies between two stops in the order lies
between them in time); an edge of a changed commitment is among the affected ones. This
holds of drafts of the plan within the horizon (`DraftOK`), so `Inv` says that the stream
and the expansions propose nothing else: seed pairs, anchors and vehicle options are what
they should be, a latest change and a first violation exist, and at most one expansion is
pending. `ExhaustionHonest` adds the account of what was tried (`Complete`). `Walked`: every seed
the stream has behind it (`Behind`) that fits the horizon was looked at. `Told`: what was
looked at is what was evaluated, the first expansion of every candidate was looked at, is
pending or fell to the budget, and each limit met and each missing fact is reported.
`Concluded`: a result that does not report exhaustion leaves nothing pending and the
stream at its end. `EverySeed` then finds each seed of the property in the stream, by the
quotient and remainder of its number.
The seeds it does not find there are anchors cut from a list that is one longer than the
budget: each listed anchor inside the horizon was evaluated, so all evaluations were of
that pair and one listed anchor, the planned start, ended behind the horizon
(`NotMoreThanCandidates`, and then `CutUnreported`). Expansions keep to whole seconds
because durations and routes do and the placements they start from are on the second or
refused before (`WholeSeconds`, `AnchorsOnTheSecond`, `RefusalStep`), which is
`RaisesOnFractionsOnly`.
`Accounts` is the invariant behind `ResultNeverRefused`: an expansion dropped for
want of room sets the exhaustion flag before any trace says so, and only the budget makes
up for it at the end.

**M3, the plans.** `Histories` says that every chain passes its own validation. Importing keeps it
only because `DaysOwned` and `TasksOwned` keep companies apart: the check of a new
revision looks at the rows of other companies as well; `Bound` says that the bindings to
M2 stay valid. `RecordedInputIsCurrent` needs no invariant: the proof shows that the
checks of the recording transaction alone suffice, whatever the snapshot held. The
impact is a recursive function over rounds, one for each unfinished task. Each round adds
a task or is closed under dependencies already (`RoundsFollow`, by a least counterexample),
so the last one is closed, and everything in it was led to; `ImpactsAre` says this of all
the origins at once.

**M7, the planner.** The loop of `_evaluate_order` is a recursive function over the
ordering; `Kept` is what it has after each assignment, by a least counterexample: each
placement keeps its duration, the working day, its deadline and the way from the one
before. Then the ranking: keys of orderings are compared lexicographically and some
ordering is first (`SomeFirst`, `BestIs`); were nothing moved, it would be the order of the
calendar, and `plan` proposes nothing (`PlanSound`). `Promised` is what rows and turns keep
of this: the calendar an approval leaves is one the next plan can start from.

## 5. Only model-checked

* Liveness (`StorableIsCompleted`, `ClaimsSettle`, `SearchConcludes`) is out of the
  prover's reach. Of `SearchConcludes` the reasons to raise are proved
  (`RaisesOnFractionsOnly`), not that a search ends.
* `StorableIsProcessable` is stated about the scenarios of its run.

## 6. What is not modelled

* M2 repository: verification of stored hashes and canonical JSON (a corrupted
  database), initial roots that already contain evidence or finished work,
  `create_worker_registry` (the registry is the constant `Workers`), and the read-only
  historical reconstruction for the M3 bridge. `create_job_execution_root` has no caller
  outside tests; it is an action because the roots have to appear.
* `field/serialization.py` and every other canonical encoding: the value it encodes.
* C0 support (`feasibility_support.py`, `feasibility_repository.py`): append-only ledgers
  of the same shape as the plan chains; the search is checked over the snapshots they
  may yield.
* M5 pricing, crew planner, job assessment, catalogue: sequential arithmetic and
  heuristics; where a modelled component uses their result it is a constant.
* Migration runner: sequential, one transaction per migration.
* M7's Gen1 gate table (`save_pending_gate`, `recover_pending_gate`), trace rows no
  decision writes, and the seeding calls.
* Rows altered behind the repositories, in every component.
* The M2 API, the web pages, the Bedrock client, routing and demonstration data.

## 7. Plan

Modelled, in the order of importance: M2 reducer and inbox, M1, the M7 and M6 gates,
policy evidence and authority, plan chains and evaluation, the bounded search. Proved:
section 4.

Left open: which inputs storage never refuses, hence a theorem for
`StorableIsProcessable`.
