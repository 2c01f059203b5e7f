------------------------- MODULE AuthorityDecision -------------------------
(***************************************************************************)
(* One company decides on the M3-C candidates while the world moves.  The  *)
(* evidence is captured in stages (evaluation input, feasibility support,  *)
(* cost, working time, markers, selections); the stores may change between *)
(* any two of them.  Decide builds the evidence cut, which raises when its *)
(* parts do not bind, reads the heads of the day into the currentness      *)
(* vector and evaluates.                                                   *)
(*                                                                         *)
(* The capturing adaptor is not part of the repository.  Here it reads the *)
(* stores and may get one stage of a cut wrong: it may leave out work, a   *)
(* worker or a marker, report amounts it has not derived, or select an old *)
(* consent.  What the code accepts of that is the question.                *)
(***************************************************************************)
EXTENDS OperationalAuthority

CONSTANTS
    RegisteredWorkers,  \* the workers of the AUTH-0 root
    LedgerItems,        \* what may be booked in the working-time ledger
    Worlds,             \* the stores a decision may start from
    MaxEdits            \* bound on what happens to the stores meanwhile

HardBoundaries == [Positions -> {"APPLICABLE", "UNKNOWN", "NOT_APPLICABLE"}]

(* The local days in which a candidate takes time from or gives time to a  *)
(* worker, and the periods to compare for it.                              *)
DaysOf(start, end) == { t \div DayLength : t \in start..(end - 1) }

TouchedDays(c, worker) ==
    UNION ( { DaysOf(p.start, p.end) : p \in { q \in Schedule :
                 q.commitment \in c.modified /\ worker \in q.workers } }
            \cup { DaysOf(p.start, p.end) : p \in { q \in c.proposed : q.worker = worker } } )

CapturedPeriods(c) ==
    UNION { { [worker |-> w, start |-> d * DayLength, end |-> (d + 1) * DayLength] :
                d \in TouchedDays(c, w) } : w \in RegisteredWorkers }

(* What the stores are like.  Work takes time.  The ledger is what is      *)
(* booked in the periods that are compared, cut at midnight.  A cost       *)
(* consequence of a feasible candidate is an amount or absent.  Only a     *)
(* trusted principal consents (PolicyEvidence).                            *)
Booking(l) == l.start \in Nat /\ l.end \in Nat /\ l.start < l.end

InLedger(l) ==
    /\ Booking(l)
    /\ l = [worker |-> l.worker, kind |-> l.kind, commitment |-> l.commitment,
            start |-> l.start, end |-> l.end]
    /\ l.kind \in CommonKinds
    /\ \E n \in Positions : \E k \in CapturedPeriods(CandidateSeq[n]) :
          l.worker = k.worker /\ k.start <= l.start /\ l.end <= k.end

Drivers ==
    UNION { { p.worker : p \in { q \in CandidateSeq[n].proposed : q.vehicle \in PrivateVehicles } } :
            n \in Positions }

Stores == {"plan", "handoff", "tasks", "assignments", "days", "sources", "registry",
           "principals", "policy", "delta", "threshold", "ledger", "consent", "markers",
           "approvals", "hard", "exhausted", "search"}

StoresOK(w) ==
    /\ DOMAIN w = Stores
    /\ w.hard \in HardBoundaries
    /\ \A l \in w.ledger : InLedger(l)
    /\ w.threshold \in Nat
    /\ \A n \in FeasibleCandidates :
          /\ CandidateSeq[n].id \in DOMAIN w.delta
          /\ w.delta[CandidateSeq[n].id] \in Int \cup {NONE}
    /\ w.principals \subseteq RegisteredWorkers
    /\ w.consent \in Seq({"FREELY_GIVEN", "WITHDRAWN"})
    /\ w.consent # <<>> => Drivers \subseteq w.principals

(* The workers of the schedule and of the candidates are registered; an    *)
(* absent rule is no rule.                                                 *)
ASSUME AuthorityDecisionAssumption ==
    /\ MaxEdits \in Nat
    /\ \A p \in Schedule : p.workers \subseteq RegisteredWorkers
    /\ \A n \in Positions : \A p \in CandidateSeq[n].proposed : p.worker \in RegisteredWorkers
    /\ \A l \in LedgerItems : InLedger(l)
    /\ \A w \in Worlds : StoresOK(w)
    /\ NONE \notin [worker : RegisteredWorkers, start : Nat, end : Nat, threshold : Nat,
                     from : {0}, until : {NONE}]

VARIABLES
    world,      \* the stores
    stage,      \* how far the evidence is captured
    cut,        \* the evidence captured so far
    result,     \* the evaluation, or NONE
    honest,     \* every stage of this cut reported what the stores held
    moved,      \* the stores moved since this cut was begun
    edits

decisionVars == <<world, stage, cut, result, honest, moved, edits>>

Bool == {TRUE, FALSE}

(***************************************************************************)
(* What the stores hold.                                                   *)
(***************************************************************************)
InputOf(w) ==
    [plan |-> w.plan, handoff |-> w.handoff, tasks |-> w.tasks,
     assignments |-> w.assignments, days |-> DOMAIN w.days]

SupportOf(w) == [plan |-> w.plan, registry |-> w.registry, sources |-> w.sources]

CostSupportOf(w, m3) == [plan |-> w.plan, m3 |-> m3, delta |-> w.delta]

(* The AUTH-0 root keeps the registry revision it was provisioned with.    *)
RootRegistry == 0

RootOf(w) ==
    [registry |-> RootRegistry, workers |-> RegisteredWorkers, principals |-> w.principals]

(* The record a worker's consent lineage has at place i.                   *)
ConsentAt(w, scope, i) ==
    [scope |-> scope, sequence |-> i, status |-> w.consent[i], head |-> i = Len(w.consent)]

ConsentHead(w, scope) ==
    IF w.consent = <<>> THEN NONE ELSE ConsentAt(w, scope, Len(w.consent))

(***************************************************************************)
(* The working-time adaptor: rules and items for every period to compare.  *)
(***************************************************************************)
RuleFor(w, key) ==
    [worker |-> key.worker, start |-> key.start, end |-> key.end,
     threshold |-> w.threshold, from |-> 0, until |-> NONE]

LedgerWork(ledger, key) ==
    { WorkItem(l.worker, l.kind, l.commitment, NONE, l.start, l.end,
               <<"WORKING_TIME_LEDGER", ledger>>) :
        l \in { x \in ledger : x.worker = key.worker /\ x.start >= key.start
                               /\ x.end <= key.end } }

WorkingTimeFaults ==
    {"NO_FAULT", "LEDGER_WORK_LEFT_OUT", "PLAN_WORK_LEFT_OUT", "NEW_WORK_LEFT_OUT",
     "WORKER_LEFT_OUT", "AMOUNT_NOT_DERIVED", "LEDGER_UNKNOWN"}

Unless(fault, f, items) == IF fault = f THEN {} ELSE items

PlanHead(w) == <<"C0_PLAN_SCHEDULE", w.plan>>

CapturedKeys(fault, n) ==
    { k \in CapturedPeriods(CandidateSeq[n]) :
        fault = "WORKER_LEFT_OUT" =>
           k.worker \in UNION { BaselineOf(j).workers : j \in CandidateSeq[n].modified } }

PlannedWork(w, fault, n, k) ==
    Unless(fault, "PLAN_WORK_LEFT_OUT", ExpectedC0Common(CandidateSeq[n], k, PlanHead(w)))

BookedWork(w, fault, k) ==
    IF fault \in {"LEDGER_UNKNOWN", "LEDGER_WORK_LEFT_OUT"} THEN {} ELSE LedgerWork(w.ledger, k)

ItemsBefore(w, fault, n, k) ==
    PlannedWork(w, fault, n, k) \cup BookedWork(w, fault, k)
    \cup ExpectedBaseline(CandidateSeq[n], k, PlanHead(w))

ItemsAfter(w, fault, n, k) ==
    PlannedWork(w, fault, n, k) \cup BookedWork(w, fault, k)
    \cup Unless(fault, "NEW_WORK_LEFT_OUT", ExpectedCandidate(CandidateSeq[n], k))

AmountOf(w, fault, complete, k, items) ==
    IF ~complete THEN NONE
    ELSE IF fault = "AMOUNT_NOT_DERIVED" THEN 0
    ELSE CalculateRuleOvertime(RuleFor(w, k), items)

ComparisonOf(w, fault, complete, n, k) ==
    LET before == ItemsBefore(w, fault, n, k)
        after == ItemsAfter(w, fault, n, k)
    IN  [worker |-> k.worker, start |-> k.start, end |-> k.end,
         rule |-> RuleFor(w, k), baseline |-> before, candidate |-> after,
         complete |-> complete,
         baselineOvertime |-> AmountOf(w, fault, complete, k, before),
         candidateOvertime |-> AmountOf(w, fault, complete, k, after)]

EvidenceOf(w, fault, complete) ==
    [n \in Positions |->
       [keys |-> CapturedKeys(fault, n), complete |-> complete,
        comparisons |-> { ComparisonOf(w, fault, complete, n, k) : k \in CapturedKeys(fault, n) }]]

EntryOf(w, fault, kind, n, k) ==
    [position |-> n, worker |-> k.worker, start |-> k.start, end |-> k.end, complete |-> TRUE,
     items |-> IF kind = "C0_PLAN_SCHEDULE" THEN PlannedWork(w, fault, n, k)
               ELSE BookedWork(w, fault, k)]

ManifestOf(w, fault, kind) ==
    [head |-> IF kind = "C0_PLAN_SCHEDULE" THEN w.plan ELSE w.ledger,
     complete |-> TRUE,
     entries |-> UNION { { EntryOf(w, fault, kind, n, k) : k \in CapturedKeys(fault, n) } :
                         n \in Positions }]

SelectionOf(w, fault, kind) ==
    IF kind = "C0_PLAN_SCHEDULE" THEN [state |-> "PRESENT", head |-> w.plan]
    ELSE IF fault = "LEDGER_UNKNOWN" THEN [state |-> "UNKNOWN", head |-> NONE]
    ELSE [state |-> IF w.ledger = {} THEN "AUTHORITATIVELY_EMPTY" ELSE "PRESENT",
          head |-> w.ledger]

WorkingTimeCut(w, fault, complete) ==
    LET captured == EvidenceOf(w, fault, complete)
        all == UNION { captured[n].comparisons : n \in Positions }
    IN  [rules |-> { m.rule : m \in all },
         items |-> UNION { m.baseline \cup m.candidate : m \in all },
         selections |-> [kind \in SourceKinds |-> SelectionOf(w, fault, kind)],
         manifests |->
            [kind \in IF fault = "LEDGER_UNKNOWN" THEN {"C0_PLAN_SCHEDULE"} ELSE SourceKinds |->
               ManifestOf(w, fault, kind)],
         evidence |-> captured]

(* The marker adaptor: one complete coverage per subject, of the marker     *)
(* source's head; the subjects in unread are not covered.                   *)
MarkerCut(w, unread) ==
    [s \in MarkerUniverse |->
        IF s \in unread
        THEN [evidence |-> {}, complete |-> FALSE]
        ELSE [complete |-> TRUE,
              evidence |-> {[subject |-> s, worker |-> NONE, marked |-> s \in w.markers,
                             complete |-> TRUE, head |-> w.markers]}]]

(* The owner's recorded approvals of the requirements.                     *)
OwnerSelections(w, c) ==
    [r \in OwnerRequirements(c) |-> IF r.scope \in w.approvals THEN r.scope ELSE NONE]

(* The heads the stores have when the decision is taken.                   *)
Observed(w, c) ==
    LET m3 == [input |-> InputOf(w), support |-> SupportOf(w)]
    IN  [COMPANY_PLAN_REVISION_HEAD |-> w.plan,
         CURRENT_PLANNING_SCOPE |-> w.plan,
         M1_HANDOFF_PRECONDITIONS |-> w.handoff,
         M2_JOB_TASK_PRECONDITIONS |-> w.tasks,
         M2_ASSIGNMENT_PRECONDITIONS |-> w.assignments,
         PLAN_DAY_PRECONDITIONS |-> w.days,
         EVALUATION_INPUT_BINDING |-> InputOf(w),
         C0_SUPPORT_SELECTED_SOURCES |-> SupportOf(w),
         M3_C_RECOMPUTATION |-> m3,
         M5_M3_D_CHAIN |-> CostSupportOf(w, m3),
         AUTH_0_BINDING |-> RootOf(w),
         POLICY_BINDING |-> w.policy,
         OWNER_APPROVAL_SELECTIONS |-> OwnerSelections(w, c),
         WORKER_CONSENT_HEADS |->
            [r \in WorkerRequirements(c) |-> ConsentHead(w, r.scope)],
         WORKING_TIME_RULE_HEAD |-> {w.threshold},
         WORKING_TIME_C0_HEAD |-> w.plan,
         WORKING_TIME_LEDGER_HEAD |-> w.ledger,
         AUTHORITY_MARKER_HEADS |-> {w.markers},
         HARD_BOUNDARIES |-> w.hard,
         AUTHORITY_REQUIREMENTS |-> Requirements(c)]

(***************************************************************************)
(* The decision.                                                           *)
(***************************************************************************)
Begin ==
    /\ stage = "idle"
    /\ cut' = [plan |-> world.plan, input |-> InputOf(world), days |-> world.days,
               root |-> RootOf(world), policy |-> world.policy, hard |-> world.hard,
               exhausted |-> world.exhausted, search |-> world.search]
    /\ stage' = "support" /\ honest' = TRUE /\ moved' = FALSE
    /\ UNCHANGED <<world, result, edits>>

CaptureSupport ==
    /\ stage = "support"
    /\ LET support == SupportOf(world)
       IN  cut' = Joined(cut, [support |-> support,
                               m3 |-> [input |-> cut.input, support |-> support]])
    /\ stage' = "cost"
    /\ UNCHANGED <<world, result, honest, moved, edits>>

CaptureCost ==
    /\ stage = "cost"
    /\ cut' = Joined(cut, [cost |-> CostSupportOf(world, cut.m3)])
    /\ stage' = "working"
    /\ UNCHANGED <<world, result, honest, moved, edits>>

CaptureWorkingTime(fault, complete) ==
    /\ stage = "working"
    /\ cut' = Joined(cut, [working |-> WorkingTimeCut(world, fault, complete)])
    /\ honest' = (fault = "NO_FAULT" /\ complete)
    /\ stage' = "markers"
    /\ UNCHANGED <<world, result, moved, edits>>

CaptureMarkers(unread) ==
    /\ stage = "markers"
    /\ unread # {} => honest
    /\ cut' = Joined(cut, [markers |-> MarkerCut(world, unread)])
    /\ honest' = (honest /\ unread = {})
    /\ stage' = "selections"
    /\ UNCHANGED <<world, result, moved, edits>>

(* Every recorded approval of a requirement, and one record of the consent *)
(* lineage for each scope: place picks it from the end, 0 is the head.     *)
SelectEvidence(place) ==
    LET Record(scope) == IF place = 0 THEN ConsentHead(world, scope)
                         ELSE ConsentAt(world, scope, Len(world.consent) - place)
    IN  /\ stage = "selections"
        /\ place # 0 => honest /\ Len(world.consent) > place
        /\ cut' = Joined(cut, [owner |-> OwnerSelections(world, cut),
                               consent |-> [r \in WorkerRequirements(cut) |->
                                              Record(r.scope)]])
        /\ honest' = (honest /\ place = 0)
        /\ stage' = "decide"
        /\ UNCHANGED <<world, result, moved, edits>>

(* M3AuthorityEvidenceCut checks what it is given and raises when the parts *)
(* do not bind, or when the vector does not observe exactly the subjects    *)
(* the cut depends on; evaluate_operational_authority raises when its own   *)
(* result contradicts itself.                                               *)
DecidedStage(c, vector) ==
    IF ~(EvidenceBound(c) /\ CurrentnessVectorOK(c, vector)) THEN "refused"
    ELSE IF ResultOK(c, EvaluateOperationalAuthority(c, vector)) THEN "decided"
    ELSE "raised"

Decide ==
    LET vector == Observed(world, cut)
        decided == DecidedStage(cut, vector)
    IN  /\ stage = "decide"
        /\ stage' = decided
        /\ result' = IF decided = "decided"
                     THEN EvaluateOperationalAuthority(cut, vector) ELSE NONE
        /\ UNCHANGED <<world, cut, honest, moved, edits>>

(* The evaluation has no side effect: a decision is forgotten, and the next *)
(* one captures everything again.                                           *)
Restart ==
    /\ stage \in {"decided", "refused", "raised"}
    /\ stage' = "idle" /\ cut' = <<>> /\ result' = NONE
    /\ honest' = TRUE /\ moved' = FALSE
    /\ UNCHANGED <<world, edits>>

(***************************************************************************)
(* The stores move: a plan revision is published, a task or an assignment  *)
(* is revised, sources, registry, principals, rates and policy change, the *)
(* owner approves, the worker speaks again, work is booked.                *)
(***************************************************************************)
MoreConsents(w) ==
    IF Drivers \subseteq w.principals
    THEN { Append(w.consent, s) : s \in {"FREELY_GIVEN", "WITHDRAWN"} } ELSE {}

Edited(w, c) ==
    { [w EXCEPT !.plan = @ + 1], [w EXCEPT !.handoff = @ + 1],
      [w EXCEPT !.tasks = @ + 1], [w EXCEPT !.assignments = @ + 1],
      [w EXCEPT !.days = [d \in DOMAIN @ |-> @[d] + 1]],
      [w EXCEPT !.sources = @ + 1], [w EXCEPT !.registry = @ + 1],
      [w EXCEPT !.principals = RegisteredWorkers], [w EXCEPT !.policy = "NOT_ISSUED"],
      [w EXCEPT !.threshold = Max({0, @ - 1})], [w EXCEPT !.markers = MarkerUniverse],
      [w EXCEPT !.hard[1] = "APPLICABLE"], [w EXCEPT !.hard[1] = "UNKNOWN"],
      [w EXCEPT !.delta = [i \in DOMAIN @ |-> P_COST_THRESHOLD + 1]] }
    \cup { [w EXCEPT !.consent = l] : l \in MoreConsents(w) }
    \cup { [w EXCEPT !.ledger = @ \cup {l}] : l \in LedgerItems }
    \cup (IF "markers" \in DOMAIN c
          THEN {[w EXCEPT !.approvals = @ \cup { r.scope : r \in OwnerRequirements(c) }]}
          ELSE {})

WorldMoves ==
    /\ edits < MaxEdits
    /\ \E w \in Edited(world, cut) \ {world} : world' = w
    /\ edits' = edits + 1
    /\ moved' = (stage # "idle")
    /\ UNCHANGED <<stage, cut, result, honest>>

AuthorityInit ==
    /\ world \in Worlds
    /\ stage = "idle" /\ cut = <<>> /\ result = NONE
    /\ honest = TRUE /\ moved = FALSE
    /\ edits = 0

AuthorityNext ==
    \/ Begin \/ CaptureSupport \/ CaptureCost
    \/ \E f \in WorkingTimeFaults, b \in Bool : CaptureWorkingTime(f, b)
    \/ CaptureMarkers({})
    \/ \E s \in MarkerUniverse : CaptureMarkers({s})
    \/ \E place \in 0..1 : SelectEvidence(place)
    \/ Decide \/ Restart
    \/ WorldMoves

AuthoritySpec == AuthorityInit /\ [][AuthorityNext]_decisionVars

(***************************************************************************)
(* Properties.                                                             *)
(***************************************************************************)
Outcome(n) == result'.assessments[n].outcome
DecidesHere == stage = "decide" /\ stage' = "decided" /\ result'.assessments # <<>>

(* The time a worker has to work on a day, unit by unit, before and after. *)
Covers(p, t) == p.start <= t /\ t < p.end
BookedAt(worker, t) == \E l \in world.ledger : l.worker = worker /\ Covers(l, t)
WorksBefore(worker, t) ==
    \/ BookedAt(worker, t)
    \/ \E p \in Schedule : worker \in p.workers /\ Covers(p, t)
WorksAfter(c, worker, t) ==
    \/ BookedAt(worker, t)
    \/ \E p \in Schedule :
          p.commitment \notin c.modified /\ worker \in p.workers /\ Covers(p, t)
    \/ \E p \in c.proposed : p.worker = worker /\ Covers(p, t)

UnitsOf(d) == (d * DayLength)..((d + 1) * DayLength - 1)
Excess(units) == Max({0, Cardinality(units) - world.threshold})

GainsNoOvertime(c) ==
    \A worker \in RegisteredWorkers, d \in UNION { TouchedDays(c, w) : w \in RegisteredWorkers } :
       Excess({ t \in UnitsOf(d) : WorksAfter(c, worker, t) })
          <= Excess({ t \in UnitsOf(d) : WorksBefore(worker, t) })

Approved(scope) == scope \in world.approvals

MarkedScope(s) == Scope("OWNER_APPROVAL_REQUIRED", <<s.kind, s.id>>, s.job, s.day, NONE)

(* A candidate is released (ACT) only when it may be, judged from the       *)
(* stores at the moment of the decision and not from the captured evidence: *)
(* it is a feasible, complete, same-day repair on the current plan and its  *)
(* preconditions, under an issued policy and no hard boundary; it gives no  *)
(* worker overtime on any day counting booked, planned and new work; it     *)
(* costs at most 50 more or the owner approved every slice of it; every     *)
(* marked subject it touches is approved; and the use of a private vehicle  *)
(* is approved and freely given as the worker's last word.                  *)
ActIsAuthorised ==
    [][DecidesHere =>
       \A n \in Positions :
          LET c == CandidateSeq[n]
              new == { p \in c.proposed : p.commitment \in c.modified }
          IN  Outcome(n) = "ACT" =>
                /\ cut.input = InputOf(world) /\ cut.support = SupportOf(world)
                /\ cut.days = world.days /\ cut.root = RootOf(world)
                /\ c.verdict = "FEASIBLE" /\ c.residual = {}
                /\ \A p \in new : p.day = IncidentDay
                /\ world.hard[n] = "NOT_APPLICABLE"
                /\ world.policy = "ISSUED_SUPPORTED"
                /\ GainsNoOvertime(c)
                /\ \/ world.delta[c.id] <= P_COST_THRESHOLD
                   \/ \A s \in AffectedSlices(c) :
                         \E a \in world.approvals :
                            a.job = s.job /\ a.day = s.day /\ a.worker = NONE
                /\ \A s \in world.markers \cap DeriveMarkerSubjects(c) :
                      Approved(MarkedScope(s))
                /\ \A p \in { q \in new : q.vehicle \in PrivateVehicles } :
                      /\ Approved(Scope("PRIVATE_VEHICLE_USE", <<"VEHICLE", p.vehicle>>, p.job, p.day,
                                        p.worker))
                      /\ world.consent # <<>> /\ Last(world.consent) = "FREELY_GIVEN"
      ]_decisionVars

(* The gates, the outcome cascade, the policy relation, the override and    *)
(* the disposition of a candidate are computed separately and checked       *)
(* against each other when the assessment is built: they never contradict,  *)
(* so the evaluation of a cut that binds never raises.                      *)
EvaluationNeverRaises == stage # "raised"

(* Evidence that was captured completely, in a world that did not move, is  *)
(* never refused: the many checks of the cut ask for nothing that a correct *)
(* adaptor could not provide.  The one exception is a worker registry that  *)
(* was revised after the root was provisioned: the root keeps its revision  *)
(* and the support binds to the registry's, so no cut binds any more.       *)
HonestEvidenceAccepted ==
    stage = "refused" => moved \/ ~honest \/ world.registry # RootRegistry

(* Owner approvals answer only what the owner is asked: had the owner       *)
(* approved everything asked, a candidate that is blocked or abstained from *)
(* (for want of facts, currency or the worker's own consent) would still be.*)
ApprovalNeverCures ==
    [][DecidesHere =>
       LET all == [cut EXCEPT !.owner = [r \in DOMAIN @ |-> r.scope]]
           vector == [Observed(world, cut) EXCEPT !.OWNER_APPROVAL_SELECTIONS = all.owner]
       IN  \A n \in Positions :
              Outcome(n) \in {"BLOCK", "ABSTAIN"}
              /\ OwnerSelections(world, cut) = cut.owner =>
                 AuthorityOutcome(n, all, vector) = Outcome(n)
      ]_decisionVars
=============================================================================
