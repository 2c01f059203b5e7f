------------------------ MODULE OperationalAuthority ------------------------
(***************************************************************************)
(* The operational authority of M3-E1 (authority/operational_authority.py):*)
(* what each M3-C candidate still needs (markers, cost, private vehicle),  *)
(* which evidence was selected for it, whether that evidence is current,   *)
(* and the outcome ACT / ASK / ABSTAIN / BLOCK.  Pure operators over an    *)
(* evidence cut; AuthorityDecision runs them against a moving world.       *)
(*                                                                         *)
(* There is one company and one AUTH-0 root, so the bindings of a record   *)
(* to its root and company hold by construction; what can differ between   *)
(* two captures (plan revision, registry, sources, rates, policy) is kept. *)
(***************************************************************************)
EXTENDS WorkingTime

CONSTANTS
    PrivateVehicles,    \* vehicles whose technical evidence says PRIVATE
    IncidentDay         \* business date of the evaluation input

(* M3-C finds a candidate feasible when every constraint of its trace      *)
(* passes.                                                                 *)
ASSUME VerdictAssumption ==
    \A n \in DOMAIN CandidateSeq :
       LET c == CandidateSeq[n]
       IN  /\ \A t \in c.trace : t.status \in {"PASS", "FAIL", "UNKNOWN"}
           /\ c.verdict = "FEASIBLE" <=> \A t \in c.trace : t.status = "PASS"

P_COST_THRESHOLD == 50

Gates == {"P_ASSIGN", "P_WINDOW_01", "P_COST", "P_OVERTIME", "P_VEHICLE",
          "P_TAG", "P_HORIZON", "P_SEARCH", "PARTIAL_REPAIR"}

(***************************************************************************)
(* Approval markers.                                                       *)
(***************************************************************************)
MarkerSubject(kind, id, p) ==
    [kind |-> kind, id |-> id, job |-> p.job, task |-> p.task, day |-> p.day]

VehicleSubjects(p) ==
    IF p.vehicle = NONE THEN {} ELSE {MarkerSubject("VEHICLE", p.vehicle, p)}

SubjectsForBaseline(p) ==
    {MarkerSubject("COMMITMENT", p.commitment, p)}
    \cup { MarkerSubject("WORKER", w, p) : w \in p.workers }
    \cup VehicleSubjects(p)

SubjectsForProposed(p) ==
    {MarkerSubject("COMMITMENT", p.commitment, p), MarkerSubject("WORKER", p.worker, p)}
    \cup VehicleSubjects(p)

(* The subjects of a candidate: both placements of what it modifies, and   *)
(* the baseline placement of what it knocks on.                            *)
DeriveMarkerSubjects(c) ==
    (UNION { SubjectsForBaseline(BaselineOf(k)) \cup SubjectsForProposed(ProposedOf(c, k)) :
              k \in c.modified })
    \cup UNION { SubjectsForBaseline(BaselineOf(k)) : k \in c.induced \ c.modified }

MarkerUniverse == UNION { DeriveMarkerSubjects(CandidateSeq[n]) : n \in Positions }

(* One subject's coverage: marker evidence for it, all from one source     *)
(* head and each complete when the coverage claims to be.                  *)
CoverageOK(subject, coverage) ==
    /\ \A e \in coverage.evidence : e.subject = subject
    /\ coverage.complete =>
          /\ \A e \in coverage.evidence : e.complete
          /\ Cardinality({ e.head : e \in coverage.evidence }) = 1

CoverageStatus(coverage) ==
    IF ~coverage.complete \/ coverage.evidence = {} THEN "UNKNOWN"
    ELSE IF \E e \in coverage.evidence : e.marked THEN "MARKED" ELSE "NO_MARKER"

(* The marker cut covers exactly the subjects of all candidates.           *)
MarkerSupportCutOK(coverages) ==
    /\ DOMAIN coverages = MarkerUniverse
    /\ \A s \in MarkerUniverse : CoverageOK(s, coverages[s])

(* Scopes of evidence: an owner's approval of a marked subject, of a cost  *)
(* decision, or of a private vehicle, and the worker's consent to the last.*)
Scope(kind, subject, job, day, worker) ==
    [kind |-> kind, subject |-> subject, job |-> job, day |-> day, worker |-> worker]

MarkerScope(e) ==
    Scope("OWNER_APPROVAL_REQUIRED", <<e.subject.kind, e.subject.id>>,
          e.subject.job, e.subject.day, e.worker)

AssessApprovalTags(c, coverages) ==
    LET subjects == DeriveMarkerSubjects(c)
        complete == \A s \in subjects :
                       coverages[s].complete /\ CoverageStatus(coverages[s]) # "UNKNOWN"
        scopes == { MarkerScope(e) : e \in { f \in UNION { coverages[s].evidence :
                                                             s \in subjects } : f.marked } }
    IN  [scopes |-> scopes,
         applicability |-> IF ~complete THEN "UNKNOWN"
                           ELSE IF scopes # {} THEN "APPLICABLE" ELSE "NOT_APPLICABLE"]

(***************************************************************************)
(* Internal labour cost.                                                   *)
(***************************************************************************)
AffectedSlices(c) ==
    UNION { { [job |-> BaselineOf(k).job, day |-> BaselineOf(k).day],
              [job |-> ProposedOf(c, k).job, day |-> ProposedOf(c, k).day] } :
              k \in c.modified }

(* An approval subject of P-COST is content-addressed: it names the        *)
(* consequence, the policy and the plan revision it was derived from.      *)
PCostSubject(c, slice, cost, policy) ==
    [candidate |-> c.id, delta |-> cost.delta[c.id], support |-> cost,
     policy |-> policy, slice |-> slice, slices |-> AffectedSlices(c)]

PCostScope(s) == Scope("OWNER_APPROVAL_REQUIRED", <<"P_COST", s>>, s.slice.job, s.slice.day, NONE)

(* assess_candidate_cost: the delta is INCOMPLETE, inside the envelope     *)
(* (the threshold included) or a soft exception with one subject per slice,*)
(* which an unsupported policy cannot provide.                             *)
AssessCost(c, cost, policy) ==
    LET delta == cost.delta[c.id]
        above == delta # NONE /\ delta > P_COST_THRESHOLD
        supported == policy = "ISSUED_SUPPORTED"
    IN  [applicability |-> IF delta = NONE THEN "UNKNOWN"
                           ELSE IF above THEN "SOFT_EXCEPTION" ELSE "WITHIN_ENVELOPE",
         subjects |-> IF above /\ supported
                      THEN { PCostSubject(c, s, cost, policy) : s \in AffectedSlices(c) }
                      ELSE {},
         state |-> IF ~above THEN "NOT_APPLICABLE"
                   ELSE IF supported THEN "COMPLETE" ELSE "UNAVAILABLE_UNSUPPORTED_POLICY"]

(***************************************************************************)
(* Requirements and the evidence selected for them.                        *)
(***************************************************************************)
Requirement(gate, c, scope, principal) ==
    [gate |-> gate, candidate |-> c.id, scope |-> scope, principal |-> principal]

PrivateVehicleScopes(c) ==
    { Scope("PRIVATE_VEHICLE_USE", <<"VEHICLE", p.vehicle>>, p.job, p.day, p.worker) :
        p \in { q \in c.proposed : q.vehicle \in PrivateVehicles } }

(* Cost is assessed for feasible candidates only.                          *)
Costed(c) == c.verdict = "FEASIBLE"
CostOf(c, cut) == AssessCost(c, cut.cost, cut.policy)

DeriveAuthorityRequirements(c, cut) ==
    { Requirement("P_COST", c, PCostScope(s), "OWNER") :
        s \in IF Costed(c) THEN CostOf(c, cut).subjects ELSE {} }
        \cup { Requirement("P_TAG", c, s, "OWNER") :
                 s \in AssessApprovalTags(c, cut.markers).scopes }
        \cup { Requirement("P_VEHICLE", c, s, p) :
                 s \in PrivateVehicleScopes(c), p \in {"OWNER", "WORKER"} }

Requirements(cut) ==
    UNION { DeriveAuthorityRequirements(CandidateSeq[n], cut) : n \in Positions }

OwnerRequirements(cut) == { r \in Requirements(cut) : r.principal = "OWNER" }
WorkerRequirements(cut) == { r \in Requirements(cut) : r.principal = "WORKER" }

(* A selection is absent, or names recorded evidence of exactly the scope  *)
(* the requirement asks for.                                               *)
OwnerSelectionsOK(cut) ==
    /\ DOMAIN cut.owner = OwnerRequirements(cut)
    /\ \A r \in DOMAIN cut.owner : cut.owner[r] \in {NONE, r.scope}

(* A consent is one record of a worker's lineage for the scope: its status,*)
(* its place and whether it was the head; the worker is a trusted principal*)
ConsentSelectionsOK(cut) ==
    /\ DOMAIN cut.consent = WorkerRequirements(cut)
    /\ \A r \in DOMAIN cut.consent :
          cut.consent[r] # NONE =>
             /\ cut.consent[r].scope = r.scope
             /\ cut.consent[r].sequence > 0
             /\ r.scope.worker \in cut.root.principals

AffirmativeCurrentConsent(s) ==
    s # NONE /\ s.head /\ s.status = "FREELY_GIVEN"

(* Two records with different fields as one.                               *)
Joined(r, s) ==
    [f \in DOMAIN r \cup DOMAIN s |-> IF f \in DOMAIN r THEN r[f] ELSE s[f]]

(***************************************************************************)
(* The evidence cut.                                                       *)
(***************************************************************************)
(* The evaluation input, the feasibility support, the M3-C result, the     *)
(* cost support and the M3-D result were all captured on one plan revision *)
(* and one registry, and each names the one it was computed from.          *)
ChainBound(cut) ==
    /\ cut.input.plan = cut.plan
    /\ cut.support.plan = cut.plan
    /\ cut.support.registry = cut.root.registry
    /\ cut.m3 = [input |-> cut.input, support |-> cut.support]
    /\ cut.cost.plan = cut.plan
    /\ cut.cost.m3 = cut.m3

PlanDayHeadsBound(cut) == DOMAIN cut.days = cut.input.days

WorkersInRegistry(cut) ==
    /\ \A r \in cut.working.rules : r.worker \in cut.root.workers
    /\ \A i \in cut.working.items : i.worker \in cut.root.workers
    /\ \A s \in DOMAIN cut.markers :
          \A e \in cut.markers[s].evidence : e.worker \in cut.root.workers \cup {NONE}
    /\ cut.root.principals \subseteq cut.root.workers

(* A complete overtime universe compares exactly the workers involved.     *)
OvertimeWorkersComplete(cut) ==
    \A n \in Positions :
       cut.working.evidence[n].complete =>
          { m.worker : m \in cut.working.evidence[n].comparisons } =
             (UNION { BaselineOf(k).workers : k \in CandidateSeq[n].modified })
             \cup { p.worker : p \in CandidateSeq[n].proposed }

EvidenceBound(cut) ==
    /\ PlanDayHeadsBound(cut)
    /\ ChainBound(cut)
    /\ WorkingTimeEvidenceCutOK(cut.working)
    /\ WorkersInRegistry(cut)
    /\ ValidAgainstCandidates(cut.working, cut.plan)
    /\ OvertimeWorkersComplete(cut)
    /\ MarkerSupportCutOK(cut.markers)
    /\ OwnerSelectionsOK(cut)
    /\ ConsentSelectionsOK(cut)

(***************************************************************************)
(* Decision-time currentness: the subjects the cut depends on, each with   *)
(* the value the cut expects.  The observed side is read from the stores.  *)
(***************************************************************************)
PlanObservations(cut) ==
    [COMPANY_PLAN_REVISION_HEAD |-> cut.plan,
     CURRENT_PLANNING_SCOPE |-> cut.plan,
     M1_HANDOFF_PRECONDITIONS |-> cut.input.handoff,
     M2_JOB_TASK_PRECONDITIONS |-> cut.input.tasks,
     M2_ASSIGNMENT_PRECONDITIONS |-> cut.input.assignments,
     PLAN_DAY_PRECONDITIONS |-> cut.days,
     EVALUATION_INPUT_BINDING |-> cut.input]

SupportObservations(cut) ==
    [C0_SUPPORT_SELECTED_SOURCES |-> cut.support,
     M3_C_RECOMPUTATION |-> cut.m3,
     M5_M3_D_CHAIN |-> cut.cost,
     AUTH_0_BINDING |-> cut.root,
     POLICY_BINDING |-> cut.policy]

(* Every requirement with the selection made for it; the function is empty *)
(* (an expected absence) when there is no such requirement.                *)
SelectionObservations(cut) ==
    [OWNER_APPROVAL_SELECTIONS |-> cut.owner,
     WORKER_CONSENT_HEADS |-> cut.consent]

(* The heads under the working-time and marker cuts.                       *)
HeadObservations(cut) ==
    [WORKING_TIME_RULE_HEAD |-> { r.threshold : r \in cut.working.rules },
     WORKING_TIME_C0_HEAD |-> cut.working.selections["C0_PLAN_SCHEDULE"].head,
     WORKING_TIME_LEDGER_HEAD |-> cut.working.selections["WORKING_TIME_LEDGER"].head,
     AUTHORITY_MARKER_HEADS |->
        UNION { { e.head : e \in cut.markers[s].evidence } : s \in DOMAIN cut.markers }]

DerivedObservations(cut) ==
    [HARD_BOUNDARIES |-> cut.hard,
     AUTHORITY_REQUIREMENTS |-> Requirements(cut)]

RequiredObservations(cut) ==
    Joined(Joined(PlanObservations(cut), SupportObservations(cut)),
           Joined(SelectionObservations(cut),
                  Joined(HeadObservations(cut), DerivedObservations(cut))))

(* A source class that was selected as UNKNOWN has no head to expect.      *)
UnknownSubjects(cut) ==
    LET Subject == [C0_PLAN_SCHEDULE |-> "WORKING_TIME_C0_HEAD",
                    WORKING_TIME_LEDGER |-> "WORKING_TIME_LEDGER_HEAD"]
    IN  { Subject[k] : k \in { l \in SourceKinds :
                                 cut.working.selections[l].state = "UNKNOWN" } }

(* An observation matches when it is known and exactly the same; ACT needs *)
(* every required subject to be observed and to match.                     *)
ExactMatch(known, expected, observed) == known /\ expected = observed

CurrentnessVectorOK(cut, vector) == DOMAIN vector = DOMAIN RequiredObservations(cut)

AllCurrent(cut, vector) ==
    LET required == RequiredObservations(cut)
        unknown == UnknownSubjects(cut)
    IN  \A s \in DOMAIN required : ExactMatch(s \notin unknown, required[s], vector[s])

(***************************************************************************)
(* Gates and outcome of one candidate.                                     *)
(***************************************************************************)
WindowFailures(c) ==
    { t \in c.trace : t.status = "FAIL" /\ t.reason = "CUSTOMER_WINDOW_VIOLATION" }
OrdinaryFailures(c) ==
    { t \in c.trace : t.status = "FAIL" /\ t.reason # "CUSTOMER_WINDOW_VIOLATION" }
UnknownConstraints(c) == { t \in c.trace : t.status = "UNKNOWN" }

TechnicalFeasibility(c) ==
    IF c.verdict = "FEASIBLE" THEN "FEASIBLE"
    ELSE IF UnknownConstraints(c) # {} THEN "UNKNOWN" ELSE "INFEASIBLE"

FeasibleCandidates == { n \in Positions : CandidateSeq[n].verdict = "FEASIBLE" }

LaterDay(c) == \E p \in c.proposed : p.day # IncidentDay

CandidateRequirements(c, cut) == DeriveAuthorityRequirements(c, cut)

MissingOwner(c, cut) ==
    { r \in CandidateRequirements(c, cut) : r.principal = "OWNER" /\ cut.owner[r] = NONE }

MissingOwnerAt(gate, c, cut) == { r \in MissingOwner(c, cut) : r.gate = gate }

(* Mutant: the owner's approval of the vehicle stands for the consent.      *)
ConsentUnlessApproved(c, cut) ==
    { r \in CandidateRequirements(c, cut) :
        /\ r.principal = "WORKER"
        /\ ~AffirmativeCurrentConsent(cut.consent[r])
        /\ MissingOwnerAt("P_VEHICLE", c, cut) # {} }

NonaffirmativeConsent(c, cut) ==
    { r \in CandidateRequirements(c, cut) :
        r.principal = "WORKER" /\ ~AffirmativeCurrentConsent(cut.consent[r]) }

AssignGate(c, hard) ==
    CASE hard = "APPLICABLE" -> "HARD_BLOCK"
      [] hard = "UNKNOWN" -> "INDETERMINATE"
      [] hard = "NOT_APPLICABLE" /\ OrdinaryFailures(c) # {} -> "HARD_BLOCK"
      [] hard = "NOT_APPLICABLE" /\ OrdinaryFailures(c) = {} ->
            IF UnknownConstraints(c) # {} THEN "INDETERMINATE" ELSE "PASS"

CostGate(c, cut) ==
    IF ~Costed(c) THEN "PASS"
    ELSE IF CostOf(c, cut).applicability = "UNKNOWN" THEN "INDETERMINATE"
    ELSE IF MissingOwnerAt("P_COST", c, cut) # {} THEN "NEEDS_HUMAN_AUTHORITY"
    ELSE "PASS"

OvertimeGate(overtime) ==
    [DOES_NOT_CREATE_OVERTIME |-> "PASS",
     UNKNOWN |-> "INDETERMINATE",
     CREATES_OVERTIME |-> "NEEDS_HUMAN_AUTHORITY"][overtime]

TagGate(c, cut, tag) ==
    IF tag = "UNKNOWN" THEN "INDETERMINATE"
    ELSE IF MissingOwnerAt("P_TAG", c, cut) # {} THEN "NEEDS_HUMAN_AUTHORITY" ELSE "PASS"

VehicleGate(c, cut) ==
    IF NonaffirmativeConsent(c, cut) # {} THEN "INDETERMINATE"
    ELSE IF MissingOwnerAt("P_VEHICLE", c, cut) # {} THEN "NEEDS_HUMAN_AUTHORITY" ELSE "PASS"

SearchGate(exhausted) ==
    IF exhausted /\ FeasibleCandidates = {} THEN "INDETERMINATE" ELSE "PASS"

GateAssessments(n, cut) ==
    LET c == CandidateSeq[n]
    IN  [P_ASSIGN |-> AssignGate(c, cut.hard[n]),
         P_WINDOW_01 |-> IF WindowFailures(c) # {} THEN "NEEDS_HUMAN_AUTHORITY" ELSE "PASS",
         P_COST |-> CostGate(c, cut),
         P_OVERTIME |-> OvertimeGate(OvertimeApplicability(cut.working.evidence[n])),
         P_VEHICLE |-> VehicleGate(c, cut),
         P_TAG |-> TagGate(c, cut, AssessApprovalTags(c, cut.markers).applicability),
         P_HORIZON |-> IF LaterDay(c) THEN "NEEDS_HUMAN_AUTHORITY" ELSE "PASS",
         P_SEARCH |-> SearchGate(cut.exhausted),
         PARTIAL_REPAIR |-> IF c.residual # {} THEN "INDETERMINATE" ELSE "PASS"]

SoftException(c, cut) ==
    \/ Costed(c) /\ CostOf(c, cut).applicability = "SOFT_EXCEPTION"
    \/ AssessApprovalTags(c, cut.markers).applicability = "APPLICABLE"

MissingSoftApproval(c, cut) ==
    \/ \E r \in MissingOwner(c, cut) : r.gate \in {"P_COST", "P_TAG"}
    \/ Costed(c) /\ CostOf(c, cut).state = "UNAVAILABLE_UNSUPPORTED_POLICY"

PolicyRelation(n, cut) ==
    IF cut.hard[n] = "APPLICABLE" THEN "HARD_BLOCK"
    ELSE IF SoftException(CandidateSeq[n], cut) THEN "SOFT_EXCEPTION" ELSE "WITHIN_ENVELOPE"

OverrideStatus(n, cut) ==
    IF PolicyRelation(n, cut) # "SOFT_EXCEPTION" THEN "NOT_REQUIRED"
    ELSE IF MissingSoftApproval(CandidateSeq[n], cut) THEN "PENDING" ELSE "APPROVED"

(* The outcome cascade of _candidate_assessment, in its order: the first   *)
(* condition that holds decides.                                           *)
Undecidable(n, cut, vector) ==
    LET c == CandidateSeq[n]
    IN  \/ UnknownConstraints(c) # {}
        \/ cut.hard[n] = "UNKNOWN"
        \/ ~AllCurrent(cut, vector)
        \/ Costed(c) /\ CostOf(c, cut).applicability = "UNKNOWN"
        \/ OvertimeApplicability(cut.working.evidence[n]) = "UNKNOWN"
        \/ AssessApprovalTags(c, cut.markers).applicability = "UNKNOWN"
        \/ c.residual # {}
        \/ cut.policy # "ISSUED_SUPPORTED"
        \/ NonaffirmativeConsent(c, cut) # {}

(* Mutant: a repair on a later day needs nobody.                            *)
NeedsHumanAnyDay(n, cut) ==
    \/ MissingOwner(CandidateSeq[n], cut) # {}
    \/ OvertimeApplicability(cut.working.evidence[n]) = "CREATES_OVERTIME"

NeedsHuman(n, cut) ==
    LET c == CandidateSeq[n]
    IN  \/ MissingOwner(c, cut) # {}
        \/ OvertimeApplicability(cut.working.evidence[n]) = "CREATES_OVERTIME"
        \/ LaterDay(c)

AuthorityOutcome(n, cut, vector) ==
    LET c == CandidateSeq[n]
    IN  IF cut.hard[n] = "APPLICABLE" \/ OrdinaryFailures(c) # {} THEN "BLOCK"
        ELSE IF WindowFailures(c) # {} THEN "ASK"
        ELSE IF Undecidable(n, cut, vector) THEN "ABSTAIN"
        ELSE IF NeedsHuman(n, cut) THEN "ASK"
        ELSE "ACT"

Disposition(n, cut, vector) ==
    IF cut.hard[n] = "APPLICABLE" THEN "FORBIDDEN"
    ELSE IF AuthorityOutcome(n, cut, vector) # "ACT" THEN "ABSTAIN"
    ELSE IF SoftException(CandidateSeq[n], cut) THEN "EXECUTE_WITH_RECORDED_RISK"
    ELSE "EXECUTE"

CandidateAssessment(n, cut, vector) ==
    [technical |-> TechnicalFeasibility(CandidateSeq[n]),
     outcome |-> AuthorityOutcome(n, cut, vector),
     relation |-> PolicyRelation(n, cut),
     override |-> OverrideStatus(n, cut),
     disposition |-> Disposition(n, cut, vector),
     gates |-> GateAssessments(n, cut)]

(* CandidateAuthorityAssessment.__post_init__: an assessment that fails    *)
(* this raises, and the evaluation of the whole cut with it.               *)
AssessmentOK(a) ==
    /\ a.outcome = "ACT" =>
          /\ a.technical = "FEASIBLE"
          /\ a.disposition \in {"EXECUTE", "EXECUTE_WITH_RECORDED_RISK"}
          /\ \A g \in Gates : a.gates[g] = "PASS"
          /\ IF a.relation = "SOFT_EXCEPTION"
             THEN a.override = "APPROVED" /\ a.disposition = "EXECUTE_WITH_RECORDED_RISK"
             ELSE /\ a.relation = "WITHIN_ENVELOPE"
                  /\ a.override = "NOT_REQUIRED"
                  /\ a.disposition = "EXECUTE"
    /\ a.outcome # "ACT" => a.disposition \in {"ABSTAIN", "FORBIDDEN"}
    /\ (a.relation = "HARD_BLOCK") <=> (a.disposition = "FORBIDDEN")
    /\ a.relation = "HARD_BLOCK" => a.outcome = "BLOCK"

(* evaluate_operational_authority: every candidate in its M3-C order, and  *)
(* a projection of the search when nothing feasible came out of it.        *)
SearchProjection(cut) ==
    IF FeasibleCandidates = {}
       /\ (cut.exhausted \/ cut.search \in {"INSUFFICIENT_CRITICAL_EVIDENCE",
                                            "CREW_REPAIR_UNSUPPORTED"})
    THEN "ABSTAIN" ELSE "NOT_APPLICABLE"

EvaluateOperationalAuthority(cut, vector) ==
    IF cut.search = "NO_REPAIR_REQUIRED"
    THEN [assessments |-> <<>>, projection |-> "NOT_APPLICABLE"]
    ELSE [assessments |-> [n \in Positions |-> CandidateAssessment(n, cut, vector)],
          projection |-> SearchProjection(cut)]

(* M3OperationalAuthorityResult.__post_init__ derives the projection again *)
(* from the assessments.                                                   *)
ResultOK(cut, result) ==
    LET feasible == \E n \in DOMAIN result.assessments :
                       result.assessments[n].technical = "FEASIBLE"
    IN  IF cut.search = "NO_REPAIR_REQUIRED"
        THEN result = [assessments |-> <<>>, projection |-> "NOT_APPLICABLE"]
        ELSE /\ \A n \in DOMAIN result.assessments : AssessmentOK(result.assessments[n])
             /\ result.projection =
                   IF ~feasible /\ (cut.exhausted
                                    \/ cut.search \in {"INSUFFICIENT_CRITICAL_EVIDENCE",
                                                       "CREW_REPAIR_UNSUPPORTED"})
                   THEN "ABSTAIN" ELSE "NOT_APPLICABLE"
=============================================================================
