------------------------------ MODULE OwnerGate ------------------------------
(***************************************************************************)
(* M4/M6: the interactive job from its assessment to the owner's decision  *)
(* (infrastructure/demo_workflow_store.py, agent/orchestrator.py,          *)
(* agent/tools.py, field/site_visit_workflow.py).                          *)
(*                                                                         *)
(* The store replaces its snapshot under one lock: every method of it is   *)
(* one step on the record s.  A process is an HTTP request; between two    *)
(* calls of the store it only holds pc[p].  The tools an agent calls, and  *)
(* the order it calls them in, are free.                                   *)
(*                                                                         *)
(* A site-visit report is a member of Reports; the job request a report    *)
(* leaves is named by the report, the original one by None.  What the      *)
(* planner and the pricing engine make of a job request are the constants  *)
(* PlansOf and StatusOf: both are deterministic.  A pricing result is its  *)
(* plan, the request it was priced from and its status, and the pricing    *)
(* fingerprint is the set of results.  A gate, an interrupt and a workflow *)
(* instance are numbered.                                                  *)
(***************************************************************************)
EXTENDS Naturals, FiniteSets

CONSTANTS
    None,
    Processes,
    Reports,        \* what the field form may report
    Complete,       \* the reports without a validation error
    Risky,          \* the reports that leave a risk unresolved
    Jobs,           \* [gaps |-> the request needs a visit, assessor |-> one is free]
    PlansOf(_),     \* the variants the crew planner finds for a request
    StatusOf(_, _), \* the status of the price of a variant of a request
    MaxInstances,   \* bound on resets
    MaxGates        \* bound on gates and on the calls that raise an interrupt

VARIABLES
    job,        \* the job of the demo
    s,          \* DemoWorkflowSnapshot
    gateCount, callCount,
    past,       \* the gates a reset has dropped
    status,     \* AgentStatus of the last turn
    pc

vars == <<job, s, gateCount, callCount, past, status, pc>>

Idle == [at |-> "idle"]

(* _new_snapshot.                                                          *)
NewSnapshot(n) ==
    [instance |-> n, assessed |-> FALSE, state |-> "RECEIVED", visit |-> None,
     request |-> None, plans |-> {}, pricing |-> {}, gate |-> None, decision |-> None]

Requests == Reports \cup {None}

Variants == UNION { PlansOf(r) : r \in Requests }

Answers == { [action |-> "APPROVE_PLAN", plan |-> x] : x \in Variants }
               \cup {[action |-> "REJECT_ALL", plan |-> None]}

(* PlanPricingResult; the pricing engine gives a price to what it is asked.*)
Prices ==
    { [plan |-> x, request |-> r, status |-> StatusOf(r, x)] : r \in Requests, x \in Variants }

(* PendingOwnerDecisionGate.                                               *)
GateRecords ==
    [id : Nat, instance : Nat, view : SUBSET Prices, session : Nat,
     interrupt : Nat \cup {None},
     status : {"PENDING", "RESUMING", "RESOLVED", "INVALIDATED"},
     answer : Answers \cup {None}]

ASSUME NoneAssumption == None \notin GateRecords

OwnerInit ==
    /\ job \in Jobs
    /\ s = NewSnapshot(1)
    /\ gateCount = 0 /\ callCount = 0 /\ past = {} /\ status = "IDLE"
    /\ pc = [ p \in Processes |-> Idle ]

StoreStep(t) == s' = t /\ UNCHANGED <<job, gateCount, callCount, past, status, pc>>

-----------------------------------------------------------------------------
(* From the request to the priced variants.                                *)

(* assess_job: once; gaps and risks ask for a visit.                       *)
AssessJob ==
    /\ ~ s.assessed
    /\ StoreStep([s EXCEPT !.assessed = TRUE,
                    !.state = IF job.gaps THEN "SITE_VISIT_REQUIRED" ELSE "READY_FOR_PLANNING"])

(* create_site_visit: scheduled when an assessor is free before the start. *)
CreateSiteVisit ==
    /\ s.visit = None
    /\ s.assessed /\ s.state = "SITE_VISIT_REQUIRED"
    /\ LET v == IF job.assessor THEN "SITE_VISIT_SCHEDULED" ELSE "SITE_VISIT_REQUIRED"
       IN  StoreStep([s EXCEPT !.visit = [status |-> v, report |-> None], !.state = v])

(* validate_after_site_visit: complete and without an open risk.           *)
AfterVisit(r) ==
    IF r \in Complete /\ r \notin Risky THEN "READY_FOR_PLANNING" ELSE "SITE_VISIT_COMPLETED"

(* complete_site_visit, and what the store drops with it.                  *)
WithReport(t, r) ==
    [t EXCEPT !.visit = [status |-> "SITE_VISIT_COMPLETED", report |-> r],
              !.request = r, !.state = AfterVisit(r), !.plans = {}, !.pricing = {}]

VisitTakesReport ==
    s.visit # None /\ s.visit.status \in {"SITE_VISIT_SCHEDULED", "SITE_VISIT_COMPLETED"}

SubmitReport(r) == VisitTakesReport /\ StoreStep(WithReport(s, r))

ValidateStoredReport ==
    /\ VisitTakesReport /\ s.visit.report # None
    /\ StoreStep(WithReport(s, s.visit.report))

GeneratePlans ==
    /\ s.state = "READY_FOR_PLANNING"
    /\ StoreStep([s EXCEPT !.plans = PlansOf(s.request), !.pricing = {},
                    !.state = IF PlansOf(s.request) # {} THEN "PLANS_READY_FOR_REVIEW" ELSE @])

GateActive(t) == t.gate # None /\ t.gate.status \in {"PENDING", "RESUMING"}

Results(t) ==
    { [plan |-> x, request |-> t.request, status |-> StatusOf(t.request, x)] : x \in t.plans }

AllComplete(results) == \A r \in results : r.status = "COMPLETE"

QuotesAllowedAnyTime(t) ==
    /\ t.plans # {}
    /\ t.state \in {"PLANS_READY_FOR_REVIEW", "PRICING_READY_FOR_REVIEW"}

QuotesAllowed(t) ==
    /\ ~ GateActive(t)
    /\ t.plans # {}
    /\ t.state \in {"PLANS_READY_FOR_REVIEW", "PRICING_READY_FOR_REVIEW"}

CalculatePlanQuotes ==
    /\ QuotesAllowed(s)
    /\ StoreStep([s EXCEPT !.pricing = Results(s),
                    !.state = IF AllComplete(Results(s))
                              THEN "PRICING_READY_FOR_REVIEW" ELSE "PLANS_READY_FOR_REVIEW"])

(* reset: a new instance with a session of its own; the gate is forgotten. *)
Reset ==
    /\ s.instance < MaxInstances
    /\ past' = IF s.gate = None THEN past ELSE past \cup {s.gate}
    /\ s' = NewSnapshot(s.instance + 1)
    /\ status' = "IDLE"
    /\ UNCHANGED <<job, gateCount, callCount, pc>>

-----------------------------------------------------------------------------
(* The gate.                                                               *)

(* _pricing_gate_data_locked: a complete price for every variant.          *)
ReviewReady(t) ==
    /\ t.state = "PRICING_READY_FOR_REVIEW"
    /\ t.plans # {}
    /\ { r.plan : r \in t.pricing } = t.plans
    /\ AllComplete(t.pricing)

GateOfInstance(t) == t.gate.instance = t.instance

(* _validate_gate_is_current_locked.                                       *)
GateCurrent(t) ==
    /\ t.gate.instance = t.instance
    /\ ReviewReady(t)
    /\ t.gate.view = t.pricing

Invalidated(t) == [t EXCEPT !.gate.status = "INVALIDATED"]

NewGate(n, session) ==
    [id |-> n, instance |-> s.instance, view |-> s.pricing, session |-> session,
     interrupt |-> None, status |-> "PENDING", answer |-> None]

(* build_agent takes the session of the instance it finds.                 *)
StartTurn(p) ==
    /\ pc[p] = Idle
    /\ pc' = [pc EXCEPT ![p] = [at |-> "turn", session |-> s.instance]]
    /\ UNCHANGED <<job, s, gateCount, callCount, past, status>>

(* prepare_owner_gate on an existing gate: kept, or invalidated when it is *)
(* not current or belongs to another session.                              *)
ExistingKept(t, session) == GateCurrent(t) /\ t.gate.session = session

(* request_owner_decision until its interrupt: the gate of the current     *)
(* pricing, made or found again.                                           *)
PrepareOwnerGate(p) ==
    /\ pc[p].at = "turn"
    /\ s.decision = None /\ ReviewReady(s)
    /\ s.gate # None => s.gate.status \in {"PENDING", "RESUMING"}
    /\ callCount < MaxGates
    /\ callCount' = callCount + 1
    /\ LET asked(g) == [at |-> "interrupted", gate |-> g, interrupt |-> callCount + 1]
       IN  IF s.gate = None
           THEN /\ s' = [s EXCEPT !.gate = NewGate(gateCount + 1, pc[p].session)]
                /\ gateCount' = gateCount + 1
                /\ pc' = [pc EXCEPT ![p] = asked(gateCount + 1)]
           ELSE /\ s' = IF ExistingKept(s, pc[p].session) THEN s ELSE Invalidated(s)
                /\ pc' = [pc EXCEPT ![p] = IF ExistingKept(s, pc[p].session)
                                           THEN asked(s.gate.id) ELSE [at |-> "failed"]]
                /\ UNCHANGED gateCount
    /\ UNCHANGED <<job, past, status>>

(* bind_owner_interrupt, in _finish_result.                                *)
BindOwnerInterrupt(p) ==
    /\ pc[p].at = "interrupted"
    /\ LET found == s.gate # None /\ s.gate.id = pc[p].gate /\ s.gate.status = "PENDING"
           kept  == GateCurrent(s) /\ s.gate.interrupt \in {None, pc[p].interrupt}
       IN  /\ s' = IF ~ found THEN s
                   ELSE IF kept THEN [s EXCEPT !.gate.interrupt = pc[p].interrupt]
                   ELSE Invalidated(s)
           /\ pc' = [pc EXCEPT ![p] = IF found /\ kept THEN Idle ELSE [at |-> "failed"]]
           /\ status' = IF found /\ kept THEN "WAITING_FOR_OWNER_REVIEW" ELSE status
    /\ UNCHANGED <<job, gateCount, callCount, past>>

(* run, when its turn raised: a gate nobody can resume is invalidated.     *)
InvalidateUnboundOwnerGate(p) ==
    /\ pc[p].at = "failed"
    /\ s' = IF s.gate # None /\ s.gate.status = "PENDING" /\ s.gate.interrupt = None
            THEN Invalidated(s) ELSE s
    /\ status' = "ERROR"
    /\ pc' = [pc EXCEPT ![p] = Idle]
    /\ UNCHANGED <<job, gateCount, callCount, past>>

-----------------------------------------------------------------------------
(* The answer.                                                             *)

AnswerableAgain(g) == g # None /\ g.status \in {"PENDING", "RESUMING"}

Answerable(g) == g # None /\ g.status = "PENDING"

(* claim_owner_response: what is not current, or of another session, is    *)
(* invalidated; an answer that does not fit the gate changes nothing.      *)
ClaimOwnerResponse(p, x) ==
    /\ pc[p] = Idle
    /\ Answerable(s.gate)
    /\ LET g == s.gate
           current == GateCurrent(s) /\ g.session = s.instance
       IN  IF ~ current
           THEN s' = Invalidated(s) /\ UNCHANGED pc
           ELSE /\ g.interrupt # None
                /\ x.action = "APPROVE_PLAN" => x.plan \in { r.plan : r \in g.view }
                /\ s' = [s EXCEPT !.gate.status = "RESUMING", !.gate.answer = x]
                /\ pc' = [pc EXCEPT ![p] = [at |-> "resumed", gate |-> g.id, answer |-> x]]
    /\ UNCHANGED <<job, gateCount, callCount, past, status>>

(* The fresh agent has the session of the instance it finds, which must be *)
(* the gate's; the tool then runs again from its start and meets the gate  *)
(* it made, or another one.                                                *)
ResumeTool(p) ==
    /\ pc[p].at = "resumed"
    /\ LET g == s.gate
           refused == \/ g = None \/ s.decision # None
                      \/ g.session # s.instance
                      \/ ~ ReviewReady(s) \/ g.status \notin {"PENDING", "RESUMING"}
           kept == ExistingKept(s, s.instance)
       IN  /\ s' = IF refused \/ kept THEN s ELSE Invalidated(s)
           /\ pc' = [pc EXCEPT ![p] = IF ~ refused /\ kept THEN [@ EXCEPT !.at = "commit"] ELSE Idle]
           /\ status' = IF refused \/ ~ kept THEN "ERROR" ELSE status
    /\ UNCHANGED <<job, gateCount, callCount, past>>

CommitAllowed(t, m) ==
    t.gate # None /\ t.gate.id = m.gate /\ t.gate.status = "RESUMING" /\ t.gate.answer = m.answer

(* commit_owner_decision, then the turn ends.                              *)
CommitOwnerDecision(p) ==
    /\ pc[p].at = "commit"
    /\ s' = IF s.gate = None \/ s.gate.id # pc[p].gate \/ s.gate.status # "RESUMING" THEN s
            ELSE IF ~ GateCurrent(s) THEN Invalidated(s)
            ELSE IF ~ CommitAllowed(s, pc[p]) THEN s
            ELSE [s EXCEPT
                    !.state = IF pc[p].answer.action = "APPROVE_PLAN"
                              THEN "PLAN_APPROVED" ELSE "PLANS_REJECTED",
                    !.decision = [gate |-> s.gate.id, answer |-> pc[p].answer, view |-> s.gate.view],
                    !.gate.status = "RESOLVED"]
    /\ pc' = [pc EXCEPT ![p] = [at |-> "finish"]]
    /\ UNCHANGED <<job, gateCount, callCount, past, status>>

(* _finish_result reads the snapshot it finds, which others may have moved.*)
TurnStatus(t) ==
    CASE t.state \in {"PLAN_APPROVED", "PLANS_REJECTED"} /\ t.decision # None -> "OWNER_DECISION_RECORDED"
      [] t.state = "PRICING_READY_FOR_REVIEW" ->
            IF t.gate # None /\ t.gate.status = "PENDING" /\ t.gate.interrupt # None
            THEN "WAITING_FOR_OWNER_REVIEW" ELSE "ERROR"
      [] t.state = "PLANS_READY_FOR_REVIEW" -> "WAITING_FOR_PRICING_INPUT"
      [] \/ t.state = "SITE_VISIT_COMPLETED"
         \/ /\ t.visit # None /\ t.visit.report = None
            /\ t.state \in {"SITE_VISIT_REQUIRED", "SITE_VISIT_SCHEDULED"} -> "WAITING_FOR_FIELD_REPORT"
      [] OTHER -> "IDLE"

FinishTurn(p) ==
    /\ pc[p].at \in {"turn", "finish"}
    /\ status' = TurnStatus(s)
    /\ pc' = [pc EXCEPT ![p] = Idle]
    /\ UNCHANGED <<job, s, gateCount, callCount, past>>

(* The model or the provider raises anywhere in a turn.  A run then        *)
(* invalidates a gate it could not bind; a resume leaves its gate RESUMING.*)
TurnRaises(p) ==
    /\ pc[p].at \in {"turn", "interrupted", "resumed", "commit", "finish"}
    /\ pc' = [pc EXCEPT ![p] = IF @.at \in {"turn", "interrupted"} THEN [at |-> "failed"] ELSE Idle]
    /\ status' = IF pc[p].at \in {"turn", "interrupted"} THEN status ELSE "ERROR"
    /\ UNCHANGED <<job, s, gateCount, callCount, past>>

-----------------------------------------------------------------------------

OwnerNext ==
    \/ AssessJob \/ CreateSiteVisit \/ ValidateStoredReport \/ GeneratePlans
    \/ CalculatePlanQuotes \/ Reset
    \/ \E r \in Reports : SubmitReport(r)
    \/ \E p \in Processes :
          \/ StartTurn(p) \/ PrepareOwnerGate(p) \/ BindOwnerInterrupt(p)
          \/ InvalidateUnboundOwnerGate(p) \/ ResumeTool(p) \/ CommitOwnerDecision(p)
          \/ FinishTurn(p) \/ TurnRaises(p)
          \/ \E x \in Answers : ClaimOwnerResponse(p, x)

OwnerSpec == OwnerInit /\ [][OwnerNext]_vars

-----------------------------------------------------------------------------
(* Properties.                                                             *)

AllGates == past \cup (IF s.gate = None THEN {} ELSE {s.gate})

(* A reset drops a gate without a decision for good: it counts as void.    *)
Dropped(g) == g \in past /\ g.status # "RESOLVED"

OpenIds  == { g.id : g \in { h \in AllGates : h.status = "PENDING" /\ ~ Dropped(h) } }
Resuming == { <<g.id, g.answer>> : g \in { h \in AllGates : h.status = "RESUMING" /\ ~ Dropped(h) } }
Resolved == { <<g.id, g.answer>> : g \in { h \in AllGates : h.status = "RESOLVED" } }
VoidIds  == { g.id : g \in { h \in AllGates : h.status = "INVALIDATED" \/ Dropped(h) } }

Gate == INSTANCE DecisionGate WITH
    open <- OpenIds, claimed <- Resuming, decided <- Resolved, void <- VoidIds

(* The in-memory gate keeps the promise the SQLite gate of M7 keeps, over  *)
(* every interleaving of two requests with resets, reports and failures.   *)
OwnerGateDecidesOnce == Gate!GateSpec

(* The owner decides on what the owner was shown: at the moment the        *)
(* decision is written, the stored prices are the ones the gate showed,    *)
(* all of them complete, and the chosen variant is one of them.            *)
DecidedAsShown ==
    [][ s'.decision # s.decision /\ s'.decision # None =>
          /\ s.decision = None
          /\ s'.decision.view = s.pricing /\ ReviewReady(s)
          /\ s'.decision.answer.action = "APPROVE_PLAN" =>
                s'.decision.answer.plan \in s.plans ]_s

(* While an answer is awaited or being resumed, the prices of the store    *)
(* are the ones the gate shows, or a report has withdrawn them: they are   *)
(* never other prices.                                                     *)
PricesShownOrWithdrawn ==
    GateActive(s) => s.pricing \in {s.gate.view, {}}

=============================================================================
