--------------------------- MODULE OwnerGateProofs ---------------------------
(***************************************************************************)
(* Theorems about the in-memory owner gate, for every number of requests,  *)
(* reports, variants, resets and gates.                                    *)
(*                                                                         *)
(* Every step of the store moves the gate in one of seven ways (GateMove), *)
(* and each way is a step or a stutter of DecisionGate.                    *)
(***************************************************************************)
EXTENDS OwnerGate, TLAPS

Decisions == [gate : Nat, answer : Answers \cup {None}, view : SUBSET Prices]

Visits == [status : {"SITE_VISIT_REQUIRED", "SITE_VISIT_SCHEDULED", "SITE_VISIT_COMPLETED"},
           report : Requests]

States == {"RECEIVED", "SITE_VISIT_REQUIRED", "SITE_VISIT_SCHEDULED", "SITE_VISIT_COMPLETED",
           "READY_FOR_PLANNING", "PLANS_READY_FOR_REVIEW", "PRICING_READY_FOR_REVIEW",
           "PLAN_APPROVED", "PLANS_REJECTED"}

Snapshots ==
    [instance : Nat, assessed : BOOLEAN, state : States, visit : Visits \cup {None},
     request : Requests, plans : SUBSET Variants, pricing : SUBSET Prices,
     gate : GateRecords \cup {None}, decision : Decisions \cup {None}]

Turns ==
    [at : {"idle", "failed", "finish"}]
      \cup [at : {"turn"}, session : Nat]
      \cup [at : {"interrupted"}, gate : Nat, interrupt : Nat]
      \cup [at : {"resumed", "commit"}, gate : Nat, answer : Answers]

TypeOK ==
    /\ s \in Snapshots
    /\ gateCount \in Nat /\ callCount \in Nat
    /\ past \in SUBSET GateRecords
    /\ pc \in [Processes -> Turns]

(* A gate number is given once. *)
Numbered ==
    /\ \A g \in past : g.id <= gateCount
    /\ s.gate # None => s.gate.id <= gateCount /\ \A g \in past : g.id # s.gate.id

(* An answer that is being resumed picks a variant the gate shows, and no  *)
(* decision is stored while the gate can still be answered.                *)
Resumable ==
    GateActive(s) =>
        /\ s.decision = None
        /\ s.gate.status = "RESUMING" /\ s.gate.answer.action = "APPROVE_PLAN" =>
              s.gate.answer.plan \in { r.plan : r \in s.gate.view }

(* Only a resolved gate has a decision. *)
DecisionOfGate == s.decision # None => s.gate # None /\ s.gate.status = "RESOLVED"

Inv == TypeOK /\ Numbered /\ Resumable /\ DecisionOfGate /\ PricesShownOrWithdrawn

-----------------------------------------------------------------------------
(* Types.                                                                  *)

(* What the pricing engine makes of the stored variants are prices. *)
LEMMA ResultsType ==
    ASSUME s \in Snapshots
    PROVE  Results(s) \in SUBSET Prices
  BY DEF Results, Prices, Snapshots

(* The planner's variants of a stored request are variants. *)
LEMMA PlansType ==
    ASSUME s \in Snapshots
    PROVE  PlansOf(s.request) \in SUBSET Variants
  BY DEF Variants, Snapshots

(* A snapshot whose gate is invalidated is a snapshot. *)
LEMMA InvalidatedType ==
    ASSUME s \in Snapshots, s.gate # None
    PROVE  /\ Invalidated(s) \in Snapshots
           /\ Invalidated(s) = [s EXCEPT !.gate = [s.gate EXCEPT !.status = "INVALIDATED"]]
           /\ [s.gate EXCEPT !.status = "INVALIDATED"] \in GateRecords
  BY DEF Invalidated, Snapshots, GateRecords

-----------------------------------------------------------------------------
(* What a step may do to the gate.                                         *)

KeepGate == s'.gate = s.gate /\ past' = past

OpenGate ==
    /\ s.gate = None /\ s'.gate # None
    /\ s'.gate.id = gateCount + 1 /\ s'.gate.status = "PENDING"
    /\ past' = past

BindGate ==
    /\ s.gate # None /\ s.gate.status = "PENDING"
    /\ s'.gate # None
    /\ \E n : s'.gate = [s.gate EXCEPT !.interrupt = n]
    /\ past' = past

ClaimGate ==
    /\ s.gate # None /\ s.gate.status = "PENDING"
    /\ s'.gate # None
    /\ \E x : s'.gate = [s.gate EXCEPT !.status = "RESUMING", !.answer = x]
    /\ past' = past

ResolveGate ==
    /\ s.gate # None /\ s.gate.status = "RESUMING"
    /\ s'.gate = [s.gate EXCEPT !.status = "RESOLVED"]
    /\ past' = past

InvalidateGate ==
    /\ s.gate # None /\ s.gate.status \in {"PENDING", "RESUMING"}
    /\ s'.gate = [s.gate EXCEPT !.status = "INVALIDATED"]
    /\ past' = past

DropGate ==
    /\ s'.gate = None
    /\ past' = IF s.gate = None THEN past ELSE past \cup {s.gate}

GateMove ==
    KeepGate \/ OpenGate \/ BindGate \/ ClaimGate \/ ResolveGate \/ InvalidateGate \/ DropGate

(* What the three promises need of a step: it moves the gate in one of the *)
(* seven ways, and a decision it writes is written as the owner saw it.    *)
Written ==
    s'.decision # s.decision /\ s'.decision # None =>
      /\ s.decision = None
      /\ s'.decision.view = s.pricing /\ ReviewReady(s)
      /\ s'.decision.answer.action = "APPROVE_PLAN" => s'.decision.answer.plan \in s.plans

StepOK == Inv' /\ GateMove /\ Written

(* A step of the store that leaves the gate and the decision alone, and    *)
(* the prices too or without any, keeps every part of the invariant.       *)
LEMMA QuietStep ==
    ASSUME Inv, s' \in Snapshots, pc' \in [Processes -> Turns],
           gateCount' = gateCount, callCount' \in Nat, past' = past,
           s'.gate = s.gate, s'.decision = s.decision,
           s'.pricing = s.pricing \/ s'.pricing = {} \/ ~ GateActive(s)
    PROVE  StepOK
  BY DEF Inv, StepOK, TypeOK, Numbered, Resumable, DecisionOfGate, PricesShownOrWithdrawn,
         GateActive, GateMove, KeepGate, Written

(* A step that invalidates an active gate. *)
LEMMA InvalidatingStep ==
    ASSUME Inv, GateActive(s), s' = Invalidated(s), pc' \in [Processes -> Turns],
           gateCount' = gateCount, callCount' \in Nat, past' = past
    PROVE  StepOK
  <1>1. /\ s.gate # None /\ s.gate \in GateRecords /\ s \in Snapshots
        /\ s.gate.status \in {"PENDING", "RESUMING"}
    BY DEF Inv, TypeOK, GateActive, Snapshots
  <1>2. /\ s' \in Snapshots
        /\ s'.gate = [s.gate EXCEPT !.status = "INVALIDATED"]
        /\ s'.gate \in GateRecords
        /\ s'.decision = s.decision
    BY <1>1, InvalidatedType DEF Snapshots
  <1>3. s'.gate.status = "INVALIDATED" /\ s'.gate.id = s.gate.id /\ s'.gate # None
    BY <1>1, <1>2, NoneAssumption DEF GateRecords
  <1>4. s.decision = None
    BY DEF Inv, Resumable
  <1>5. TypeOK'
    BY <1>2 DEF Inv, TypeOK
  <1>6. Numbered'
    BY <1>1, <1>3 DEF Inv, Numbered
  <1>7. Resumable' /\ DecisionOfGate' /\ PricesShownOrWithdrawn'
    BY <1>2, <1>3, <1>4 DEF Resumable, DecisionOfGate, PricesShownOrWithdrawn, GateActive
  <1>8. GateMove
    BY <1>1, <1>2 DEF GateMove, InvalidateGate
  <1>9. Written
    BY <1>2 DEF Written
  <1> QED
    BY <1>5, <1>6, <1>7, <1>8, <1>9 DEF Inv, StepOK

-----------------------------------------------------------------------------
(* One lemma per group of operations.                                      *)

(* assess_job, create_site_visit, submit_report, validate_stored_report,   *)
(* generate_plans and calculate_plan_quotes leave the gate alone; the last *)
(* is refused while the gate is active, the three before it drop prices.   *)
LEMMA StoreSteps ==
    ASSUME Inv,
           \/ AssessJob \/ CreateSiteVisit \/ ValidateStoredReport \/ GeneratePlans
           \/ CalculatePlanQuotes \/ \E r \in Reports : SubmitReport(r)
    PROVE  StepOK
  <1>1. s \in Snapshots /\ pc' = pc /\ gateCount' = gateCount /\ callCount' = callCount /\ past' = past
    BY DEF Inv, TypeOK, AssessJob, CreateSiteVisit, ValidateStoredReport, GeneratePlans,
           CalculatePlanQuotes, SubmitReport, StoreStep
  <1> DEFINE Quiet == /\ s' \in Snapshots /\ s'.gate = s.gate /\ s'.decision = s.decision
                      /\ s'.pricing = s.pricing \/ s'.pricing = {} \/ ~ GateActive(s)
  <1>2. ASSUME AssessJob PROVE Quiet
    BY <1>1, <1>2 DEF AssessJob, StoreStep, Snapshots, States
  <1>3. ASSUME CreateSiteVisit PROVE Quiet
    <2>1. PICK v \in {"SITE_VISIT_SCHEDULED", "SITE_VISIT_REQUIRED"} :
              s' = [s EXCEPT !.visit = [status |-> v, report |-> None], !.state = v]
      BY <1>3 DEF CreateSiteVisit, StoreStep
    <2>2. [status |-> v, report |-> None] \in Visits /\ v \in States
      BY DEF Visits, Requests, States
    <2> QED
      BY <1>1, <2>1, <2>2 DEF Snapshots
  <1>4. ASSUME NEW r \in Reports, s' = WithReport(s, r)
        PROVE  Quiet
    <2>1. /\ [status |-> "SITE_VISIT_COMPLETED", report |-> r] \in Visits
          /\ r \in Requests /\ AfterVisit(r) \in States
      BY DEF Visits, Requests, AfterVisit, States
    <2> QED
      BY <1>1, <1>4, <2>1 DEF WithReport, Snapshots
  <1>5. ASSUME GeneratePlans PROVE Quiet
    BY <1>1, <1>5, PlansType DEF GeneratePlans, StoreStep, Snapshots, States
  <1>6. ASSUME CalculatePlanQuotes PROVE Quiet
    BY <1>1, <1>6, ResultsType DEF CalculatePlanQuotes, QuotesAllowed, StoreStep, Snapshots, States
  <1>7. ASSUME ValidateStoredReport PROVE Quiet
    <2>1. s.visit.report \in Reports
      BY <1>1, <1>7 DEF ValidateStoredReport, VisitTakesReport, Snapshots, Visits, Requests
    <2> QED
      BY <1>4, <1>7, <2>1 DEF ValidateStoredReport, StoreStep
  <1>8. Quiet
    BY <1>2, <1>3, <1>4, <1>5, <1>6, <1>7 DEF SubmitReport, StoreStep
  <1> QED
    BY <1>1, <1>8, QuietStep DEF Inv, TypeOK

(* reset forgets the gate; the next one has a number of its own. *)
LEMMA ResetStep ==
    ASSUME Inv, Reset
    PROVE  StepOK
  <1>1. s' = NewSnapshot(s.instance + 1) /\ s.instance + 1 \in Nat
    BY DEF Inv, TypeOK, Snapshots, Reset
  <1>2. s' \in Snapshots /\ s'.gate = None /\ s'.decision = None
    BY <1>1 DEF NewSnapshot, Snapshots, States, Requests
  <1>3. TypeOK'
    BY <1>2 DEF Inv, TypeOK, Snapshots, Reset
  <1>4. Numbered'
    BY <1>2 DEF Inv, Numbered, Reset
  <1>5. Resumable' /\ DecisionOfGate' /\ PricesShownOrWithdrawn'
    BY <1>2 DEF Resumable, DecisionOfGate, PricesShownOrWithdrawn, GateActive
  <1>6. GateMove /\ Written
    BY <1>2 DEF GateMove, DropGate, Written, Reset
  <1> QED
    BY <1>3, <1>4, <1>5, <1>6 DEF Inv, StepOK

(* Turns begin, end and fail without touching the store. *)
LEMMA TurnSteps ==
    ASSUME Inv, NEW p \in Processes, StartTurn(p) \/ FinishTurn(p) \/ TurnRaises(p)
    PROVE  StepOK
  <1>1. s' = s /\ gateCount' = gateCount /\ callCount' = callCount /\ past' = past
    BY DEF StartTurn, FinishTurn, TurnRaises
  <1>2. pc' \in [Processes -> Turns]
    BY DEF Inv, TypeOK, Snapshots, StartTurn, FinishTurn, TurnRaises, Idle, Turns
  <1> QED
    BY <1>1, <1>2, QuietStep DEF Inv, TypeOK

(* run gives up: a gate without an interrupt is invalidated. *)
LEMMA UnboundStep ==
    ASSUME Inv, NEW p \in Processes, InvalidateUnboundOwnerGate(p)
    PROVE  StepOK
  <1>1. pc' \in [Processes -> Turns] /\ gateCount' = gateCount /\ callCount' = callCount /\ past' = past
    BY DEF Inv, TypeOK, InvalidateUnboundOwnerGate, Idle, Turns
  <1>2. CASE s' = s
    BY <1>1, <1>2, QuietStep DEF Inv, TypeOK
  <1>3. CASE s' # s
    <2>1. GateActive(s) /\ s' = Invalidated(s)
      BY <1>3 DEF InvalidateUnboundOwnerGate, GateActive
    <2> QED
      BY <1>1, <2>1, InvalidatingStep DEF Inv, TypeOK
  <1> QED
    BY <1>2, <1>3

(* The resumed tool meets the gate it made, or invalidates what it finds. *)
LEMMA ResumeStep ==
    ASSUME Inv, NEW p \in Processes, ResumeTool(p)
    PROVE  StepOK
  <1>1. gateCount' = gateCount /\ callCount' = callCount /\ past' = past
    BY DEF ResumeTool
  <1>2. pc' \in [Processes -> Turns]
    <2>1. pc[p] \in [at : {"resumed", "commit"}, gate : Nat, answer : Answers]
      BY DEF Inv, TypeOK, Turns, ResumeTool
    <2>2. [pc[p] EXCEPT !.at = "commit"] \in Turns /\ Idle \in Turns
      BY <2>1 DEF Turns, Idle
    <2> QED
      BY <2>2 DEF Inv, TypeOK, ResumeTool
  <1>3. CASE s' = s
    BY <1>1, <1>2, <1>3, QuietStep DEF Inv, TypeOK
  <1>4. CASE s' # s
    <2>1. GateActive(s) /\ s' = Invalidated(s)
      BY <1>4 DEF ResumeTool, GateActive
    <2> QED
      BY <1>1, <1>2, <2>1, InvalidatingStep DEF Inv, TypeOK
  <1> QED
    BY <1>3, <1>4

(* request_owner_decision: the gate of the current prices, numbered anew,  *)
(* or the one that exists.                                                 *)
LEMMA PrepareStep ==
    ASSUME Inv, NEW p \in Processes, PrepareOwnerGate(p)
    PROVE  StepOK
  <1>1. past' = past /\ callCount' = callCount + 1 /\ callCount' \in Nat /\ s \in Snapshots
    BY DEF Inv, TypeOK, PrepareOwnerGate
  <1>2. pc[p] \in [at : {"turn"}, session : Nat]
    BY DEF Inv, TypeOK, Turns, PrepareOwnerGate
  <1>3. CASE s.gate = None
    <2> DEFINE g == NewGate(gateCount + 1, pc[p].session)
    <2>1. s' = [s EXCEPT !.gate = g] /\ gateCount' = gateCount + 1 /\ gateCount' \in Nat
      BY <1>3 DEF PrepareOwnerGate, Inv, TypeOK
    <2>2. g \in GateRecords /\ g.id = gateCount + 1 /\ g.status = "PENDING" /\ g.view = s.pricing
      BY <1>1, <1>2, <2>1 DEF NewGate, GateRecords, Snapshots
    <2>3. g # None
      BY <2>2, NoneAssumption
    <2>4. /\ s' \in Snapshots /\ s'.gate = g /\ s'.decision = s.decision /\ s'.pricing = s.pricing
          /\ s.decision = None
      BY <1>1, <2>1, <2>2 DEF Snapshots, PrepareOwnerGate
    <2> HIDE DEF g
    <2>5. pc' \in [Processes -> Turns]
      BY <1>1, <1>3, <2>1 DEF PrepareOwnerGate, Inv, TypeOK, Turns
    <2>6. TypeOK'
      BY <1>1, <2>1, <2>4, <2>5 DEF Inv, TypeOK
    <2>7. Numbered'
      <3>1. \A h \in past : h.id \in Nat /\ h.id <= gateCount
        BY DEF Inv, TypeOK, Numbered, GateRecords
      <3> QED
        BY <1>1, <2>1, <2>2, <2>4, <3>1 DEF Numbered, Inv, TypeOK
    <2>8. Resumable' /\ DecisionOfGate' /\ PricesShownOrWithdrawn'
      BY <2>2, <2>4 DEF Resumable, DecisionOfGate, PricesShownOrWithdrawn, GateActive
    <2>9. GateMove /\ Written
      BY <1>1, <1>3, <2>2, <2>3, <2>4 DEF GateMove, OpenGate, Written
    <2> QED
      BY <2>6, <2>7, <2>8, <2>9 DEF Inv, StepOK
  <1>4. CASE s.gate # None
    <2>1. s.gate.id \in Nat /\ GateActive(s)
      BY <1>1, <1>4 DEF Snapshots, GateRecords, GateActive, PrepareOwnerGate
    <2>2. gateCount' = gateCount
      BY <1>4 DEF PrepareOwnerGate
    <2>3. pc' \in [Processes -> Turns]
      <3>1. /\ [at |-> "interrupted", gate |-> s.gate.id, interrupt |-> callCount + 1] \in Turns
            /\ [at |-> "failed"] \in Turns
        BY <1>1, <2>1 DEF Turns
      <3> QED
        BY <1>4, <3>1 DEF PrepareOwnerGate, Inv, TypeOK
    <2>4. CASE s' = s
      BY <1>1, <2>2, <2>3, <2>4, QuietStep DEF Inv, TypeOK
    <2>5. CASE s' # s
      <3>1. s' = Invalidated(s)
        BY <1>4, <2>5 DEF PrepareOwnerGate
      <3> QED
        BY <1>1, <2>1, <2>2, <2>3, <3>1, InvalidatingStep
    <2> QED
      BY <2>4, <2>5
  <1> QED
    BY <1>3, <1>4

(* bind_owner_interrupt names the interrupt of a pending gate. *)
LEMMA BindStep ==
    ASSUME Inv, NEW p \in Processes, BindOwnerInterrupt(p)
    PROVE  StepOK
  <1>1. gateCount' = gateCount /\ callCount' = callCount /\ past' = past /\ s \in Snapshots
    BY DEF BindOwnerInterrupt, Inv, TypeOK
  <1>2. pc[p].interrupt \in Nat
    BY DEF Inv, TypeOK, Turns, BindOwnerInterrupt
  <1>3. pc' \in [Processes -> Turns]
    <2>1. Idle \in Turns /\ [at |-> "failed"] \in Turns
      BY DEF Turns, Idle
    <2> QED
      BY <2>1 DEF BindOwnerInterrupt, Inv, TypeOK
  <1>4. CASE s' = s
    BY <1>1, <1>3, <1>4, QuietStep DEF Inv, TypeOK
  <1>5. CASE GateActive(s) /\ s' = Invalidated(s)
    BY <1>1, <1>3, <1>5, InvalidatingStep DEF Inv, TypeOK
  <1>6. CASE /\ s.gate # None /\ s.gate.status = "PENDING"
             /\ s' = [s EXCEPT !.gate.interrupt = pc[p].interrupt]
    <2>1. s.gate \in GateRecords
      BY <1>1, <1>6 DEF Snapshots
    <2>2. /\ s'.gate = [s.gate EXCEPT !.interrupt = pc[p].interrupt]
          /\ s'.gate \in GateRecords
          /\ s'.decision = s.decision /\ s'.pricing = s.pricing
          /\ s' \in Snapshots
      BY <1>1, <1>2, <1>6, <2>1 DEF Snapshots, GateRecords
    <2>3. /\ s'.gate.id = s.gate.id /\ s'.gate.view = s.gate.view
          /\ s'.gate.status = s.gate.status /\ s'.gate.answer = s.gate.answer
          /\ s'.gate # None
      BY <2>1, <2>2, NoneAssumption DEF GateRecords
    <2>4. TypeOK'
      BY <1>1, <1>3, <2>2 DEF Inv, TypeOK
    <2>5. Numbered'
      BY <1>1, <1>6, <2>3 DEF Inv, Numbered
    <2>6. Resumable' /\ DecisionOfGate' /\ PricesShownOrWithdrawn'
      BY <1>6, <2>2, <2>3 DEF Inv, Resumable, DecisionOfGate, PricesShownOrWithdrawn, GateActive
    <2>7. GateMove
      BY <1>1, <1>6, <2>2, <2>3 DEF GateMove, BindGate
    <2>8. Written
      BY <2>2 DEF Written
    <2> QED
      BY <2>4, <2>5, <2>6, <2>7, <2>8 DEF Inv, StepOK
  <1> QED
    BY <1>4, <1>5, <1>6 DEF BindOwnerInterrupt, GateActive

(* claim_owner_response takes a pending gate for one answer. *)
LEMMA ClaimStep ==
    ASSUME Inv, NEW p \in Processes, NEW x \in Answers, ClaimOwnerResponse(p, x)
    PROVE  StepOK
  <1>1. gateCount' = gateCount /\ callCount' = callCount /\ past' = past /\ s \in Snapshots
    BY DEF ClaimOwnerResponse, Inv, TypeOK
  <1>2. s.gate # None /\ s.gate.status = "PENDING" /\ s.gate \in GateRecords /\ GateActive(s)
    BY <1>1 DEF ClaimOwnerResponse, Answerable, Snapshots, GateActive
  <1>3. CASE s' = Invalidated(s) /\ pc' = pc
    BY <1>1, <1>2, <1>3, InvalidatingStep DEF Inv, TypeOK
  <1>4. CASE /\ x.action = "APPROVE_PLAN" => x.plan \in { r.plan : r \in s.gate.view }
             /\ s' = [s EXCEPT !.gate.status = "RESUMING", !.gate.answer = x]
             /\ pc' = [pc EXCEPT ![p] = [at |-> "resumed", gate |-> s.gate.id, answer |-> x]]
    <2>1. /\ s'.gate = [s.gate EXCEPT !.status = "RESUMING", !.answer = x]
          /\ s'.gate \in GateRecords
          /\ s'.decision = s.decision /\ s'.pricing = s.pricing
          /\ s' \in Snapshots
      BY <1>1, <1>2, <1>4 DEF Snapshots, GateRecords
    <2>2. /\ s'.gate.id = s.gate.id /\ s'.gate.view = s.gate.view
          /\ s'.gate.status = "RESUMING" /\ s'.gate.answer = x
          /\ s'.gate # None
      BY <1>2, <2>1, NoneAssumption DEF GateRecords
    <2>3. TypeOK'
      <3>1. [at |-> "resumed", gate |-> s.gate.id, answer |-> x] \in Turns
        BY <1>2 DEF Turns, GateRecords
      <3> QED
        BY <1>1, <1>4, <2>1, <3>1 DEF Inv, TypeOK
    <2>4. Numbered'
      BY <1>1, <1>2, <2>2 DEF Inv, Numbered
    <2>5. Resumable' /\ DecisionOfGate' /\ PricesShownOrWithdrawn'
      BY <1>2, <1>4, <2>1, <2>2
         DEF Inv, Resumable, DecisionOfGate, PricesShownOrWithdrawn, GateActive
    <2>6. GateMove
      BY <1>1, <1>2, <2>1, <2>2 DEF GateMove, ClaimGate
    <2>7. Written
      BY <2>1 DEF Written
    <2> QED
      BY <2>3, <2>4, <2>5, <2>6, <2>7 DEF Inv, StepOK
  <1> QED
    BY <1>3, <1>4 DEF ClaimOwnerResponse

(* commit_owner_decision resolves the gate with the answer that claimed it. *)
LEMMA CommitStep ==
    ASSUME Inv, NEW p \in Processes, CommitOwnerDecision(p)
    PROVE  StepOK
  <1>1. gateCount' = gateCount /\ callCount' = callCount /\ past' = past /\ s \in Snapshots
    BY DEF CommitOwnerDecision, Inv, TypeOK
  <1>2. pc' \in [Processes -> Turns]
    <2>1. [at |-> "finish"] \in Turns
      BY DEF Turns
    <2> QED
      BY <2>1 DEF CommitOwnerDecision, Inv, TypeOK
  <1>3. CASE s' = s
    BY <1>1, <1>2, <1>3, QuietStep DEF Inv, TypeOK
  <1>4. CASE GateActive(s) /\ s' = Invalidated(s)
    BY <1>1, <1>2, <1>4, InvalidatingStep DEF Inv, TypeOK
  <1>5. CASE /\ s.gate # None /\ s.gate.status = "RESUMING" /\ GateCurrent(s)
             /\ CommitAllowed(s, pc[p])
             /\ \E st \in {"PLAN_APPROVED", "PLANS_REJECTED"} :
                  s' = [s EXCEPT
                    !.state = st,
                    !.decision = [gate |-> s.gate.id, answer |-> pc[p].answer, view |-> s.gate.view],
                    !.gate.status = "RESOLVED"]
    <2> DEFINE d == [gate |-> s.gate.id, answer |-> s.gate.answer, view |-> s.gate.view]
    <2>1. s.gate \in GateRecords /\ pc[p].answer = s.gate.answer
      BY <1>1, <1>5 DEF Snapshots, CommitAllowed
    <2>2. d \in Decisions
      BY <2>1 DEF Decisions, GateRecords
    <2>3. /\ s'.gate = [s.gate EXCEPT !.status = "RESOLVED"]
          /\ s'.gate \in GateRecords
          /\ s'.decision = d /\ s'.pricing = s.pricing
          /\ s' \in Snapshots
      <3> DEFINE h == [s.gate EXCEPT !.status = "RESOLVED"]
      <3>1. h \in GateRecords
        BY <2>1 DEF GateRecords
      <3>2. PICK st \in States : s' = [s EXCEPT !.state = st, !.decision = d, !.gate = h]
        BY <1>1, <1>5, <2>1 DEF Snapshots, States
      <3> HIDE DEF h, d
      <3> QED
        BY <1>1, <2>2, <3>1, <3>2 DEF Snapshots, h
    <2>4. s'.gate.id = s.gate.id /\ s'.gate.status = "RESOLVED" /\ s'.gate # None
      BY <2>1, <2>3, NoneAssumption DEF GateRecords
    <2>5. TypeOK'
      BY <1>1, <1>2, <2>3 DEF Inv, TypeOK
    <2>6. Numbered'
      BY <1>1, <1>5, <2>4 DEF Inv, Numbered
    <2>7. Resumable' /\ DecisionOfGate' /\ PricesShownOrWithdrawn'
      BY <2>3, <2>4 DEF Resumable, DecisionOfGate, PricesShownOrWithdrawn, GateActive
    <2>8. GateMove
      BY <1>1, <1>5, <2>3 DEF GateMove, ResolveGate
    <2>9. Written
      <3>1. s.decision = None
        BY <1>5 DEF Inv, Resumable, GateActive
      <3>2. d.view = s.pricing /\ ReviewReady(s) /\ { r.plan : r \in s.pricing } = s.plans
        BY <1>5 DEF GateCurrent, ReviewReady
      <3>3. d.answer.action = "APPROVE_PLAN" => d.answer.plan \in { r.plan : r \in s.gate.view }
        BY <1>5 DEF Inv, Resumable, GateActive
      <3>4. s.gate.view = s.pricing
        BY <1>5 DEF GateCurrent
      <3> QED
        BY <2>3, <3>1, <3>2, <3>3, <3>4 DEF Written
    <2> QED
      BY <2>5, <2>6, <2>7, <2>8, <2>9 DEF Inv, StepOK
  <1> QED
    BY <1>3, <1>4, <1>5 DEF CommitOwnerDecision, GateActive

-----------------------------------------------------------------------------
(* The specification.                                                      *)

(* The store begins without a gate. *)
LEMMA InitInv == OwnerInit => Inv
  <1> SUFFICES ASSUME OwnerInit PROVE Inv
    OBVIOUS
  <1>1. s \in Snapshots /\ s.gate = None /\ s.decision = None
    BY DEF OwnerInit, NewSnapshot, Snapshots, States, Requests
  <1>2. pc \in [Processes -> Turns]
    BY DEF OwnerInit, Idle, Turns
  <1> QED
    BY <1>1, <1>2 DEF OwnerInit, Inv, TypeOK, Numbered, Resumable, DecisionOfGate,
                      PricesShownOrWithdrawn, GateActive

(* Every step of the specification keeps the invariant, moves the gate in  *)
(* one of the seven ways and writes a decision only as it was shown.       *)
LEMMA EveryStep == Inv /\ [OwnerNext]_vars => StepOK
  <1> SUFFICES ASSUME Inv, [OwnerNext]_vars PROVE StepOK
    OBVIOUS
  <1>1. CASE UNCHANGED vars
    BY <1>1, QuietStep DEF vars, Inv, TypeOK
  <1>2. CASE \/ AssessJob \/ CreateSiteVisit \/ ValidateStoredReport \/ GeneratePlans
             \/ CalculatePlanQuotes \/ \E r \in Reports : SubmitReport(r)
    BY <1>2, StoreSteps
  <1>3. CASE Reset
    BY <1>3, ResetStep
  <1>4. ASSUME NEW p \in Processes,
               \/ StartTurn(p) \/ PrepareOwnerGate(p) \/ BindOwnerInterrupt(p)
               \/ InvalidateUnboundOwnerGate(p) \/ ResumeTool(p) \/ CommitOwnerDecision(p)
               \/ FinishTurn(p) \/ TurnRaises(p)
               \/ \E x \in Answers : ClaimOwnerResponse(p, x)
        PROVE  StepOK
    BY <1>4, TurnSteps, PrepareStep, BindStep, UnboundStep, ResumeStep, CommitStep, ClaimStep
  <1> QED
    BY <1>1, <1>2, <1>3, <1>4 DEF OwnerNext

(* The inductive invariant holds in every reachable state of the store. *)
LEMMA Invariance == OwnerSpec => []Inv
  <1>1. Inv /\ [OwnerNext]_vars => Inv'
    BY EveryStep DEF StepOK
  <1> QED
    BY <1>1, InitInv, PTL DEF OwnerSpec

(* While an answer is awaited or resumed, the stored prices are the ones   *)
(* the gate shows or none (calculate_plan_quotes, generate_plans,          *)
(* submit_report), for every number of requests, reports and resets.       *)
THEOREM PricesAlwaysShownOrWithdrawn == OwnerSpec => []PricesShownOrWithdrawn
  <1>1. Inv => PricesShownOrWithdrawn
    BY DEF Inv
  <1> QED
    BY <1>1, Invariance, PTL

(* commit_owner_decision writes a decision only over the complete prices   *)
(* the gate showed, for one of its variants, and never over a decision.    *)
THEOREM AlwaysDecidedAsShown == OwnerSpec => DecidedAsShown
  <1>1. Inv /\ [OwnerNext]_vars => Written
    BY EveryStep DEF StepOK
  <1>2. OwnerSpec => [][Written]_s
    BY <1>1, Invariance, PTL DEF OwnerSpec
  <1> QED
    BY <1>2 DEF DecidedAsShown, Written

-----------------------------------------------------------------------------
(* The store implements the abstract gate.                                 *)

(* The sets the mapping builds, read off the gate and the past ones. *)
OpenOf(g) == IF g # None /\ g.status = "PENDING" THEN {g.id} ELSE {}
ResumingOf(g) == IF g # None /\ g.status = "RESUMING" THEN {<<g.id, g.answer>>} ELSE {}
ResolvedOf(g) == IF g # None /\ g.status = "RESOLVED" THEN {<<g.id, g.answer>>} ELSE {}
VoidOf(g) == IF g # None /\ g.status = "INVALIDATED" THEN {g.id} ELSE {}
PastResolved(gs) == { <<g.id, g.answer>> : g \in { h \in gs : h.status = "RESOLVED" } }
PastVoid(gs) == { g.id : g \in { h \in gs : h.status # "RESOLVED" } }

Mapped ==
    /\ OpenIds = OpenOf(s.gate)
    /\ Resuming = ResumingOf(s.gate)
    /\ Resolved = PastResolved(past) \cup ResolvedOf(s.gate)
    /\ VoidIds = PastVoid(past) \cup VoidOf(s.gate)

(* At most one gate is neither decided nor void: the one of the store. *)
LEMMA MappingOfState == Inv => Mapped
  <1> SUFFICES ASSUME Inv PROVE Mapped
    OBVIOUS
  <1>1. \A g \in AllGates : g.status \in {"PENDING", "RESUMING", "RESOLVED", "INVALIDATED"}
    BY DEF Inv, TypeOK, AllGates, GateRecords, Snapshots
  <1>2. s.gate # None => s.gate \notin past
    BY DEF Inv, Numbered
  <1>3. AllGates = IF s.gate = None THEN past ELSE past \cup {s.gate}
    BY DEF AllGates
  <1>4. \A h : Dropped(h) <=> h \in past /\ h.status # "RESOLVED"
    BY DEF Dropped
  <1>5. { h \in AllGates : h.status = "PENDING" /\ ~ Dropped(h) } =
          IF s.gate # None /\ s.gate.status = "PENDING" THEN {s.gate} ELSE {}
    BY <1>2, <1>3, <1>4
  <1>6. { h \in AllGates : h.status = "RESUMING" /\ ~ Dropped(h) } =
          IF s.gate # None /\ s.gate.status = "RESUMING" THEN {s.gate} ELSE {}
    BY <1>2, <1>3, <1>4
  <1>7. { h \in AllGates : h.status = "RESOLVED" } =
          { h \in past : h.status = "RESOLVED" }
            \cup IF s.gate # None /\ s.gate.status = "RESOLVED" THEN {s.gate} ELSE {}
    BY <1>3
  <1>8. { h \in AllGates : h.status = "INVALIDATED" \/ Dropped(h) } =
          { h \in past : h.status # "RESOLVED" }
            \cup IF s.gate # None /\ s.gate.status = "INVALIDATED" THEN {s.gate} ELSE {}
    BY <1>2, <1>3, <1>4
  <1> QED
    BY <1>5, <1>6, <1>7, <1>8
       DEF OpenIds, Resuming, Resolved, VoidIds, Mapped, OpenOf, ResumingOf, ResolvedOf, VoidOf,
           PastResolved, PastVoid

(* A reset adds the gate it drops to the decided or to the void ones. *)
LEMMA PastGrows ==
    ASSUME NEW gs, NEW g
    PROVE  /\ PastResolved(gs \cup {g}) =
                PastResolved(gs) \cup IF g.status = "RESOLVED" THEN {<<g.id, g.answer>>} ELSE {}
           /\ PastVoid(gs \cup {g}) =
                PastVoid(gs) \cup IF g.status # "RESOLVED" THEN {g.id} ELSE {}
  <1>1. { h \in gs \cup {g} : h.status = "RESOLVED" } =
          { h \in gs : h.status = "RESOLVED" } \cup IF g.status = "RESOLVED" THEN {g} ELSE {}
    OBVIOUS
  <1>2. { h \in gs \cup {g} : h.status # "RESOLVED" } =
          { h \in gs : h.status # "RESOLVED" } \cup IF g.status # "RESOLVED" THEN {g} ELSE {}
    OBVIOUS
  <1> QED
    BY <1>1, <1>2 DEF PastResolved, PastVoid

(* No gate of the mapping has a number above the counter. *)
LEMMA KnownNumbers ==
    ASSUME Inv, Mapped
    PROVE  gateCount + 1 \notin Gate!Known
  <1>1. \A g \in past : g.id \in Nat /\ g.id # gateCount + 1
    BY DEF Inv, TypeOK, Numbered, GateRecords
  <1>2. s.gate # None => s.gate.id # gateCount + 1
    BY DEF Inv, TypeOK, Numbered, GateRecords, Snapshots
  <1>3. gateCount + 1 \notin OpenIds \cup VoidIds
    BY <1>1, <1>2 DEF Mapped, OpenOf, VoidOf, PastVoid
  <1>4. \A c \in Resuming \cup Resolved : c[1] # gateCount + 1
    BY <1>1, <1>2 DEF Mapped, ResumingOf, ResolvedOf, PastResolved
  <1> QED
    BY <1>3, <1>4 DEF Gate!Known

GateNext == Gate!Open \/ Gate!Claim \/ Gate!Decide \/ Gate!Void

(* The one gate that is open or claimed becomes void. *)
LEMMA VoidsTheGate ==
    ASSUME OpenIds' = {}, Resuming' = {}, Resolved' = Resolved,
           VoidIds' = VoidIds \cup {s.gate.id},
           \/ OpenIds = {s.gate.id} /\ Resuming = {}
           \/ OpenIds = {} /\ Resuming = {<<s.gate.id, s.gate.answer>>}
    PROVE  Gate!Void
  <1>1. CASE OpenIds = {s.gate.id} /\ Resuming = {}
    <2>1. s.gate.id \in OpenIds \cup { c[1] : c \in Resuming }
      BY <1>1
    <2>2. OpenIds' = OpenIds \ {s.gate.id} /\ Resuming' = { c \in Resuming : c[1] # s.gate.id }
      BY <1>1
    <2> QED
      BY <2>1, <2>2 DEF Gate!Void
  <1>2. CASE OpenIds = {} /\ Resuming = {<<s.gate.id, s.gate.answer>>}
    <2>1. <<s.gate.id, s.gate.answer>>[1] = s.gate.id
      OBVIOUS
    <2>2. s.gate.id \in OpenIds \cup { c[1] : c \in Resuming }
      BY <1>2, <2>1
    <2>3. \A c \in Resuming : c[1] = s.gate.id
      BY <1>2, <2>1
    <2>4. OpenIds' = OpenIds \ {s.gate.id} /\ Resuming' = { c \in Resuming : c[1] # s.gate.id }
      BY <1>2, <2>3
    <2> QED
      BY <2>2, <2>4 DEF Gate!Void
  <1> QED
    BY <1>1, <1>2

(* Each of the seven moves is a step of the abstract gate or none. *)
LEMMA MoveRefines ==
    ASSUME Inv, Inv', Mapped, Mapped', GateMove
    PROVE  GateNext \/ UNCHANGED Gate!gvars
  <1> USE DEF OpenOf, ResumingOf, ResolvedOf, VoidOf
  <1>0. s.gate # None => s.gate \in GateRecords
    BY DEF Inv, TypeOK, Snapshots
  <1>1. CASE KeepGate
    BY <1>1 DEF KeepGate, Mapped, Gate!gvars
  <1>2. CASE OpenGate
    <2>1. /\ OpenIds = {} /\ OpenIds' = {gateCount + 1}
          /\ UNCHANGED <<Resuming, Resolved, VoidIds>>
      BY <1>2 DEF OpenGate, Mapped
    <2>2. Gate!Open
      BY <2>1, KnownNumbers DEF Gate!Open
    <2> QED
      BY <2>2 DEF GateNext
  <1>3. CASE BindGate
    <2>1. s'.gate # None /\ s'.gate.id = s.gate.id /\ s'.gate.status = "PENDING"
      BY <1>0, <1>3 DEF BindGate, GateRecords
    <2> QED
      BY <1>3, <2>1 DEF BindGate, Mapped, Gate!gvars
  <1>4. CASE ClaimGate
    <2>1. s'.gate # None /\ s'.gate.id = s.gate.id /\ s'.gate.status = "RESUMING"
      BY <1>0, <1>4 DEF ClaimGate, GateRecords
    <2>2. /\ OpenIds = {s.gate.id} /\ OpenIds' = {}
          /\ Resuming = {} /\ Resuming' = {<<s.gate.id, s'.gate.answer>>}
          /\ UNCHANGED <<Resolved, VoidIds>>
      BY <1>4, <2>1 DEF ClaimGate, Mapped
    <2>3. Gate!Claim
      BY <2>2 DEF Gate!Claim
    <2> QED
      BY <2>3 DEF GateNext
  <1>5. CASE ResolveGate
    <2>1. /\ s'.gate # None /\ s'.gate.id = s.gate.id /\ s'.gate.status = "RESOLVED"
          /\ s'.gate.answer = s.gate.answer
      BY <1>0, <1>5, NoneAssumption DEF ResolveGate, GateRecords, Inv, TypeOK, Snapshots
    <2> DEFINE c == <<s.gate.id, s.gate.answer>>
    <2>2. /\ Resuming = {c} /\ Resuming' = {}
          /\ Resolved' = Resolved \cup {c}
          /\ UNCHANGED <<OpenIds, VoidIds>>
      BY <1>5, <2>1 DEF ResolveGate, Mapped
    <2>3. Gate!Decide
      BY <2>2 DEF Gate!Decide
    <2> QED
      BY <2>3 DEF GateNext
  <1>6. CASE InvalidateGate
    <2>1. s'.gate # None /\ s'.gate.id = s.gate.id /\ s'.gate.status = "INVALIDATED"
      BY <1>0, <1>6, NoneAssumption DEF InvalidateGate, GateRecords, Inv, TypeOK, Snapshots
    <2>2. /\ OpenIds' = {} /\ Resuming' = {} /\ Resolved' = Resolved
          /\ VoidIds' = VoidIds \cup {s.gate.id}
          /\ \/ OpenIds = {s.gate.id} /\ Resuming = {}
             \/ OpenIds = {} /\ Resuming = {<<s.gate.id, s.gate.answer>>}
      BY <1>6, <2>1 DEF InvalidateGate, Mapped
    <2>3. Gate!Void
      BY <2>2, VoidsTheGate
    <2> QED
      BY <2>3 DEF GateNext
  <1>7. CASE DropGate /\ s.gate = None
    BY <1>7 DEF DropGate, Mapped, Gate!gvars
  <1>8. CASE DropGate /\ s.gate # None
    <2>1. /\ OpenIds' = {} /\ Resuming' = {}
          /\ Resolved' = PastResolved(past) \cup IF s.gate.status = "RESOLVED"
                                                 THEN {<<s.gate.id, s.gate.answer>>} ELSE {}
          /\ VoidIds' = PastVoid(past) \cup IF s.gate.status # "RESOLVED" THEN {s.gate.id} ELSE {}
      BY <1>8, PastGrows DEF DropGate, Mapped
    <2>2. CASE s.gate.status \in {"RESOLVED", "INVALIDATED"}
      BY <1>8, <2>1, <2>2 DEF Mapped, Gate!gvars
    <2>3. CASE s.gate.status \in {"PENDING", "RESUMING"}
      <3>1. /\ Resolved' = Resolved
            /\ VoidIds' = VoidIds \cup {s.gate.id}
            /\ \/ OpenIds = {s.gate.id} /\ Resuming = {}
               \/ OpenIds = {} /\ Resuming = {<<s.gate.id, s.gate.answer>>}
        BY <1>8, <2>1, <2>3 DEF Mapped
      <3>2. Gate!Void
        BY <2>1, <3>1, VoidsTheGate
      <3> QED
        BY <3>2 DEF GateNext
    <2> QED
      BY <1>0, <1>8, <2>2, <2>3 DEF GateRecords
  <1> QED
    BY <1>1, <1>2, <1>3, <1>4, <1>5, <1>6, <1>7, <1>8 DEF GateMove

(* The store of the coordinator implements the abstract gate: a gate is    *)
(* opened once, claimed by one answer at a time, decided with the claimed  *)
(* answer, and its decision is never replaced, whatever reports, resets,   *)
(* failed turns and late resumes are interleaved with it.                  *)
THEOREM OwnerGateAlwaysDecidesOnce == OwnerSpec => OwnerGateDecidesOnce
  <1>1. OwnerInit => Gate!GateInit
    <2> SUFFICES ASSUME OwnerInit PROVE Gate!GateInit
      OBVIOUS
    <2>1. AllGates = {}
      BY DEF OwnerInit, NewSnapshot, AllGates
    <2> QED
      BY <2>1 DEF Gate!GateInit, OpenIds, Resuming, Resolved, VoidIds
  <1>2. Inv /\ Inv' /\ [OwnerNext]_vars => [GateNext]_(Gate!gvars)
    <2>1. Inv' => Mapped'
      BY MappingOfState, PTL
    <2> QED
      BY <2>1, EveryStep, MappingOfState, MoveRefines DEF StepOK
  <1> QED
    BY <1>1, <1>2, Invariance, PTL DEF OwnerSpec, OwnerGateDecidesOnce, Gate!GateSpec, GateNext

=============================================================================
