--------------------------- MODULE M2ReducerProofs ---------------------------
(***************************************************************************)
(* Facts about the reducer for every value of the constants: what each     *)
(* handler returns is well typed, no handler releases a safe hold, and     *)
(* each field of a root moves only by the events that may move it.         *)
(* The theorems of FieldStateProofs and DurableInboxProofs rest on them.   *)
(***************************************************************************)
EXTENDS M2Reducer, TLAPS

-----------------------------------------------------------------------------
(* Updates of a scope, one field of one root at a time. *)

(* Setting one field of a task state to a legal value keeps the type. *)
LEMMA TaskFields ==
    ASSUME NEW w \in TaskState
    PROVE  /\ \A v \in TaskStatus : [w EXCEPT !.status = v] \in TaskState
           /\ \A v \in SUBSET EvidenceItems : [w EXCEPT !.evidence = v] \in TaskState
           /\ \A v \in SUBSET EventIds : [w EXCEPT !.observations = v] \in TaskState
           /\ \A v \in EventIds \cup {None} : [w EXCEPT !.completion = v] \in TaskState
           /\ \A v \in Directives \cup {None} :
                 [w EXCEPT !.holdDirective = v] \in TaskState
           /\ \A v \in BOOLEAN : [w EXCEPT !.blocked = v] \in TaskState
           /\ \A v \in BOOLEAN : [w EXCEPT !.authorized = v] \in TaskState
  BY DEF TaskState

(* The same for a stage state. *)
LEMMA StageFields ==
    ASSUME NEW w \in StageState
    PROVE  /\ \A v \in StageStatus : [w EXCEPT !.status = v] \in StageState
           /\ \A v \in EventIds \cup {None} : [w EXCEPT !.completion = v] \in StageState
  BY DEF StageState

(* The same for a plan day state. *)
LEMMA DayFields ==
    ASSUME NEW w \in DayState
    PROVE  /\ \A v \in PlanDayStatus : [w EXCEPT !.status = v] \in DayState
           /\ \A v \in BOOLEAN : [w EXCEPT !.available = v] \in DayState
           /\ \A v \in BOOLEAN : [w EXCEPT !.closeReported = v] \in DayState
           /\ \A v \in BOOLEAN : [w EXCEPT !.startEscalated = v] \in DayState
           /\ \A v \in PlanReferences : [w EXCEPT !.confirmed = v] \in DayState
           /\ [w EXCEPT !.rev = @ + 1] \in DayState
  BY DEF DayState

(* The same for a directive state. *)
LEMMA DirFields ==
    ASSUME NEW w \in DirState
    PROVE  /\ \A v \in DeliveryEvidence : [w EXCEPT !.delivery = v] \in DirState
           /\ \A v \in EventIds \cup {None} : [w EXCEPT !.acked = v] \in DirState
           /\ \A v \in EventIds \cup {None} : [w EXCEPT !.exception = v] \in DirState
           /\ \A v \in BOOLEAN : [w EXCEPT !.escalated = v] \in DirState
           /\ \A v \in BOOLEAN : [w EXCEPT !.stopInForce = v] \in DirState
           /\ [w EXCEPT !.rev = @ + 1] \in DirState
  BY DEF DirState

(* Replacing the state of one root of a scope keeps the type. *)
LEMMA ScopeRoots ==
    ASSUME NEW R, NEW s \in Scopes(R)
    PROVE  /\ \A t \in Tasks : \A w \in TaskState :
                 [s EXCEPT !.task[t] = w] \in Scopes(R)
           /\ \A g \in Stages : \A w \in StageState :
                 [s EXCEPT !.stage[g] = w] \in Scopes(R)
           /\ \A d \in PlanDays : \A w \in DayState :
                 [s EXCEPT !.day[d] = w] \in Scopes(R)
           /\ \A x \in Directives : \A w \in DirState :
                 [s EXCEPT !.dir[x] = w] \in Scopes(R)
           /\ \A a \in Assignments : \A w \in SUBSET Workers :
                 [s EXCEPT !.released[a] = w] \in Scopes(R)
  BY DEF Scopes

(* The types of the parts of a scope. *)
LEMMA ScopeParts ==
    ASSUME NEW R, NEW s \in Scopes(R)
    PROVE  /\ \A t \in Tasks : s.task[t] \in TaskState
           /\ \A g \in Stages : s.stage[g] \in StageState
           /\ \A d \in PlanDays : s.day[d] \in DayState
           /\ \A x \in Directives : s.dir[x] \in DirState
           /\ \A a \in Assignments : s.released[a] \subseteq Workers
           /\ s.days \subseteq PlanDays /\ s.dirs \subseteq Directives
           /\ s.jobs \subseteq Jobs
           /\ s.receipts = R
  BY DEF Scopes

-----------------------------------------------------------------------------
(* Safe holds.  A scope is guarded when blocked tasks, and only those, are  *)
(* in SAFE_HOLD without a right of execution, and every excepted STOP is in *)
(* force over a held task.                                                  *)

HeldProperly(w) ==
    /\ w.blocked <=> w.status = "SAFE_HOLD"
    /\ w.blocked => ~w.authorized

StopHeld(s, x) ==
    DirDef[x].class = "STOP" /\ s.dir[x].exception # None =>
        /\ s.dir[x].stopInForce
        /\ DirDef[x].task \in Tasks
        /\ s.task[DirDef[x].task].blocked
        /\ s.task[DirDef[x].task].holdDirective # None

Guarded(s) ==
    /\ \A t \in Tasks : HeldProperly(s.task[t])
    /\ \A x \in Directives : StopHeld(s, x)

(* From a guarded scope s to n, no hold is lost and no stage of a held     *)
(* task becomes DONE.                                                      *)
HoldStep(s, n) ==
    Guarded(s) =>
        /\ Guarded(n)
        /\ \A t \in Tasks : s.task[t].blocked => n.task[t].blocked
        /\ \A g \in Stages : n.stage[g].status = "DONE" =>
              s.stage[g].status = "DONE" \/ ~s.task[StageTask[g]].blocked

(* An input that changes nothing loses no hold. *)
LEMMA HoldStepRefl ==
    ASSUME NEW s
    PROVE  HoldStep(s, s)
  BY DEF HoldStep

(* Changes that lose no hold can follow one another. *)
LEMMA HoldStepTrans ==
    ASSUME NEW s, NEW m, NEW n, HoldStep(s, m), HoldStep(m, n)
    PROVE  HoldStep(s, n)
  BY DefinitionAssumption DEF HoldStep, DefinitionAssumption

(* A step that changes one task, within its hold. *)
TaskStep(v, w) ==
    HeldProperly(v) => /\ HeldProperly(w)
                       /\ v.blocked => w.blocked
                       /\ v.holdDirective # None => w.holdDirective # None

(* A task that keeps its hold, or never had one, loses none. *)
LEMMA TaskHoldStep ==
    ASSUME NEW R, NEW s \in Scopes(R), NEW t \in Tasks, NEW w \in TaskState,
           TaskStep(s.task[t], w)
    PROVE  HoldStep(s, [s EXCEPT !.task[t] = w])
  <1> DEFINE n == [s EXCEPT !.task[t] = w]
  <1>1. /\ n.task = [s.task EXCEPT ![t] = w]
        /\ n.stage = s.stage /\ n.dir = s.dir
    BY DEF Scopes
  <1>2. s.task \in [Tasks -> TaskState]
    BY DEF Scopes
  <1> HIDE DEF n
  <1>3. \A u \in Tasks : TaskStep(s.task[u], n.task[u])
    BY <1>1, <1>2 DEF TaskStep
  <1> SUFFICES HoldStep(s, n)
    BY DEF n
  <1> QED
    BY <1>1, <1>3 DEF HoldStep, Guarded, TaskStep, StopHeld

(* A stage may change unless it becomes DONE under a held task. *)
LEMMA StageHoldStep ==
    ASSUME NEW R, NEW s \in Scopes(R), NEW g \in Stages, NEW w \in StageState,
           w.status # "DONE" \/ ~s.task[StageTask[g]].blocked
    PROVE  HoldStep(s, [s EXCEPT !.stage[g] = w])
  BY DEF Scopes, HoldStep, Guarded, StopHeld

(* Plan days have no part in holds. *)
LEMMA DayHoldStep ==
    ASSUME NEW R, NEW s \in Scopes(R), NEW d, NEW w
    PROVE  HoldStep(s, [s EXCEPT !.day[d] = w])
  BY DEF Scopes, HoldStep, Guarded, StopHeld

(* Releasing a member of an assignment has no part in holds. *)
LEMMA ReleasedHoldStep ==
    ASSUME NEW R, NEW s \in Scopes(R), NEW a, NEW w
    PROVE  HoldStep(s, [s EXCEPT !.released[a] = w])
  BY DEF Scopes, HoldStep, Guarded, StopHeld

(* A directive changes without touching its STOP, or it is not a STOP. *)
LEMMA DirHoldStep ==
    ASSUME NEW R, NEW s \in Scopes(R), NEW x \in Directives, NEW w \in DirState,
           \/ DirDef[x].class # "STOP"
           \/ w.exception = s.dir[x].exception /\ w.stopInForce = s.dir[x].stopInForce
    PROVE  HoldStep(s, [s EXCEPT !.dir[x] = w])
  BY DEF Scopes, HoldStep, Guarded, StopHeld

-----------------------------------------------------------------------------
(* What a handler may return for the scope s with the ledger R. *)

GoodResult(R, s, r) ==
    /\ r.scope \in Scopes(R)
    /\ HoldStep(s, r.scope)
    /\ r.outcome \in ReductionOutcome
    /\ r.effects \in Seq(EffectType)
    /\ r.missing \subseteq Requirements

(* A handler result built from legal parts. *)
LEMMA ResultGood ==
    ASSUME NEW R, NEW s \in Scopes(R), NEW n \in Scopes(R), HoldStep(s, n),
           NEW o \in ReductionOutcome, NEW f \in Seq(EffectType),
           NEW m \in SUBSET Requirements, NEW reasons
    PROVE  GoodResult(R, s, Result(n, o, f, m, reasons))
  BY DEF GoodResult, Result

(* A rejection is legal: it leaves the scope alone. *)
LEMMA RefuseGood ==
    ASSUME NEW R, NEW s \in Scopes(R), NEW code
    PROVE  GoodResult(R, s, Refuse(s, code))
  <1>1. <<>> \in Seq(EffectType) /\ "REJECTED" \in ReductionOutcome
    BY DEF ReductionOutcome
  <1> QED
    BY <1>1, HoldStepRefl, ResultGood DEF Refuse

(* So is a no-op. *)
LEMMA NoopGood ==
    ASSUME NEW R, NEW s \in Scopes(R)
    PROVE  GoodResult(R, s, Noop(s))
  <1>1. <<>> \in Seq(EffectType) /\ "NOOP" \in ReductionOutcome
    BY DEF ReductionOutcome
  <1> QED
    BY <1>1, HoldStepRefl, ResultGood DEF Noop

(* An applied result is legal if its scope and effects are. *)
LEMMA AppliedGood ==
    ASSUME NEW R, NEW s \in Scopes(R), NEW n \in Scopes(R), HoldStep(s, n),
           NEW f \in Seq(EffectType)
    PROVE  GoodResult(R, s, Applied(n, f))
  BY ResultGood DEF Applied, ReductionOutcome

(* The references of an event that the reducer does not reject. *)
LEMMA CheckedReferences ==
    ASSUME NEW R, NEW s \in Scopes(R), NEW e \in FieldEvents,
           ReferenceErrors(s, e) = {}
    PROVE  /\ e.actor \in Workers
           /\ e.day \in PlanDays \cup {None} /\ e.task \in Tasks \cup {None}
           /\ e.asg \in Assignments \cup {None} /\ e.dir \in Directives \cup {None}
           /\ e.stage # None => e.stage \in Stages /\ StageTask[e.stage] = e.task
           /\ e.type \in PlanEvents \cup TaskAssignmentEvents => e.day \in PlanDays
           /\ e.type \in TaskAssignmentEvents =>
                 e.task \in Tasks /\ e.asg \in Assignments
           /\ e.type = "STAGE_COMPLETION_REPORTED" => e.stage \in Stages
           /\ e.type \in {"WORKER_ACKNOWLEDGED", "WORKER_ACTION_EXCEPTION"} =>
                 e.dir \in Directives
           /\ e.attachments \subseteq EvidenceItems
           /\ e.id \in EventIds
  <1>1. /\ e.day \in PlanDays \cup {None} /\ e.task \in Tasks \cup {None}
        /\ e.asg \in Assignments \cup {None} /\ e.dir \in Directives \cup {None}
        /\ e.stage \in Stages \cup {None}
    BY InputAssumption DEF InputAssumption
  <1>2. e.attachments \subseteq EvidenceItems /\ e.id \in EventIds
    BY DEF EvidenceItems, EventIds
  <1>3. /\ e.actor \in Workers
        /\ e.stage # None => StageTask[e.stage] = e.task
        /\ RequiredReferenceErrors(e) = {}
    BY DEF ReferenceErrors, When
  <1>4. /\ e.type \in PlanEvents \cup TaskAssignmentEvents => e.day # None
        /\ e.type \in TaskAssignmentEvents => e.task # None /\ e.asg # None
        /\ e.type = "STAGE_COMPLETION_REPORTED" => e.stage # None
        /\ e.type \in {"WORKER_ACKNOWLEDGED", "WORKER_ACTION_EXCEPTION"} => e.dir # None
    BY <1>3 DEF RequiredReferenceErrors, When
  <1> QED
    BY <1>1, <1>2, <1>3, <1>4

-----------------------------------------------------------------------------
(* Updates that several handlers share. *)

(* Type and holds of a scope in which one task state was replaced. *)
LEMMA TaskUpdate ==
    ASSUME NEW R, NEW s \in Scopes(R), NEW t \in Tasks, NEW w \in TaskState,
           TaskStep(s.task[t], w)
    PROVE  /\ [s EXCEPT !.task[t] = w] \in Scopes(R)
           /\ HoldStep(s, [s EXCEPT !.task[t] = w])
  BY ScopeRoots, TaskHoldStep

(* A task that is not held may take any ordinary status. *)
LEMMA TaskStatusUpdate ==
    ASSUME NEW R, NEW s \in Scopes(R), NEW t \in Tasks,
           NEW v \in TaskStatus \ {"SAFE_HOLD"}, ~SafeHoldActive(s, t)
    PROVE  /\ [s EXCEPT !.task[t].status = v] \in Scopes(R)
           /\ HoldStep(s, [s EXCEPT !.task[t].status = v])
  <1> DEFINE w == [s.task[t] EXCEPT !.status = v]
  <1>1. s.task[t] \in TaskState /\ w \in TaskState
    BY ScopeParts, TaskFields
  <1>2. TaskStep(s.task[t], w)
    BY <1>1 DEF TaskStep, HeldProperly, SafeHoldActive, TaskState
  <1>3. [s EXCEPT !.task[t].status = v] = [s EXCEPT !.task[t] = w]
    BY DEF Scopes
  <1> QED
    BY <1>1, <1>2, <1>3, TaskUpdate

(* _ordinary_task_status: a held task keeps its status. *)
LEMMA OrdinaryStatusUpdate ==
    ASSUME NEW R, NEW s \in Scopes(R), NEW t \in Tasks,
           NEW v \in TaskStatus \ {"SAFE_HOLD"}
    PROVE  /\ OrdinaryTaskStatus(s, t, v) \in Scopes(R)
           /\ HoldStep(s, OrdinaryTaskStatus(s, t, v))
  BY TaskStatusUpdate, HoldStepRefl DEF OrdinaryTaskStatus

(* _merge_evidence returns evidence items. *)
LEMMA MergeEvidenceType ==
    ASSUME NEW v \in SUBSET EvidenceItems, NEW w \in SUBSET EvidenceItems
    PROVE  MergeEvidence(v, w) \in SUBSET EvidenceItems
  BY DEF MergeEvidence

(* Adding evidence to a task touches neither its status nor its hold. *)
LEMMA EvidenceUpdate ==
    ASSUME NEW R, NEW s \in Scopes(R), NEW t \in Tasks,
           NEW v \in SUBSET EvidenceItems
    PROVE  LET n == [s EXCEPT !.task[t].evidence = MergeEvidence(@, v)]
           IN  /\ n \in Scopes(R) /\ HoldStep(s, n)
               /\ \A u \in Tasks : /\ n.task[u].status = s.task[u].status
                                   /\ n.task[u].blocked = s.task[u].blocked
               /\ n.stage = s.stage
  <1> DEFINE n == [s EXCEPT !.task[t].evidence = MergeEvidence(@, v)]
             w == [s.task[t] EXCEPT !.evidence = MergeEvidence(@, v)]
  <1>1. s.task[t] \in TaskState /\ s.task[t].evidence \in SUBSET EvidenceItems
    BY ScopeParts DEF TaskState
  <1>2. w \in TaskState
    BY <1>1, MergeEvidenceType, TaskFields
  <1>3. TaskStep(s.task[t], w)
    BY <1>1 DEF TaskStep, HeldProperly, TaskState
  <1>4. n = [s EXCEPT !.task[t] = w]
    BY DEF Scopes
  <1>5. n \in Scopes(R) /\ HoldStep(s, n)
    BY <1>2, <1>3, <1>4, TaskUpdate
  <1>6. /\ \A u \in Tasks : n.task[u].status = s.task[u].status
                            /\ n.task[u].blocked = s.task[u].blocked
        /\ n.stage = s.stage
    BY <1>1 DEF Scopes, TaskState
  <1> QED
    BY <1>5, <1>6

(* A dispute of a task that is not held. *)
LEMMA DisputeUpdate ==
    ASSUME NEW R, NEW s \in Scopes(R), NEW e, e.task \in Tasks,
           e.stage # None => e.stage \in Stages, ~SafeHoldActive(s, e.task)
    PROVE  DisputeTarget(s, e) \in Scopes(R) /\ HoldStep(s, DisputeTarget(s, e))
  <1> DEFINE m == [s EXCEPT !.task[e.task].status = "DISPUTED"]
             w == [m.stage[e.stage] EXCEPT !.status = "DISPUTED"]
  <1>1. m \in Scopes(R) /\ HoldStep(s, m)
    BY TaskStatusUpdate DEF TaskStatus
  <1>2. CASE e.stage = None
    <2>1. DisputeTarget(s, e) = m
      BY <1>2 DEF DisputeTarget, Scopes
    <2> QED
      BY <1>1, <2>1
  <1>3. CASE e.stage # None
    <2> HIDE DEF m
    <2>1. e.stage \in Stages /\ m.stage[e.stage] \in StageState
      BY <1>1, <1>3, ScopeParts
    <2>2. w \in StageState /\ w.status = "DISPUTED"
      BY <2>1, StageFields DEF StageState, StageStatus
    <2> HIDE DEF w
    <2>3. /\ [m EXCEPT !.stage[e.stage] = w] \in Scopes(R)
          /\ HoldStep(m, [m EXCEPT !.stage[e.stage] = w])
      BY <1>1, <2>1, <2>2, ScopeRoots, StageHoldStep
    <2>4. DisputeTarget(s, e) = [m EXCEPT !.stage[e.stage] = w]
      BY <1>3, <2>1 DEF DisputeTarget, Scopes, m, w
    <2> QED
      BY <1>1, <2>3, <2>4, HoldStepTrans
  <1> QED
    BY <1>2, <1>3

(* A day changes one field, whatever its value: holds are not concerned. *)
LEMMA DayUpdate ==
    ASSUME NEW R, NEW s \in Scopes(R), NEW d \in PlanDays, NEW w \in DayState
    PROVE  /\ [s EXCEPT !.day[d] = w] \in Scopes(R)
           /\ HoldStep(s, [s EXCEPT !.day[d] = w])
  BY ScopeRoots, DayHoldStep

-----------------------------------------------------------------------------
(* The handlers of events. *)

(* _day_plan_activated *)
LEMMA DayPlanActivatedGood ==
    ASSUME NEW R, NEW s \in Scopes(R), NEW e, e.day \in PlanDays
    PROVE  GoodResult(R, s, DayPlanActivated(s, e))
  <1> DEFINE w == [s.day[e.day] EXCEPT !.status = "ACTIVE"]
  <1>1. w \in DayState
    BY ScopeParts, DayFields DEF PlanDayStatus
  <1>2. [s EXCEPT !.day[e.day].status = "ACTIVE"] = [s EXCEPT !.day[e.day] = w]
    BY DEF Scopes
  <1>3. <<"PLAN_DAY_ACTIVATED">> \in Seq(EffectType)
    BY DEF EffectType
  <1>4. GoodResult(R, s, Applied([s EXCEPT !.day[e.day].status = "ACTIVE"],
                                 <<"PLAN_DAY_ACTIVATED">>))
    BY <1>1, <1>2, <1>3, DayUpdate, AppliedGood
  <1> QED
    BY <1>4, RefuseGood, NoopGood DEF DayPlanActivated

(* _start_delay *)
LEMMA StartDelayReportedGood ==
    ASSUME NEW R, NEW s \in Scopes(R), NEW e
    PROVE  GoodResult(R, s, StartDelayReported(s, e))
  <1>1. <<"START_DELAY_RECORDED", "DELAY_IMPACT_EVALUATION_REQUIRED">> \in Seq(EffectType)
    BY DEF EffectType
  <1> QED
    BY <1>1, RefuseGood, ResultGood, HoldStepRefl DEF StartDelayReported, ReductionOutcome

(* _start_exception *)
LEMMA StartExceptionReportedGood ==
    ASSUME NEW R, NEW s \in Scopes(R), NEW e
    PROVE  GoodResult(R, s, StartExceptionReported(s, e))
  <1>1. /\ <<"START_EXCEPTION_RECORDED", "TRANSPORT_RESOLUTION_REQUIRED">> \in Seq(EffectType)
        /\ <<"START_EXCEPTION_RECORDED">> \in Seq(EffectType)
    BY DEF EffectType
  <1> QED
    BY <1>1, RefuseGood, ResultGood, HoldStepRefl
       DEF StartExceptionReported, ReductionOutcome

(* _unavailable_today *)
LEMMA UnavailableTodayReportedGood ==
    ASSUME NEW R, NEW s \in Scopes(R), NEW e, e.day \in PlanDays
    PROVE  GoodResult(R, s, UnavailableTodayReported(s, e))
  <1> DEFINE w == [s.day[e.day] EXCEPT !.available = FALSE]
  <1>1. w \in DayState
    BY ScopeParts, DayFields
  <1>2. [s EXCEPT !.day[e.day].available = FALSE] = [s EXCEPT !.day[e.day] = w]
    BY DEF Scopes
  <1>3. <<"UNAVAILABLE_TODAY_RECORDED">> \in Seq(EffectType)
    BY DEF EffectType
  <1> QED
    BY <1>1, <1>2, <1>3, DayUpdate, AppliedGood, RefuseGood DEF UnavailableTodayReported

(* _day_close *)
LEMMA DayCloseReportedGood ==
    ASSUME NEW R, NEW s \in Scopes(R), NEW e, e.day \in PlanDays
    PROVE  GoodResult(R, s, DayCloseReported(s, e))
  <1> DEFINE w == [s.day[e.day] EXCEPT !.closeReported = TRUE]
  <1>1. w \in DayState
    BY ScopeParts, DayFields
  <1>2. [s EXCEPT !.day[e.day].closeReported = TRUE] = [s EXCEPT !.day[e.day] = w]
    BY DEF Scopes
  <1>3. <<"END_OF_DAY_POLICY_REQUESTED">> \in Seq(EffectType)
    BY DEF EffectType
  <1> QED
    BY <1>1, <1>2, <1>3, DayUpdate, AppliedGood, NoopGood DEF DayCloseReported

(* _work_start_blocked *)
LEMMA WorkStartBlockedGood ==
    ASSUME NEW R, NEW s \in Scopes(R), NEW e, e.task \in Tasks
    PROVE  GoodResult(R, s, WorkStartBlocked(s, e))
  <1>1. <<"TASK_HELD">> \in Seq(EffectType) /\ "BLOCKED" \in TaskStatus \ {"SAFE_HOLD"}
    BY DEF EffectType, TaskStatus
  <1> QED
    BY <1>1, OrdinaryStatusUpdate, AppliedGood, RefuseGood DEF WorkStartBlocked

(* _resource_missing *)
LEMMA ResourceMissingReportedGood ==
    ASSUME NEW R, NEW s \in Scopes(R), NEW e, e.task \in Tasks \cup {None}
    PROVE  GoodResult(R, s, ResourceMissingReported(s, e))
  <1>1. /\ <<"RESOURCE_MISSING_RECORDED">> \in Seq(EffectType)
        /\ <<"RESOURCE_MISSING_RECORDED", "TASK_HELD">> \in Seq(EffectType)
        /\ "BLOCKED" \in TaskStatus \ {"SAFE_HOLD"}
    BY DEF EffectType, TaskStatus
  <1> QED
    BY <1>1, OrdinaryStatusUpdate, AppliedGood, RefuseGood, HoldStepRefl
       DEF ResourceMissingReported

(* _scope_fact *)
LEMMA ScopeFactReportedGood ==
    ASSUME NEW R, NEW s \in Scopes(R), NEW e
    PROVE  GoodResult(R, s, ScopeFactReported(s, e))
  <1>1. <<"NON_BINDING_SCOPE_CHANGE_RECORDED">> \in Seq(EffectType)
    BY DEF EffectType
  <1> QED
    BY <1>1, RefuseGood, ResultGood, HoldStepRefl DEF ScopeFactReported, ReductionOutcome

(* The observation is added whatever the status, the status follows.  *)
LEMMA ObservedUpdate ==
    ASSUME NEW R, NEW s \in Scopes(R), NEW t \in Tasks,
           NEW v \in SUBSET EvidenceItems, NEW id \in EventIds
    PROVE  LET n == [s EXCEPT !.task[t].evidence = MergeEvidence(@, v),
                              !.task[t].observations = @ \cup {id}]
           IN  /\ n \in Scopes(R) /\ HoldStep(s, n)
               /\ SafeHoldActive(n, t) <=> SafeHoldActive(s, t)
  <1> DEFINE m == [s EXCEPT !.task[t].evidence = MergeEvidence(@, v)]
             w == [m.task[t] EXCEPT !.observations = @ \cup {id}]
             n == [m EXCEPT !.task[t] = w]
  <1>1. /\ m \in Scopes(R) /\ HoldStep(s, m) /\ m.stage = s.stage
        /\ \A u \in Tasks : /\ m.task[u].status = s.task[u].status
                            /\ m.task[u].blocked = s.task[u].blocked
    BY EvidenceUpdate, ZenonT(60)
  <1>2. [s EXCEPT !.task[t].evidence = MergeEvidence(@, v),
                  !.task[t].observations = @ \cup {id}] = n
    BY DEF Scopes
  <1> HIDE DEF m
  <1>3. m.task[t] \in TaskState /\ m.task[t].observations \in SUBSET EventIds
    BY <1>1, ScopeParts DEF TaskState
  <1>4. w \in TaskState
    BY <1>3, TaskFields
  <1>5. TaskStep(m.task[t], w)
    BY <1>3 DEF TaskStep, HeldProperly, TaskState
  <1>6. n \in Scopes(R) /\ HoldStep(m, n)
    BY <1>1, <1>4, <1>5, TaskUpdate
  <1>7. /\ n.stage = m.stage /\ n.task[t].status = m.task[t].status
        /\ n.task[t].blocked = m.task[t].blocked
    BY <1>1, <1>3 DEF Scopes, TaskState
  <1>8. SafeHoldActive(n, t) <=> SafeHoldActive(s, t)
    BY <1>1, <1>7 DEF SafeHoldActive
  <1>9. HoldStep(s, n)
    BY <1>1, <1>6, HoldStepTrans
  <1> HIDE DEF n
  <1> QED
    BY <1>2, <1>6, <1>8, <1>9

(* _site_problem: an UNSAFE report creates a hold, the others keep it. *)
LEMMA SiteProblemReportedGood ==
    ASSUME NEW R, NEW s \in Scopes(R), NEW e \in FieldEvents, NEW c,
           e.task \in Tasks, e.stage # None => e.stage \in Stages
    PROVE  GoodResult(R, s, SiteProblemReported(s, e, c))
  <1> DEFINE t == e.task
             observed == [s EXCEPT
                 !.task[t].evidence = MergeEvidence(@, e.attachments),
                 !.task[t].observations = @ \cup {e.id}]
             conflict == ConflictingCompletion(s, e)
             held == SafeHoldActive(s, t)
             holds == c.siteProblem \in {"HOLD", "HOLD_AND_ESCALATE"}
             next == IF held THEN observed
                     ELSE IF conflict THEN DisputeTarget(observed, e)
                     ELSE IF holds THEN OrdinaryTaskStatus(observed, t, "BLOCKED")
                     ELSE observed
             first == IF held /\ conflict THEN <<"HUMAN_REVIEW_REQUIRED">>
                      ELSE IF held THEN <<>>
                      ELSE IF conflict THEN <<"TASK_HELD", "HUMAN_REVIEW_REQUIRED">>
                      ELSE IF holds THEN <<"TASK_HELD">> ELSE <<>>
             last == IF c.siteProblem \in {"ESCALATE", "HOLD_AND_ESCALATE"}
                     THEN <<"SITE_PROBLEM_ESCALATED">>
                     ELSE IF c.siteProblem = "REQUEST_STOP"
                     THEN <<"STOP_DIRECTIVE_REQUESTED">> ELSE <<>>
             effects == <<"SITE_PROBLEM_RECORDED">> \o first \o last
  <1>1. SiteProblemReported(s, e, c) = Applied(next, effects)
    BY DEF SiteProblemReported
  <1>2. effects \in Seq(EffectType)
    <2>1. <<"SITE_PROBLEM_RECORDED">> \in Seq(EffectType)
      BY DEF EffectType
    <2>2. /\ <<"HUMAN_REVIEW_REQUIRED">> \in Seq(EffectType)
          /\ <<"TASK_HELD", "HUMAN_REVIEW_REQUIRED">> \in Seq(EffectType)
          /\ <<"TASK_HELD">> \in Seq(EffectType)
          /\ <<>> \in Seq(EffectType)
      BY DEF EffectType
    <2>3. /\ <<"SITE_PROBLEM_ESCALATED">> \in Seq(EffectType)
          /\ <<"STOP_DIRECTIVE_REQUESTED">> \in Seq(EffectType)
      BY DEF EffectType
    <2>4. first \in Seq(EffectType) /\ last \in Seq(EffectType)
      BY <2>2, <2>3, Zenon
    <2> HIDE DEF first, last
    <2> QED
      BY <2>1, <2>4
  <1>3. e.attachments \in SUBSET EvidenceItems /\ e.id \in EventIds
    BY DEF EvidenceItems, EventIds
  <1>4. /\ observed \in Scopes(R) /\ HoldStep(s, observed)
        /\ SafeHoldActive(observed, t) <=> held
    BY <1>3, ObservedUpdate
  <1> HIDE DEF observed, effects
  <1>5. "BLOCKED" \in TaskStatus \ {"SAFE_HOLD"}
    BY DEF TaskStatus
  <1>6. next \in Scopes(R) /\ HoldStep(observed, next)
    BY <1>4, <1>5, DisputeUpdate, OrdinaryStatusUpdate, HoldStepRefl
  <1> HIDE DEF next
  <1>7. HoldStep(s, next)
    BY <1>4, <1>6, HoldStepTrans
  <1> QED
    BY <1>1, <1>2, <1>6, <1>7, AppliedGood

(* _technical_wait *)
LEMMA TechnicalWaitReportedGood ==
    ASSUME NEW R, NEW s \in Scopes(R), NEW e, e.task \in Tasks, e.asg \in Assignments,
           e.actor \in Workers
    PROVE  GoodResult(R, s, TechnicalWaitReported(s, e))
  <1>1. CASE e.wait /\ ~SafeHoldActive(s, e.task)
    <2> DEFINE m == [s EXCEPT !.task[e.task].status = "WAITING"]
               w == m.released[e.asg] \cup {e.actor}
               n == [m EXCEPT !.released[e.asg] = w]
    <2>1. m \in Scopes(R) /\ HoldStep(s, m)
      BY <1>1, TaskStatusUpdate DEF TaskStatus
    <2>2. [s EXCEPT !.task[e.task].status = "WAITING",
                    !.released[e.asg] = @ \cup {e.actor}] = n
      BY DEF Scopes
    <2>3. <<"TECHNICAL_WAIT_RECORDED">> \in Seq(EffectType)
      BY DEF EffectType
    <2>4. TechnicalWaitReported(s, e) = Applied(n, <<"TECHNICAL_WAIT_RECORDED">>)
      BY <1>1, <2>2 DEF TechnicalWaitReported
    <2> HIDE DEF m
    <2>5. w \in SUBSET Workers
      BY <2>1, ScopeParts
    <2> HIDE DEF w
    <2>6. n \in Scopes(R) /\ HoldStep(m, n)
      BY <2>1, <2>5, ScopeRoots, ReleasedHoldStep
    <2> HIDE DEF n
    <2> QED
      BY <2>1, <2>3, <2>4, <2>6, HoldStepTrans, AppliedGood
  <1>2. CASE ~e.wait \/ SafeHoldActive(s, e.task)
    BY <1>2, RefuseGood DEF TechnicalWaitReported
  <1> QED
    BY <1>1, <1>2

(* A completion that passes the gates finds the task outside a hold. *)
LEMMA CompleteUpdate ==
    ASSUME NEW R, NEW s \in Scopes(R), NEW e \in FieldEvents,
           ~SafeHoldActive(s, e.task), e.task \in Tasks,
           IsStageCompletion(e) => e.stage \in Stages /\ StageTask[e.stage] = e.task
    PROVE  Complete(s, e) \in Scopes(R) /\ HoldStep(s, Complete(s, e))
  <1>0. e.id \in EventIds \cup {None}
    BY DEF EventIds
  <1>1. CASE IsStageCompletion(e)
    <2> DEFINE v == [s.stage[e.stage] EXCEPT !.status = "DONE"]
               w == [v EXCEPT !.completion = e.id]
    <2>1. v \in StageState
      BY <1>1, ScopeParts, StageFields DEF StageStatus
    <2>2. w \in StageState
      BY <1>0, <2>1, StageFields
    <2>3. Complete(s, e) = [s EXCEPT !.stage[e.stage] = w]
      BY <1>1 DEF Complete, Scopes
    <2>4. ~s.task[StageTask[e.stage]].blocked
      BY <1>1 DEF SafeHoldActive
    <2> QED
      BY <1>1, <2>2, <2>3, <2>4, ScopeRoots, StageHoldStep
  <1>2. CASE ~IsStageCompletion(e)
    <2> DEFINE m == [s EXCEPT !.task[e.task].status = "DONE"]
               w == [m.task[e.task] EXCEPT !.completion = e.id]
    <2>1. m \in Scopes(R) /\ HoldStep(s, m)
      BY TaskStatusUpdate DEF TaskStatus
    <2>2. Complete(s, e) = [m EXCEPT !.task[e.task] = w]
      BY <1>2 DEF Complete, Scopes
    <2> HIDE DEF m
    <2>3. m.task[e.task] \in TaskState
      BY <2>1, ScopeParts
    <2>4. w \in TaskState
      BY <1>0, <2>3, TaskFields
    <2>5. TaskStep(m.task[e.task], w)
      BY <2>3 DEF TaskStep, HeldProperly, TaskState
    <2>6. Complete(s, e) \in Scopes(R) /\ HoldStep(m, Complete(s, e))
      BY <2>1, <2>2, <2>4, <2>5, TaskUpdate
    <2> QED
      BY <2>1, <2>6, HoldStepTrans
  <1> QED
    BY <1>1, <1>2

(* A completion past the gates of _completion_reported. *)
LEMMA GatedCompletionGood ==
    ASSUME NEW R, NEW s \in Scopes(R), NEW e,
           e.task \in Tasks, e.stage # None => e.stage \in Stages
    PROVE  GoodResult(R, s, GatedCompletion(s, e))
  <1> DEFINE unsafe == HasUnresolvedUnsafeReport(s, e)
             n == IF unsafe /\ ~SafeHoldActive(s, e.task) THEN DisputeTarget(s, e) ELSE s
             f == IF unsafe THEN <<"COMPLETION_REJECTED", "TASK_HELD",
                                   "HUMAN_REVIEW_REQUIRED">>
                  ELSE <<"COMPLETION_REJECTED">>
  <1>1. n \in Scopes(R) /\ HoldStep(s, n)
    BY DisputeUpdate, HoldStepRefl
  <1>2. f \in Seq(EffectType)
    <2>1. /\ <<"COMPLETION_REJECTED", "TASK_HELD", "HUMAN_REVIEW_REQUIRED">>
                \in Seq(EffectType)
          /\ <<"COMPLETION_REJECTED">> \in Seq(EffectType)
      BY DEF EffectType
    <2> QED
      BY <2>1, Zenon
  <1>3. "REJECTED" \in ReductionOutcome /\ {} \in SUBSET Requirements
    BY DEF ReductionOutcome
  <1>4. GatedCompletion(s, e) = Result(n, "REJECTED", f, {}, CompletionGates(s, e))
    BY DEF GatedCompletion
  <1> HIDE DEF n, f
  <1> QED
    BY <1>1, <1>2, <1>3, <1>4, ResultGood

(* The requirements a completion of a task can miss. *)
LEMMA RequirementsOf ==
    ASSUME NEW t \in Tasks
    PROVE  /\ TaskDef[t].postconditions \subseteq Requirements
           /\ TaskDef[t].evidenceKinds \subseteq Requirements
           /\ "QUANTITY_AND_UNIT" \in Requirements
  BY DEF Requirements

(* _completion_reported: a held task is not completed. *)
LEMMA CompletionReportedGood ==
    ASSUME NEW R, NEW s \in Scopes(R), NEW e \in FieldEvents, e.task \in Tasks,
           e.stage # None => e.stage \in Stages /\ StageTask[e.stage] = e.task,
           IsStageCompletion(e) => e.stage \in Stages
    PROVE  GoodResult(R, s, CompletionReported(s, e))
  <1> DEFINE t == e.task
             refuse(effects, reasons) == Result(s, "REJECTED", effects, {}, reasons)
             rejection == <<"COMPLETION_REJECTED">>
             missing == MissingCompletionRequirements(s, e)
             evidenced == [s EXCEPT !.task[t].evidence = MergeEvidence(@, e.attachments)]
  <1>1. \A f \in Seq(EffectType) : \A reasons : GoodResult(R, s, refuse(f, reasons))
    BY HoldStepRefl, ResultGood DEF ReductionOutcome
  <1>2. /\ rejection \in Seq(EffectType) /\ <<>> \in Seq(EffectType)
        /\ <<"ASSIGNMENT_INVALID">> \o rejection \in Seq(EffectType)
        /\ <<"COMPLETION_ACCEPTED">> \in Seq(EffectType)
    BY DEF EffectType
  <1>3. missing \in SUBSET Requirements
    <2>1. /\ TaskDef[t].postconditions \subseteq Requirements
          /\ TaskDef[t].evidenceKinds \subseteq Requirements
          /\ "QUANTITY_AND_UNIT" \in Requirements
      BY RequirementsOf
    <2> QED
      BY <2>1 DEF MissingCompletionRequirements, When
  <1>4. e.attachments \in SUBSET EvidenceItems
    BY DEF EvidenceItems
  <1>5. /\ evidenced \in Scopes(R) /\ HoldStep(s, evidenced)
        /\ evidenced.task[t].status = s.task[t].status
        /\ evidenced.task[t].blocked = s.task[t].blocked
        /\ evidenced.stage = s.stage
    BY <1>4, EvidenceUpdate
  <1> HIDE DEF evidenced, refuse, rejection, missing
  <1>6. ASSUME CompletionGates(s, e) = {}
        PROVE  GoodResult(R, s, Applied(Complete(evidenced, e), <<"COMPLETION_ACCEPTED">>))
    <2>1. ~SafeHoldActive(s, t)
      BY <1>6 DEF CompletionGates, When
    <2>2. ~SafeHoldActive(evidenced, t)
      BY <1>5, <2>1 DEF SafeHoldActive
    <2>3. /\ Complete(evidenced, e) \in Scopes(R)
          /\ HoldStep(evidenced, Complete(evidenced, e))
      BY <1>5, <2>2, CompleteUpdate, DefinitionAssumption
         DEF DefinitionAssumption
    <2> QED
      BY <1>2, <1>5, <2>3, HoldStepTrans, AppliedGood
  <1>7. GoodResult(R, s, Result(evidenced, "REPORTED", rejection, missing,
                                {"POSTCONDITIONS_NOT_MET"}))
    BY <1>2, <1>3, <1>5, ResultGood DEF ReductionOutcome
  <1>8. GoodResult(R, s, Result(s, "NOOP", <<>>, {}, {"COMPLETION_ALREADY_RECORDED"}))
    BY <1>2, HoldStepRefl, ResultGood DEF ReductionOutcome
  <1>9. GoodResult(R, s, GatedCompletion(s, e))
    BY GatedCompletionGood
  <1> QED
    BY <1>1, <1>2, <1>6, <1>7, <1>8, <1>9
       DEF CompletionReported, refuse, rejection, missing, evidenced

(* _completion_disputed *)
LEMMA CompletionDisputedGood ==
    ASSUME NEW R, NEW s \in Scopes(R), NEW e, e.task \in Tasks,
           e.stage # None => e.stage \in Stages
    PROVE  GoodResult(R, s, CompletionDisputed(s, e))
  <1> DEFINE f == <<"COMPLETION_DISPUTED", "HUMAN_REVIEW_REQUIRED">>
             onStage == [s EXCEPT !.stage[e.stage].status = "DISPUTED"]
             onTask == [s EXCEPT !.task[e.task].status = "DISPUTED"]
  <1>1. f \in Seq(EffectType)
    BY DEF EffectType
  <1>2. CASE ~\E r \in s.receipts : DisputableBy(s, r, e)
    BY <1>2, RefuseGood DEF CompletionDisputed
  <1>3. CASE DisputeSuspended(s, e) /\ \E r \in s.receipts : DisputableBy(s, r, e)
    <2>1. CompletionDisputed(s, e) = Applied(s, f)
      BY <1>3 DEF CompletionDisputed
    <2> QED
      BY <1>1, <2>1, HoldStepRefl, AppliedGood
  <1>4. CASE /\ ~DisputeSuspended(s, e) /\ e.stage # None
             /\ \E r \in s.receipts : DisputableBy(s, r, e)
    <2> DEFINE w == [s.stage[e.stage] EXCEPT !.status = "DISPUTED"]
    <2>1. s.stage[e.stage] \in StageState
      BY <1>4, ScopeParts
    <2>2. w \in StageState /\ w.status = "DISPUTED"
      BY <2>1, StageFields DEF StageStatus, StageState
    <2>3. onStage = [s EXCEPT !.stage[e.stage] = w]
      BY DEF Scopes
    <2> HIDE DEF w
    <2>4. onStage \in Scopes(R) /\ HoldStep(s, onStage)
      BY <1>4, <2>2, <2>3, ScopeRoots, StageHoldStep
    <2>5. CompletionDisputed(s, e) = Applied(onStage, f)
      BY <1>4 DEF CompletionDisputed
    <2> QED
      BY <1>1, <2>4, <2>5, AppliedGood
  <1>5. CASE /\ ~DisputeSuspended(s, e) /\ e.stage = None
             /\ \E r \in s.receipts : DisputableBy(s, r, e)
    <2>1. ~SafeHoldActive(s, e.task)
      BY <1>5 DEF DisputeSuspended, SafeHoldActive
    <2>2. onTask \in Scopes(R) /\ HoldStep(s, onTask)
      BY <2>1, TaskStatusUpdate DEF TaskStatus
    <2>3. CompletionDisputed(s, e) = Applied(onTask, f)
      BY <1>5 DEF CompletionDisputed
    <2> QED
      BY <1>1, <2>2, <2>3, AppliedGood
  <1> QED
    BY <1>2, <1>3, <1>4, <1>5

(* _worker_acknowledged *)
LEMMA WorkerAcknowledgedGood ==
    ASSUME NEW R, NEW s \in Scopes(R), NEW e \in FieldEvents, e.dir \in Directives
    PROVE  GoodResult(R, s, WorkerAcknowledged(s, e))
  <1> DEFINE x == e.dir
             acked == [s EXCEPT !.dir[x].delivery = "ACKED", !.dir[x].acked = e.id]
             v == [s.dir[x] EXCEPT !.delivery = "ACKED"]
             w == [v EXCEPT !.acked = e.id]
             d == DirDef[x].day
             p == DirDef[x].proposed
             confirmed == [acked EXCEPT !.day[d].confirmed = p]
             u == [acked.day[d] EXCEPT !.confirmed = p]
  <1>1. s.dir[x] \in DirState /\ e.id \in EventIds
    BY ScopeParts DEF EventIds
  <1>2. v \in DirState
    BY <1>1, DirFields DEF DeliveryEvidence
  <1>3. w \in DirState
    BY <1>1, <1>2, DirFields
  <1>4. w.exception = s.dir[x].exception /\ w.stopInForce = s.dir[x].stopInForce
    BY <1>1 DEF DirState
  <1>5. acked = [s EXCEPT !.dir[x] = w]
    BY DEF Scopes
  <1>6. acked \in Scopes(R) /\ HoldStep(s, acked)
    <2> HIDE DEF acked, w
    <2> QED
      BY <1>3, <1>4, <1>5, ScopeRoots, DirHoldStep
  <1>7. <<"DIRECTIVE_ACKED">> \in Seq(EffectType)
    BY DEF EffectType
  <1>8. ASSUME ConfirmsPlan(s, x)
        PROVE  confirmed \in Scopes(R) /\ HoldStep(s, confirmed)
    <2>1. d \in PlanDays /\ p \in PlanReferences
      BY <1>8, DefinitionAssumption DEF ConfirmsPlan, PlanReferences, DefinitionAssumption
    <2> HIDE DEF acked
    <2>2. acked.day[d] \in DayState
      BY <1>6, <2>1, ScopeParts
    <2>3. u \in DayState
      BY <2>1, <2>2, DayFields
    <2>4. confirmed = [acked EXCEPT !.day[d] = u]
      BY <1>6 DEF Scopes
    <2> HIDE DEF confirmed, u
    <2>5. confirmed \in Scopes(R) /\ HoldStep(acked, confirmed)
      BY <1>6, <2>1, <2>3, <2>4, DayUpdate
    <2> QED
      BY <1>6, <2>5, HoldStepTrans
  <1> DEFINE n == IF ConfirmsPlan(s, x) THEN confirmed ELSE acked
  <1>9. WorkerAcknowledged(s, e) =
           IF DirectiveWorkerInformed(s, x) THEN Noop(s)
           ELSE Applied(n, <<"DIRECTIVE_ACKED">>)
    BY DEF WorkerAcknowledged
  <1> HIDE DEF acked, confirmed
  <1>10. n \in Scopes(R) /\ HoldStep(s, n)
    BY <1>6, <1>8
  <1> HIDE DEF n
  <1> QED
    BY <1>7, <1>9, <1>10, NoopGood, AppliedGood

(* The exception against a STOP touches two roots: the STOP is in force,   *)
(* and its task is held.                                                   *)
LEMMA StopExceptionUpdate ==
    ASSUME NEW R, NEW s \in Scopes(R), NEW x \in Directives, NEW id \in EventIds,
           DirDef[x].task \in Tasks
    PROVE  LET excepted == [s EXCEPT !.dir[x].exception = id]
               n == SafeHoldTask([excepted EXCEPT !.dir[x].stopInForce = TRUE],
                                 DirDef[x].task, x)
           IN  n \in Scopes(R) /\ HoldStep(s, n)
  <1> DEFINE t == DirDef[x].task
             excepted == [s EXCEPT !.dir[x].exception = id]
             m == [excepted EXCEPT !.dir[x].stopInForce = TRUE]
             v == [[s.dir[x] EXCEPT !.exception = id] EXCEPT !.stopInForce = TRUE]
             w1 == [s.task[t] EXCEPT !.status = "SAFE_HOLD"]
             w2 == [w1 EXCEPT !.holdDirective = x]
             w3 == [w2 EXCEPT !.blocked = TRUE]
             w == [w3 EXCEPT !.authorized = FALSE]
             n == [m EXCEPT !.task[t] = w]
  <1>1. s.dir[x] \in DirState /\ s.task[t] \in TaskState
    BY ScopeParts
  <1>2. [s.dir[x] EXCEPT !.exception = id] \in DirState
    BY <1>1, DirFields
  <1>3. v \in DirState
    BY <1>2, DirFields
  <1>4. m = [s EXCEPT !.dir[x] = v]
    BY DEF Scopes, DirState
  <1>5. w1 \in TaskState
    BY <1>1, TaskFields DEF TaskStatus
  <1>6. w2 \in TaskState
    BY <1>5, TaskFields
  <1>7. w3 \in TaskState
    BY <1>6, TaskFields
  <1>8. w \in TaskState
    BY <1>7, TaskFields
  <1>9. /\ w.status = "SAFE_HOLD" /\ w.blocked = TRUE /\ w.authorized = FALSE
        /\ w.holdDirective = x
    BY <1>1 DEF TaskState
  <1>10. m.task = s.task
    BY DEF Scopes
  <1>11. v.exception = id /\ v.stopInForce = TRUE
    BY <1>1 DEF DirState
  <1> HIDE DEF v, w
  <1>12. m \in Scopes(R)
    <2> HIDE DEF m
    <2> QED
      BY <1>3, <1>4, ScopeRoots
  <1>13. SafeHoldTask(m, t, x) = n
    <2> HIDE DEF m
    <2> QED
      BY <1>10, <1>12, ZenonT(60) DEF SafeHoldTask, Scopes, TaskState, w
  <1>14. /\ n.dir = [s.dir EXCEPT ![x] = v]
         /\ n.task = [s.task EXCEPT ![t] = w]
         /\ n.stage = s.stage
    BY <1>4 DEF Scopes
  <1>15. n \in Scopes(R)
    <2> HIDE DEF m
    <2> QED
      BY <1>8, <1>12, ScopeRoots
  <1> HIDE DEF n, m
  <1>16. HoldStep(s, n)
    <2>1. s.dir \in [Directives -> DirState] /\ s.task \in [Tasks -> TaskState]
      BY DEF Scopes
    <2>2. x # None
      BY DefinitionAssumption DEF DefinitionAssumption
    <2>3. \A u \in Tasks : u # t => n.task[u] = s.task[u]
      BY <1>14, <2>1
    <2>4. n.task[t] = w /\ n.dir[x] = v
      BY <1>14, <2>1
    <2>5. \A y \in Directives : y # x => n.dir[y] = s.dir[y]
      BY <1>14, <2>1
    <2> QED
      BY <1>9, <1>11, <1>14, <2>2, <2>3, <2>4, <2>5
         DEF HoldStep, Guarded, StopHeld, HeldProperly
  <1> QED
    BY <1>13, <1>15, <1>16 DEF m

(* _worker_action_exception: the exception to a STOP holds its task. *)
LEMMA WorkerActionExceptionGood ==
    ASSUME NEW R, NEW s \in Scopes(R), NEW e \in FieldEvents, e.dir \in Directives
    PROVE  GoodResult(R, s, WorkerActionException(s, e))
  <1> DEFINE x == e.dir
             t == DirDef[x].task
             excepted == [s EXCEPT !.dir[x].exception = e.id]
             held == SafeHoldTask([excepted EXCEPT !.dir[x].stopInForce = TRUE], t, x)
             w == [s.dir[x] EXCEPT !.exception = e.id]
  <1>1. s.dir[x] \in DirState /\ e.id \in EventIds
    BY ScopeParts DEF EventIds
  <1>2. w \in DirState
    BY <1>1, DirFields
  <1>3. excepted = [s EXCEPT !.dir[x] = w]
    BY DEF Scopes
  <1>4. <<"ACTION_REEVALUATION_REQUIRED">> \in Seq(EffectType)
        /\ <<"SAFE_HOLD_ENTERED">> \in Seq(EffectType)
    BY DEF EffectType
  <1>5. ASSUME DirDef[x].class # "STOP"
        PROVE  GoodResult(R, s, Applied(excepted, <<"ACTION_REEVALUATION_REQUIRED">>))
    <2> HIDE DEF excepted, w
    <2>1. excepted \in Scopes(R) /\ HoldStep(s, excepted)
      BY <1>2, <1>3, <1>5, ScopeRoots, DirHoldStep
    <2> QED
      BY <1>4, <2>1, AppliedGood
  <1>6. ASSUME HasTask(s, t)
        PROVE  GoodResult(R, s, Applied(held, <<"SAFE_HOLD_ENTERED">>))
    <2>1. t \in Tasks
      BY <1>6 DEF HasTask
    <2>2. held \in Scopes(R) /\ HoldStep(s, held)
      BY <1>1, <2>1, StopExceptionUpdate
    <2> HIDE DEF held
    <2> QED
      BY <1>4, <2>2, AppliedGood
  <1> HIDE DEF w
  <1> QED
    BY <1>5, <1>6, RefuseGood DEF WorkerActionException

-----------------------------------------------------------------------------
(* The handlers of signals. *)

(* START_WINDOW_ELAPSED of _reduce_system_signal *)
LEMMA StartWindowElapsedGood ==
    ASSUME NEW R, NEW s \in Scopes(R), NEW g, NEW c
    PROVE  GoodResult(R, s, StartWindowElapsed(s, g, c))
  <1> DEFINE n == [s EXCEPT !.day[g.day].startEscalated = TRUE]
             w == [s.day[g.day] EXCEPT !.startEscalated = TRUE]
  <1>1. <<"START_UNKNOWN_ESCALATED">> \in Seq(EffectType)
    BY DEF EffectType
  <1>2. ASSUME HasDay(s, g.day)
        PROVE  GoodResult(R, s, Applied(n, <<"START_UNKNOWN_ESCALATED">>))
    <2>1. g.day \in PlanDays
      BY <1>2, ScopeParts DEF HasDay
    <2>2. w \in DayState
      BY <2>1, ScopeParts, DayFields
    <2>3. n = [s EXCEPT !.day[g.day] = w]
      BY DEF Scopes
    <2> HIDE DEF n, w
    <2> QED
      BY <1>1, <2>1, <2>2, <2>3, DayUpdate, AppliedGood
  <1> QED
    BY <1>2, RefuseGood, NoopGood DEF StartWindowElapsed

(* DIRECTIVE_E1_ELAPSED of _reduce_system_signal *)
LEMMA DirectiveE1ElapsedGood ==
    ASSUME NEW R, NEW s \in Scopes(R), NEW g, NEW c
    PROVE  GoodResult(R, s, DirectiveE1Elapsed(s, g, c))
  <1> DEFINE x == g.dir
             n == [s EXCEPT !.dir[x].escalated = TRUE]
             w == [s.dir[x] EXCEPT !.escalated = TRUE]
  <1>1. /\ <<"ACK_MISSING_ESCALATED">> \in Seq(EffectType)
        /\ <<"STOP_UNCONFIRMED">> \in Seq(EffectType)
        /\ <<>> \in Seq(EffectType)
    BY DEF EffectType
  <1>2. ASSUME HasDirective(s, x), NEW f \in Seq(EffectType)
        PROVE  GoodResult(R, s, Applied(n, f))
    <2>1. x \in Directives /\ s.dir[x] \in DirState
      BY <1>2, ScopeParts DEF HasDirective
    <2>2. w \in DirState
      BY <2>1, DirFields
    <2>3. w.exception = s.dir[x].exception /\ w.stopInForce = s.dir[x].stopInForce
      BY <2>1 DEF DirState
    <2>4. n = [s EXCEPT !.dir[x] = w]
      BY DEF Scopes
    <2> HIDE DEF n, w
    <2> QED
      BY <2>1, <2>2, <2>3, <2>4, ScopeRoots, DirHoldStep, AppliedGood
  <1>3. GoodResult(R, s, Result(s, "REJECTED", <<>>, {}, SignalScopeErrors(s, g)))
    BY <1>1, HoldStepRefl, ResultGood DEF ReductionOutcome
  <1> HIDE DEF n
  <1> QED
    BY <1>1, <1>2, <1>3, RefuseGood, NoopGood DEF DirectiveE1Elapsed, n

(* EARLY_FINISH_EVALUATED of _reduce_system_signal *)
LEMMA EarlyFinishEvaluatedGood ==
    ASSUME NEW R, NEW s \in Scopes(R), NEW g, NEW c
    PROVE  GoodResult(R, s, EarlyFinishEvaluated(s, g, c))
  <1>1. <<"EARLY_FINISH_SOFT_OPTIONS">> \in Seq(EffectType)
    BY DEF EffectType
  <1> QED
    BY <1>1, RefuseGood, NoopGood, AppliedGood, HoldStepRefl DEF EarlyFinishEvaluated

(* END_OF_DAY_POLICY_SATISFIED of _reduce_system_signal *)
LEMMA EndOfDayPolicySatisfiedGood ==
    ASSUME NEW R, NEW s \in Scopes(R), NEW g, NEW c
    PROVE  GoodResult(R, s, EndOfDayPolicySatisfied(s, g, c))
  <1> DEFINE v == [s.day[g.day] EXCEPT !.status = "DAY_CLOSED"]
             w == [s.day[g.day] EXCEPT !.status = "DAY_CLOSED", !.available = FALSE]
             n == [s EXCEPT !.day[g.day] = w]
  <1>1. <<"DAY_CLOSED">> \in Seq(EffectType)
    BY DEF EffectType
  <1>2. ASSUME HasDay(s, g.day)
        PROVE  GoodResult(R, s, Applied(n, <<"DAY_CLOSED">>))
    <2>1. g.day \in PlanDays
      BY <1>2, ScopeParts DEF HasDay
    <2>2. v \in DayState
      BY <2>1, ScopeParts, DayFields DEF PlanDayStatus
    <2>3. w = [v EXCEPT !.available = FALSE]
      OBVIOUS
    <2>4. w \in DayState
      BY <2>2, <2>3, DayFields
    <2> HIDE DEF w
    <2> QED
      BY <1>1, <2>1, <2>4, DayUpdate, AppliedGood
  <1> QED
    BY <1>2, RefuseGood, NoopGood DEF EndOfDayPolicySatisfied

(* _reduce_system_signal, by signal type. *)
LEMMA HandleSignalGood ==
    ASSUME NEW R, NEW s \in Scopes(R), NEW g \in Signals, NEW c
    PROVE  GoodResult(R, s, HandleSignal(s, g, c))
  <1>1. g.type \in SystemSignalType
    BY InputAssumption DEF InputAssumption
  <1> QED
    BY <1>1, NoopGood, StartWindowElapsedGood, DirectiveE1ElapsedGood,
       EarlyFinishEvaluatedGood, EndOfDayPolicySatisfiedGood
       DEF HandleSignal, SystemSignalType

(* The dispatch of _reduce_field_event, by event type. *)
LEMMA HandleEventGood ==
    ASSUME NEW R, NEW s \in Scopes(R), NEW e \in FieldEvents, NEW c,
           ReferenceErrors(s, e) = {}
    PROVE  GoodResult(R, s, HandleEvent(s, e, c))
  <1>1. e.type \in FieldEventType
    BY InputAssumption DEF InputAssumption
  <1>2. CASE e.type \in CompletionEvents
    <2>1. /\ e.task \in Tasks
          /\ e.stage # None => e.stage \in Stages /\ StageTask[e.stage] = e.task
          /\ IsStageCompletion(e) => e.stage \in Stages
      BY <1>2, CheckedReferences DEF TaskAssignmentEvents, IsStageCompletion
    <2>2. HandleEvent(s, e, c) = CompletionReported(s, e)
      BY <1>2 DEF HandleEvent, CompletionEvents
    <2> QED
      BY <2>1, <2>2, CompletionReportedGood
  <1>3. CASE e.type = "DAY_PLAN_ACTIVATED"
    BY <1>3, CheckedReferences, DayPlanActivatedGood DEF HandleEvent, PlanEvents, CompletionEvents
  <1>4. CASE e.type = "START_DELAY_REPORTED"
    BY <1>4, StartDelayReportedGood DEF HandleEvent, CompletionEvents
  <1>5. CASE e.type = "START_EXCEPTION_REPORTED"
    BY <1>5, StartExceptionReportedGood DEF HandleEvent, CompletionEvents
  <1>6. CASE e.type = "UNAVAILABLE_TODAY_REPORTED"
    BY <1>6, CheckedReferences, UnavailableTodayReportedGood DEF HandleEvent, PlanEvents, CompletionEvents
  <1>7. CASE e.type = "WORK_START_BLOCKED"
    BY <1>7, CheckedReferences, WorkStartBlockedGood DEF HandleEvent, TaskAssignmentEvents, CompletionEvents
  <1>8. CASE e.type = "RESOURCE_MISSING_REPORTED"
    BY <1>8, CheckedReferences, ResourceMissingReportedGood DEF HandleEvent, CompletionEvents
  <1>9. CASE e.type = "SITE_PROBLEM_REPORTED"
    BY <1>9, CheckedReferences, SiteProblemReportedGood DEF HandleEvent, TaskAssignmentEvents, CompletionEvents
  <1>10. CASE e.type = "SCOPE_FACT_REPORTED"
    BY <1>10, ScopeFactReportedGood DEF HandleEvent, CompletionEvents
  <1>11. CASE e.type = "TECHNICAL_WAIT_REPORTED"
    BY <1>11, CheckedReferences, TechnicalWaitReportedGood
       DEF HandleEvent, TaskAssignmentEvents, CompletionEvents
  <1>12. CASE e.type = "DAY_CLOSE_REPORTED"
    BY <1>12, CheckedReferences, DayCloseReportedGood
       DEF HandleEvent, PlanEvents, CompletionEvents
  <1>13. CASE e.type = "COMPLETION_DISPUTED"
    BY <1>13, CheckedReferences, CompletionDisputedGood
       DEF HandleEvent, TaskAssignmentEvents, CompletionEvents
  <1>14. CASE e.type = "WORKER_ACKNOWLEDGED"
    BY <1>14, CheckedReferences, WorkerAcknowledgedGood DEF HandleEvent, CompletionEvents
  <1>15. CASE e.type = "WORKER_ACTION_EXCEPTION"
    BY <1>15, CheckedReferences, WorkerActionExceptionGood DEF HandleEvent, CompletionEvents
  <1> QED
    BY <1>1, <1>2, <1>3, <1>4, <1>5, <1>6, <1>7, <1>8, <1>9, <1>10, <1>11, <1>12,
       <1>13, <1>14, <1>15 DEF FieldEventType

-----------------------------------------------------------------------------
(* The reduction as a whole. *)

GoodReduction(R, s, r) ==
    /\ r.scope \in Scopes(R \cup r.receipts)
    /\ HoldStep(s, r.scope)
    /\ \A q \in r.receipts : ReceiptType(q)
    /\ r.outcome \in ReductionOutcome
    /\ r.emitted \in Seq(EffectType) /\ r.response \in Seq(EffectType)
    /\ r.missing \subseteq Requirements

(* A reduction built from a handler result and a set of receipts. *)
LEMMA ReductionGood ==
    ASSUME NEW R, NEW s \in Scopes(R), NEW r, GoodResult(R, s, r),
           NEW receipts, \A q \in receipts : ReceiptType(q), NEW replayed
    PROVE  GoodReduction(R, s, Reduction(r, receipts, replayed))
  <1> DEFINE n == [r.scope EXCEPT !.receipts = @ \cup receipts]
             d == Reduction(r, receipts, replayed)
  <1>1. r.scope \in Scopes(R)
    BY DEF GoodResult
  <1>2. n \in Scopes(R \cup receipts)
    BY <1>1 DEF Scopes
  <1>3. n.task = r.scope.task /\ n.stage = r.scope.stage /\ n.dir = r.scope.dir
    BY <1>1 DEF Scopes
  <1>4. HoldStep(s, n)
    BY <1>3 DEF GoodResult, HoldStep, Guarded, StopHeld
  <1>5. /\ d.scope = n /\ d.receipts = receipts /\ d.outcome = r.outcome
        /\ d.response = r.effects /\ d.missing = r.missing
        /\ d.emitted = IF replayed THEN <<>> ELSE r.effects
    BY DEF Reduction
  <1>6. d.emitted \in Seq(EffectType)
    BY <1>5 DEF GoodResult
  <1> HIDE DEF n, d
  <1> QED
    BY <1>2, <1>4, <1>5, <1>6 DEF GoodReduction, GoodResult, d

(* _finish_event appends the receipt of the event. *)
LEMMA FinishEventGood ==
    ASSUME NEW R, NEW s \in Scopes(R), NEW r, GoodResult(R, s, r), NEW i \in FieldInputs
    PROVE  GoodReduction(R, s, FinishEvent(r, i))
  <1> DEFINE q == [event |-> i.event, sid |-> i.sid, outcome |-> r.outcome,
                   response |-> r.effects, missing |-> r.missing,
                   reasons |-> r.reasons]
  <1>1. i.event \in FieldEvents /\ i.sid \in ServerIds
    BY DEF FieldEvents, ServerIds
  <1>2. ReceiptType(q)
    BY <1>1 DEF ReceiptType, GoodResult
  <1>3. FinishEvent(r, i) = Reduction(r, {q}, FALSE)
    BY DEF FinishEvent
  <1> HIDE DEF q
  <1> QED
    BY <1>2, <1>3, ReductionGood

(* _reduce_field_event: replay, collision, rejection or handler. *)
LEMMA ReduceFieldEventGood ==
    ASSUME NEW R, NEW s \in Scopes(R), \A q \in R : ReceiptType(q),
           NEW i \in FieldInputs, NEW c
    PROVE  GoodReduction(R, s, ReduceFieldEvent(s, i, c))
  <1> DEFINE prior == {r \in s.receipts : r.event.id = i.event.id}
             same == {r \in prior : r.event = i.event}
             errors == ReferenceErrors(s, i.event)
  <1>1. i.event \in FieldEvents /\ s.receipts = R
    BY ScopeParts DEF FieldEvents
  <1>2. ASSUME same # {}
        PROVE  GoodReduction(R, s, Replay(s, CHOOSE r \in same : TRUE))
    <2> DEFINE r == CHOOSE r \in same : TRUE
    <2>1. r \in same
      BY <1>2
    <2>2. ReceiptType(r)
      BY <1>1, <2>1
    <2> HIDE DEF r
    <2>3. GoodResult(R, s, Result(s, r.outcome, r.response, r.missing, r.reasons))
      BY <2>2, HoldStepRefl, ResultGood DEF ReceiptType
    <2>4. GoodReduction(R, s, Replay(s, r))
      BY <2>3, ReductionGood DEF Replay
    <2> QED
      BY <2>4 DEF r
  <1>3. \A code : GoodReduction(R, s, Reduction(Refuse(s, code), {}, FALSE))
    BY RefuseGood, ReductionGood
  <1>4. GoodReduction(R, s, RejectEvent(s, i, errors))
    <2> DEFINE f == CompletionRejectionEffects(i.event)
    <2>1. f \in Seq(EffectType)
      <3>1. <<"COMPLETION_REJECTED">> \in Seq(EffectType) /\ <<>> \in Seq(EffectType)
        BY DEF EffectType
      <3> QED
        BY <3>1 DEF CompletionRejectionEffects
    <2> HIDE DEF f
    <2>2. GoodResult(R, s, Result(s, "REJECTED", f, {}, errors))
      BY <2>1, HoldStepRefl, ResultGood DEF ReductionOutcome
    <2> QED
      BY <2>2, FinishEventGood DEF RejectEvent, f
  <1>5. ASSUME errors = {}
        PROVE  GoodReduction(R, s, FinishEvent(HandleEvent(s, i.event, c), i))
    BY <1>1, <1>5, HandleEventGood, FinishEventGood
  <1> QED
    BY <1>2, <1>3, <1>4, <1>5, Zenon DEF ReduceFieldEvent

(* Revisions are the only thing that finalisation changes. *)
LEMMA FinalizeScopeGood ==
    ASSUME NEW R, NEW s, NEW n \in Scopes(R), HoldStep(s, n)
    PROVE  FinalizeScope(s, n) \in Scopes(R) /\ HoldStep(s, FinalizeScope(s, n))
  <1> DEFINE jobRev == [j \in Jobs |-> IF JobChanged(s, n, j)
                                       THEN n.jobRev[j] + 1 ELSE n.jobRev[j]]
             day == [d \in PlanDays |-> IF n.day[d] # s.day[d]
                                        THEN [n.day[d] EXCEPT !.rev = @ + 1] ELSE n.day[d]]
             dir == [x \in Directives |-> IF n.dir[x] # s.dir[x]
                                          THEN [n.dir[x] EXCEPT !.rev = @ + 1] ELSE n.dir[x]]
             m == [n EXCEPT !.jobRev = jobRev, !.day = day, !.dir = dir]
  <1>1. FinalizeScope(s, n) = m
    BY DEF FinalizeScope
  <1>2. jobRev \in [Jobs -> Nat]
    BY DEF Scopes
  <1>3. day \in [PlanDays -> DayState]
    BY ScopeParts, DayFields
  <1>4. dir \in [Directives -> DirState]
    BY ScopeParts, DirFields
  <1>5. \A x \in Directives : /\ dir[x].exception = n.dir[x].exception
                              /\ dir[x].stopInForce = n.dir[x].stopInForce
    BY ScopeParts DEF DirState
  <1> HIDE DEF jobRev, day, dir
  <1>6. m \in Scopes(R)
    BY <1>2, <1>3, <1>4 DEF Scopes
  <1>7. m.task = n.task /\ m.stage = n.stage /\ m.dir = dir
    BY DEF Scopes
  <1> HIDE DEF m
  <1>8. HoldStep(s, m)
    BY <1>5, <1>7 DEF HoldStep, Guarded, StopHeld
  <1> QED
    BY <1>1, <1>6, <1>8

(* The reduction before it is finalised, for any input. *)
LEMMA RawGood ==
    ASSUME NEW R, NEW s \in Scopes(R), \A q \in R : ReceiptType(q),
           NEW i \in FieldInputs \cup Signals, NEW c
    PROVE  GoodReduction(R, s, RawReduction(s, i, c))
  <1>1. GoodReduction(R, s, Reduction(Refuse(s, "UNSUPPORTED_RULE_VERSION"), {}, FALSE))
    BY RefuseGood, ReductionGood
  <1>2. CASE i \in FieldInputs
    <2>1. i.kind = "FIELD_EVENT"
      BY <1>2, InputAssumption DEF InputAssumption
    <2> QED
      BY <1>1, <1>2, <2>1, ReduceFieldEventGood DEF RawReduction
  <1>3. CASE i \in Signals
    <2>1. i.kind # "FIELD_EVENT"
      BY <1>3, InputAssumption DEF InputAssumption
    <2>2. GoodReduction(R, s, Reduction(HandleSignal(s, i, c), {}, FALSE))
      BY <1>3, HandleSignalGood, ReductionGood
    <2> QED
      BY <1>1, <2>1, <2>2 DEF RawReduction
  <1> QED
    BY <1>2, <1>3

(* reduce: well typed, and no hold is lost, whatever the input. *)
LEMMA ReduceGood ==
    ASSUME NEW R, NEW s \in Scopes(R), \A q \in R : ReceiptType(q),
           NEW i \in FieldInputs \cup Signals, NEW c
    PROVE  GoodReduction(R, s, Reduce(s, i, c))
  <1> DEFINE r == RawReduction(s, i, c)
             n == FinalizeScope(s, r.scope)
  <1>1. GoodReduction(R, s, r)
    BY RawGood
  <1>2. /\ DOMAIN r = {"scope", "outcome", "emitted", "response", "missing", "reasons",
                       "receipts", "replayed"}
    BY DEF RawReduction, ReduceFieldEvent, Replay, RejectEvent, FinishEvent, Reduction
  <1> HIDE DEF r
  <1>3. n \in Scopes(R \cup r.receipts) /\ HoldStep(s, n)
    BY <1>1, FinalizeScopeGood DEF GoodReduction
  <1> QED
    BY <1>1, <1>2, <1>3 DEF GoodReduction, Reduce, r

(* _normalize_reduction_for_durability keeps all that. *)
LEMMA NormalizeGood ==
    ASSUME NEW R, NEW s \in Scopes(R), NEW i \in FieldInputs, NEW r,
           GoodReduction(R, s, r)
    PROVE  GoodReduction(R, s, NormalizeReduction(i, r))
  <1>1. CASE r.receipts = {} /\ r.reasons = {"UNSUPPORTED_RULE_VERSION"}
    <2>1. r.scope \in Scopes(R) /\ HoldStep(s, r.scope)
      BY <1>1 DEF GoodReduction
    <2>2. <<>> \in Seq(EffectType) /\ "REJECTED" \in ReductionOutcome
      BY DEF ReductionOutcome
    <2>3. GoodResult(R, s, Refuse(r.scope, "UNSUPPORTED_RULE_VERSION"))
      BY <2>1, <2>2, ResultGood DEF Refuse
    <2>4. GoodReduction(R, s, FinishEvent(Refuse(r.scope, "UNSUPPORTED_RULE_VERSION"), i))
      BY <2>3, FinishEventGood
    <2> QED
      BY <1>1, <2>4 DEF NormalizeReduction
  <1>2. CASE ~(r.receipts = {} /\ r.reasons = {"UNSUPPORTED_RULE_VERSION"})
    BY <1>2 DEF NormalizeReduction
  <1> QED
    BY <1>1, <1>2

(* The scope before anything is materialised. *)
LEMMA EmptyScopeGood ==
    /\ EmptyScope \in Scopes({})
    /\ Guarded(EmptyScope)
  <1>1. \A t \in Tasks : InitialTask(t) \in TaskState
    BY DefinitionAssumption DEF InitialTask, TaskState, TaskStatus, DefinitionAssumption
  <1>2. \A d \in PlanDays : InitialDay(d) \in DayState
    BY DefinitionAssumption
       DEF InitialDay, DayState, PlanDayStatus, PlanReferences, DefinitionAssumption
  <1>3. \A x \in Directives : InitialDirective(x) \in DirState
    BY DefinitionAssumption
       DEF InitialDirective, DirState, DeliveryEvidence, DefinitionAssumption
  <1>4. [status |-> "OPEN", completion |-> None] \in StageState
    BY DEF StageState, StageStatus
  <1>5. EmptyScope \in Scopes({})
    BY <1>1, <1>2, <1>3, <1>4 DEF EmptyScope, Scopes
  <1>6. Guarded(EmptyScope)
    BY DEF EmptyScope, Guarded, HeldProperly, StopHeld, InitialTask, InitialDirective
  <1> QED
    BY <1>5, <1>6

-----------------------------------------------------------------------------
(* What handling an event does, field by field.  r is the result of the    *)
(* handler for the event e in the scope s.                                 *)

RootsKept(s, n) == n.jobs = s.jobs /\ n.days = s.days /\ n.dirs = s.dirs

(* A day loses availability, and is reported closed, by its own event; no  *)
(* event closes it.                                                        *)
DaysMove(s, e, r) ==
    \A d \in PlanDays :
        LET v == s.day[d]  w == r.scope.day[d] IN
        /\ w.status = "DAY_CLOSED" <=> v.status = "DAY_CLOSED"
        /\ \/ w.available = v.available
           \/ /\ e.type = "UNAVAILABLE_TODAY_REPORTED" /\ r.outcome = "APPLIED"
              /\ e.day = d /\ ~w.available
        /\ \/ w.closeReported = v.closeReported
           \/ /\ e.type = "DAY_CLOSE_REPORTED" /\ r.outcome = "APPLIED"
              /\ e.day = d /\ w.closeReported

(* An applied acknowledgement, and nothing else, answers its directive and *)
(* may confirm the plan.                                                   *)
Acks(e, r) == e.type = "WORKER_ACKNOWLEDGED" /\ r.outcome = "APPLIED"

DirectivesMove(s, e, r) ==
    /\ \A x \in Directives :
          LET v == s.dir[x]  w == r.scope.dir[x] IN
          /\ w.escalated = v.escalated
          /\ v.stopInForce => w.stopInForce
          /\ IF Acks(e, r) /\ x = e.dir
             THEN ~DirectiveWorkerInformed(s, x) /\ w.delivery = "ACKED" /\ w.acked = e.id
             ELSE w.delivery = v.delivery /\ w.acked = v.acked
    /\ \A d \in PlanDays :
          r.scope.day[d].confirmed =
             IF Acks(e, r) /\ DirDef[e.dir].day = d /\ ConfirmsPlan(s, e.dir)
             THEN DirDef[e.dir].proposed ELSE s.day[d].confirmed

(* The statuses from which a task is not completed. *)
Halted == {"BLOCKED", "WAITING", "DISPUTED", "SAFE_HOLD"}

(* A completion that passed every check of _completion_reported. *)
Earned(s, e, r) ==
    /\ e.type \in CompletionEvents /\ r.outcome = "APPLIED"
    /\ CompletionAuthorityErrors(e) = {}
    /\ TaskDef[e.task].completion = ExpectedType[e.type]
    /\ CompletionGates(s, e) = {}
    /\ ~TaskNotCompletable(s, e) /\ ~StageNotCompletable(s, e)
    /\ MissingCompletionRequirements(s, e) = {}

(* A task gains the evidence of its own events that are not rejected, and  *)
(* becomes DONE by an earned completion only.                              *)
TasksMove(s, e, r) ==
    \A t \in Tasks :
        LET v == s.task[t]  w == r.scope.task[t] IN
        /\ \/ w.evidence = v.evidence
           \/ /\ t = e.task /\ r.outcome # "REJECTED"
              /\ w.evidence = MergeEvidence(v.evidence, e.attachments)
        /\ \/ w.completion = v.completion /\ w.status \in Halted \cup {v.status}
           \/ /\ t = e.task /\ Earned(s, e, r) /\ ~IsStageCompletion(e)
              /\ w.status = "DONE" /\ w.completion = e.id
              /\ w.evidence = MergeEvidence(v.evidence, e.attachments)

StagesMove(s, e, r) ==
    \A g \in Stages :
        LET v == s.stage[g]  w == r.scope.stage[g] IN
        \/ w = v
        \/ w.status = "DISPUTED"
        \/ /\ g = e.stage /\ Earned(s, e, r) /\ IsStageCompletion(e)
           /\ w.status = "DONE" /\ w.completion = e.id

(* What an unsafe report and a dispute leave behind. *)
Verdict(s, e, r) ==
    LET n == r.scope IN
    /\ e.type = "SITE_PROBLEM_REPORTED" =>
          /\ n.task[e.task].status # "DONE"
          /\ e.stage # None => n.stage[e.stage].status # "DONE" \/ n.task[e.task].blocked
    /\ e.type = "COMPLETION_DISPUTED" /\ r.outcome = "APPLIED" =>
          IF e.stage = None THEN n.task[e.task].status \in Halted
          ELSE n.stage[e.stage].status = "DISPUTED" \/ n.task[e.task].blocked

EventMove(s, e, r) ==
    /\ RootsKept(s, r.scope)
    /\ DaysMove(s, e, r) /\ DirectivesMove(s, e, r)
    /\ TasksMove(s, e, r) /\ StagesMove(s, e, r) /\ Verdict(s, e, r)

(* No handler puts a stage into SAFE_HOLD, so that a hold is the block of  *)
(* its task.                                                               *)
StagesFree(s) == \A g \in Stages : s.stage[g].status # "SAFE_HOLD"

LEMMA HoldIsBlock ==
    ASSUME NEW s, Guarded(s), StagesFree(s), NEW t \in Tasks
    PROVE  SafeHoldActive(s, t) <=> s.task[t].blocked
  BY DEF SafeHoldActive, Guarded, HeldProperly, StagesFree

(* A handler that leaves the scope alone moves nothing. *)
LEMMA StillMove ==
    ASSUME NEW s, NEW e, NEW r, r.scope = s,
           r.outcome # "APPLIED" \/ e.type \notin {"COMPLETION_DISPUTED", "WORKER_ACKNOWLEDGED"},
           e.type # "SITE_PROBLEM_REPORTED"
    PROVE  EventMove(s, e, r)
  BY DEF EventMove, RootsKept, DaysMove, DirectivesMove, TasksMove, StagesMove, Verdict, Acks

(* A handler of the plan day. *)
LEMMA DayMove ==
    ASSUME NEW R, NEW s \in Scopes(R), NEW e, NEW r, NEW d \in PlanDays, NEW w \in DayState,
           r.scope = [s EXCEPT !.day[d] = w],
           e.type \notin {"COMPLETION_DISPUTED", "WORKER_ACKNOWLEDGED", "SITE_PROBLEM_REPORTED"},
           w.confirmed = s.day[d].confirmed,
           w.status = "DAY_CLOSED" <=> s.day[d].status = "DAY_CLOSED",
           \/ w.available = s.day[d].available
           \/ /\ e.type = "UNAVAILABLE_TODAY_REPORTED" /\ r.outcome = "APPLIED"
              /\ e.day = d /\ ~w.available,
           \/ w.closeReported = s.day[d].closeReported
           \/ /\ e.type = "DAY_CLOSE_REPORTED" /\ r.outcome = "APPLIED"
              /\ e.day = d /\ w.closeReported
    PROVE  EventMove(s, e, r)
  <1> DEFINE n == r.scope
  <1>1. /\ n.task = s.task /\ n.stage = s.stage /\ n.dir = s.dir
        /\ n.day = [s.day EXCEPT ![d] = w] /\ RootsKept(s, n)
    BY DEF Scopes, RootsKept
  <1>2. /\ n.day[d] = w /\ \A x \in PlanDays : x # d => n.day[x] = s.day[x]
    BY <1>1 DEF Scopes
  <1>3. DaysMove(s, e, r)
    BY <1>2 DEF DaysMove
  <1>4. DirectivesMove(s, e, r)
    BY <1>1, <1>2 DEF DirectivesMove, Acks
  <1>5. TasksMove(s, e, r) /\ StagesMove(s, e, r)
    BY <1>1 DEF TasksMove, StagesMove
  <1> QED
    BY <1>1, <1>3, <1>4, <1>5 DEF EventMove, Verdict

(* _day_plan_activated, _unavailable_today, _day_close *)
LEMMA DayHandlersMove ==
    ASSUME NEW R, NEW s \in Scopes(R), NEW e, e.day \in PlanDays
    PROVE  /\ e.type = "DAY_PLAN_ACTIVATED" => EventMove(s, e, DayPlanActivated(s, e))
           /\ e.type = "UNAVAILABLE_TODAY_REPORTED" =>
                 EventMove(s, e, UnavailableTodayReported(s, e))
           /\ e.type = "DAY_CLOSE_REPORTED" => EventMove(s, e, DayCloseReported(s, e))
  <1> DEFINE d == e.day
             v == s.day[d]
  <1>1. v \in DayState
    BY ScopeParts
  <1>2. ASSUME e.type = "DAY_PLAN_ACTIVATED" PROVE EventMove(s, e, DayPlanActivated(s, e))
    <2> DEFINE w == [v EXCEPT !.status = "ACTIVE"]
               r == Applied([s EXCEPT !.day[d] = w], <<"PLAN_DAY_ACTIVATED">>)
    <2>1. [s EXCEPT !.day[d].status = "ACTIVE"] = [s EXCEPT !.day[d] = w]
      BY DEF Scopes
    <2>2. DayPlanActivated(s, e) =
            IF v.status = "ACTIVE" THEN Noop(s)
            ELSE IF v.status \notin {"DRAFT", "ISSUED"} THEN Refuse(s, "PLAN_DAY_NOT_ACTIVATABLE")
            ELSE r
      BY <2>1 DEF DayPlanActivated
    <2>3. w \in DayState /\ w.status = "ACTIVE" /\ w.available = v.available
          /\ w.confirmed = v.confirmed /\ w.closeReported = v.closeReported
      BY <1>1 DEF DayState, PlanDayStatus
    <2>4. r.scope = [s EXCEPT !.day[d] = w]
      BY DEF Applied, Result
    <2> HIDE DEF w, r
    <2>5. ASSUME v.status \in {"DRAFT", "ISSUED"} PROVE EventMove(s, e, r)
      BY <1>2, <2>3, <2>4, <2>5, DayMove
    <2>6. EventMove(s, e, Noop(s)) /\ EventMove(s, e, Refuse(s, "PLAN_DAY_NOT_ACTIVATABLE"))
      BY <1>2, StillMove DEF Noop, Refuse, Result
    <2> QED
      BY <2>2, <2>5, <2>6
  <1>3. ASSUME e.type = "UNAVAILABLE_TODAY_REPORTED"
        PROVE  EventMove(s, e, UnavailableTodayReported(s, e))
    <2> DEFINE w == [v EXCEPT !.available = FALSE]
               r == Applied([s EXCEPT !.day[d] = w], <<"UNAVAILABLE_TODAY_RECORDED">>)
    <2>1. [s EXCEPT !.day[d].available = FALSE] = [s EXCEPT !.day[d] = w]
      BY DEF Scopes
    <2>2. UnavailableTodayReported(s, e) =
            IF e.reason \notin UnavailableReason THEN Refuse(s, "INVALID_UNAVAILABLE_REASON")
            ELSE r
      BY <2>1 DEF UnavailableTodayReported
    <2>3. w \in DayState /\ w.status = v.status /\ w.available = FALSE
          /\ w.confirmed = v.confirmed /\ w.closeReported = v.closeReported
      BY <1>1 DEF DayState, PlanDayStatus
    <2>4. r.scope = [s EXCEPT !.day[d] = w] /\ r.outcome = "APPLIED"
      BY DEF Applied, Result
    <2> HIDE DEF w, r
    <2>5. EventMove(s, e, r)
      BY <1>3, <2>3, <2>4, DayMove
    <2>6. EventMove(s, e, Refuse(s, "INVALID_UNAVAILABLE_REASON"))
      BY <1>3, StillMove DEF Refuse, Result
    <2> QED
      BY <2>2, <2>5, <2>6
  <1>4. ASSUME e.type = "DAY_CLOSE_REPORTED" PROVE EventMove(s, e, DayCloseReported(s, e))
    <2> DEFINE w == [v EXCEPT !.closeReported = TRUE]
               r == Applied([s EXCEPT !.day[d] = w], <<"END_OF_DAY_POLICY_REQUESTED">>)
    <2>1. [s EXCEPT !.day[d].closeReported = TRUE] = [s EXCEPT !.day[d] = w]
      BY DEF Scopes
    <2>2. DayCloseReported(s, e) = IF v.status = "DAY_CLOSED" THEN Noop(s) ELSE r
      BY <2>1 DEF DayCloseReported
    <2>3. w \in DayState /\ w.status = v.status /\ w.available = v.available
          /\ w.confirmed = v.confirmed /\ w.closeReported = TRUE
      BY <1>1 DEF DayState, PlanDayStatus
    <2>4. r.scope = [s EXCEPT !.day[d] = w] /\ r.outcome = "APPLIED"
      BY DEF Applied, Result
    <2> HIDE DEF w, r
    <2>5. EventMove(s, e, r)
      BY <1>4, <2>3, <2>4, DayMove
    <2>6. EventMove(s, e, Noop(s))
      BY <1>4, StillMove DEF Noop, Result
    <2> QED
      BY <2>2, <2>5, <2>6
  <1> QED
    BY <1>2, <1>3, <1>4

(* A handler that leaves the days and the directives alone. *)
TaskOnly(s, n) == RootsKept(s, n) /\ n.day = s.day /\ n.dir = s.dir

LEMMA TaskOnlyMove ==
    ASSUME NEW s, NEW e, NEW r, TaskOnly(s, r.scope), ~Acks(e, r)
    PROVE  RootsKept(s, r.scope) /\ DaysMove(s, e, r) /\ DirectivesMove(s, e, r)
  BY DEF TaskOnly, DaysMove, DirectivesMove

(* _ordinary_task_status, towards a status that completes nothing. *)
LEMMA OrdinaryStatusMove ==
    ASSUME NEW R, NEW s \in Scopes(R), NEW t \in Tasks, NEW v \in Halted
    PROVE  LET n == OrdinaryTaskStatus(s, t, v) IN
           /\ TaskOnly(s, n) /\ n.stage = s.stage
           /\ \A u \in Tasks : /\ n.task[u].evidence = s.task[u].evidence
                               /\ n.task[u].completion = s.task[u].completion
                               /\ n.task[u].status \in Halted \cup {s.task[u].status}
                               /\ n.task[u].blocked = s.task[u].blocked
           /\ ~SafeHoldActive(s, t) => n.task[t].status = v
  <1> DEFINE w == [s.task[t] EXCEPT !.status = v]
             m == [s EXCEPT !.task[t].status = v]
  <1>1. /\ TaskOnly(s, m) /\ m.stage = s.stage
        /\ m.task = [s.task EXCEPT ![t] = w]
    BY DEF Scopes, TaskOnly, RootsKept
  <1>2. s.task[t] \in TaskState /\ s.task \in [Tasks -> TaskState]
    BY DEF Scopes
  <1>3. /\ w.status = v /\ w.evidence = s.task[t].evidence
        /\ w.completion = s.task[t].completion /\ w.blocked = s.task[t].blocked
    BY <1>2 DEF TaskState
  <1> HIDE DEF w, m
  <1>4. m.task[t] = w /\ \A u \in Tasks : u # t => m.task[u] = s.task[u]
    BY <1>1, <1>2
  <1>5. OrdinaryTaskStatus(s, t, v) = IF SafeHoldActive(s, t) THEN s ELSE m
    BY DEF OrdinaryTaskStatus, m
  <1>6. CASE SafeHoldActive(s, t)
    BY <1>5, <1>6 DEF TaskOnly, RootsKept
  <1>7. CASE ~SafeHoldActive(s, t)
    BY <1>1, <1>3, <1>4, <1>5, <1>7
  <1> QED
    BY <1>6, <1>7

(* A handler that only halts tasks. *)
LEMMA HaltMove ==
    ASSUME NEW s, NEW e, NEW r, TaskOnly(s, r.scope), r.scope.stage = s.stage,
           \A u \in Tasks : /\ r.scope.task[u].evidence = s.task[u].evidence
                            /\ r.scope.task[u].completion = s.task[u].completion
                            /\ r.scope.task[u].status \in Halted \cup {s.task[u].status},
           e.type \notin {"COMPLETION_DISPUTED", "WORKER_ACKNOWLEDGED", "SITE_PROBLEM_REPORTED"}
    PROVE  EventMove(s, e, r)
  <1>1. ~Acks(e, r)
    BY DEF Acks
  <1>2. RootsKept(s, r.scope) /\ DaysMove(s, e, r) /\ DirectivesMove(s, e, r)
    BY <1>1, TaskOnlyMove
  <1>3. TasksMove(s, e, r) /\ StagesMove(s, e, r) /\ Verdict(s, e, r)
    BY DEF TasksMove, StagesMove, Verdict
  <1> QED
    BY <1>2, <1>3 DEF EventMove

(* _work_start_blocked *)
LEMMA WorkStartBlockedMove ==
    ASSUME NEW R, NEW s \in Scopes(R), NEW e, e.task \in Tasks,
           e.type = "WORK_START_BLOCKED"
    PROVE  EventMove(s, e, WorkStartBlocked(s, e))
  <1> DEFINE n == OrdinaryTaskStatus(s, e.task, "BLOCKED")
             r == Applied(n, <<"TASK_HELD">>)
  <1>1. "BLOCKED" \in Halted
    BY DEF Halted
  <1>2. r.scope = n
    BY DEF Applied, Result
  <1>3. EventMove(s, e, r)
    <2>1. /\ TaskOnly(s, n) /\ n.stage = s.stage
          /\ \A u \in Tasks : /\ n.task[u].evidence = s.task[u].evidence
                              /\ n.task[u].completion = s.task[u].completion
                              /\ n.task[u].status \in Halted \cup {s.task[u].status}
      BY <1>1, OrdinaryStatusMove
    <2> HIDE DEF n, r
    <2> QED
      BY <1>2, <2>1, HaltMove
  <1>4. \A code : EventMove(s, e, Refuse(s, code))
    BY StillMove DEF Refuse, Result
  <1> QED
    BY <1>3, <1>4 DEF WorkStartBlocked

(* _resource_missing *)
LEMMA ResourceMissingMove ==
    ASSUME NEW R, NEW s \in Scopes(R), NEW e, e.task \in Tasks \cup {None},
           e.type = "RESOURCE_MISSING_REPORTED"
    PROVE  EventMove(s, e, ResourceMissingReported(s, e))
  <1> DEFINE n == OrdinaryTaskStatus(s, e.task, "BLOCKED")
             r == Applied(n, <<"RESOURCE_MISSING_RECORDED", "TASK_HELD">>)
  <1>1. "BLOCKED" \in Halted
    BY DEF Halted
  <1>2. r.scope = n
    BY DEF Applied, Result
  <1>3. ASSUME e.task # None PROVE EventMove(s, e, r)
    <2>1. /\ TaskOnly(s, n) /\ n.stage = s.stage
          /\ \A u \in Tasks : /\ n.task[u].evidence = s.task[u].evidence
                              /\ n.task[u].completion = s.task[u].completion
                              /\ n.task[u].status \in Halted \cup {s.task[u].status}
      BY <1>1, <1>3, OrdinaryStatusMove
    <2> HIDE DEF n, r
    <2> QED
      BY <1>2, <2>1, HaltMove
  <1>4. /\ \A code : EventMove(s, e, Refuse(s, code))
        /\ EventMove(s, e, Applied(s, <<"RESOURCE_MISSING_RECORDED">>))
    BY StillMove DEF Refuse, Applied, Result
  <1> QED
    BY <1>3, <1>4 DEF ResourceMissingReported

(* _technical_wait *)
LEMMA TechnicalWaitMove ==
    ASSUME NEW R, NEW s \in Scopes(R), NEW e, e.task \in Tasks, e.asg \in Assignments,
           e.type = "TECHNICAL_WAIT_REPORTED"
    PROVE  EventMove(s, e, TechnicalWaitReported(s, e))
  <1> DEFINE w == [s.task[e.task] EXCEPT !.status = "WAITING"]
             n == [s EXCEPT !.task[e.task].status = "WAITING",
                            !.released[e.asg] = @ \cup {e.actor}]
             r == Applied(n, <<"TECHNICAL_WAIT_RECORDED">>)
  <1>1. /\ TaskOnly(s, n) /\ n.stage = s.stage /\ n.task = [s.task EXCEPT ![e.task] = w]
    BY DEF Scopes, TaskOnly, RootsKept
  <1>2. s.task[e.task] \in TaskState /\ s.task \in [Tasks -> TaskState]
    BY DEF Scopes
  <1>3. /\ w.status = "WAITING" /\ w.evidence = s.task[e.task].evidence
        /\ w.completion = s.task[e.task].completion /\ "WAITING" \in Halted
    BY <1>2 DEF TaskState, Halted
  <1>4. r.scope = n
    BY DEF Applied, Result
  <1>5. \A code : EventMove(s, e, Refuse(s, code))
    BY StillMove DEF Refuse, Result
  <1>6. TechnicalWaitReported(s, e) = r \/ \E code : TechnicalWaitReported(s, e) = Refuse(s, code)
    BY DEF TechnicalWaitReported
  <1> HIDE DEF w, n, r
  <1>7. n.task[e.task] = w /\ \A u \in Tasks : u # e.task => n.task[u] = s.task[u]
    BY <1>1, <1>2
  <1>8. EventMove(s, e, r)
    <2>1. TaskOnly(s, r.scope) /\ r.scope.stage = s.stage
      BY <1>1, <1>4
    <2>2. \A u \in Tasks : /\ r.scope.task[u].evidence = s.task[u].evidence
                           /\ r.scope.task[u].completion = s.task[u].completion
                           /\ r.scope.task[u].status \in Halted \cup {s.task[u].status}
      BY <1>3, <1>4, <1>7
    <2> QED
      BY <2>1, <2>2, HaltMove
  <1> QED
    BY <1>5, <1>6, <1>8

(* _worker_acknowledged *)
LEMMA AcknowledgedMove ==
    ASSUME NEW R, NEW s \in Scopes(R), NEW e, e.dir \in Directives,
           e.type = "WORKER_ACKNOWLEDGED"
    PROVE  EventMove(s, e, WorkerAcknowledged(s, e))
  <1> DEFINE x == e.dir
             w == [s.dir[x] EXCEPT !.delivery = "ACKED", !.acked = e.id]
             d == DirDef[x].day
             u == [s.day[d] EXCEPT !.confirmed = DirDef[x].proposed]
             acked == [s EXCEPT !.dir[x].delivery = "ACKED", !.dir[x].acked = e.id]
             n == IF ConfirmsPlan(s, x)
                  THEN [acked EXCEPT !.day[d].confirmed = DirDef[x].proposed] ELSE acked
             r == Applied(n, <<"DIRECTIVE_ACKED">>)
  <1>1. WorkerAcknowledged(s, e) = IF DirectiveWorkerInformed(s, x) THEN Noop(s) ELSE r
    BY DEF WorkerAcknowledged
  <1>2. EventMove(s, e, Noop(s))
    BY StillMove DEF Noop, Result
  <1>3. /\ acked.dir = [s.dir EXCEPT ![x] = w] /\ acked.day = s.day
        /\ acked.task = s.task /\ acked.stage = s.stage /\ RootsKept(s, acked)
    BY DEF Scopes, RootsKept
  <1>4. /\ n.dir = [s.dir EXCEPT ![x] = w]
        /\ n.day = IF ConfirmsPlan(s, x) THEN [s.day EXCEPT ![d] = u] ELSE s.day
        /\ n.task = s.task /\ n.stage = s.stage /\ RootsKept(s, n)
    <2>1. acked.day \in [PlanDays -> DayState] /\ "day" \in DOMAIN acked
      BY <1>3 DEF Scopes
    <2>2. CASE ConfirmsPlan(s, x)
      <3> DEFINE k == [acked EXCEPT !.day[d].confirmed = DirDef[x].proposed]
      <3> HIDE DEF acked, w
      <3>1. /\ k.dir = acked.dir /\ k.task = acked.task /\ k.stage = acked.stage
            /\ k.jobs = acked.jobs /\ k.days = acked.days /\ k.dirs = acked.dirs
            /\ k.day = [acked.day EXCEPT ![d].confirmed = DirDef[x].proposed]
        BY <2>1
      <3>2. n = k
        BY <2>2
      <3>3. k.day = [s.day EXCEPT ![d] = u]
        BY <1>3, <3>1
      <3> HIDE DEF k, n
      <3> QED
        BY <1>3, <2>2, <3>1, <3>2, <3>3 DEF RootsKept
    <2>3. CASE ~ConfirmsPlan(s, x)
      BY <1>3, <2>3
    <2> QED
      BY <2>2, <2>3
  <1>5. s.dir[x] \in DirState /\ s.dir \in [Directives -> DirState]
        /\ s.day \in [PlanDays -> DayState]
    BY DEF Scopes
  <1>6. /\ w.delivery = "ACKED" /\ w.acked = e.id /\ w.escalated = s.dir[x].escalated
        /\ w.stopInForce = s.dir[x].stopInForce
    BY <1>5 DEF DirState
  <1>7. ASSUME ConfirmsPlan(s, x)
        PROVE  /\ d \in PlanDays
               /\ u.confirmed = DirDef[x].proposed /\ u.status = s.day[d].status
               /\ u.available = s.day[d].available /\ u.closeReported = s.day[d].closeReported
    <2>1. d \in PlanDays
      BY <1>7, ScopeParts DEF ConfirmsPlan, HasDay
    <2> QED
      BY <1>5, <2>1 DEF DayState
  <1>8. r.scope = n /\ r.outcome = "APPLIED"
    BY DEF Applied, Result
  <1> HIDE DEF w, u, n, r, acked
  <1>9. n.dir[x] = w /\ \A y \in Directives : y # x => n.dir[y] = s.dir[y]
    BY <1>4, <1>5
  <1>10. \A y \in PlanDays : n.day[y] = IF ConfirmsPlan(s, x) /\ y = d THEN u ELSE s.day[y]
    BY <1>4, <1>5
  <1>11. ASSUME ~DirectiveWorkerInformed(s, x) PROVE EventMove(s, e, r)
    <2>1. Acks(e, r)
      BY <1>8 DEF Acks
    <2>2. DirectivesMove(s, e, r)
      BY <1>6, <1>7, <1>8, <1>9, <1>10, <1>11, <2>1 DEF DirectivesMove
    <2>3. DaysMove(s, e, r)
      BY <1>7, <1>8, <1>10 DEF DaysMove
    <2>4. TasksMove(s, e, r) /\ StagesMove(s, e, r) /\ Verdict(s, e, r)
      BY <1>4, <1>8 DEF TasksMove, StagesMove, Verdict
    <2> QED
      BY <1>4, <1>8, <2>2, <2>3, <2>4 DEF EventMove
  <1> QED
    BY <1>1, <1>2, <1>11

(* _worker_action_exception: it answers nothing, lifts no STOP and         *)
(* completes nothing.                                                      *)
LEMMA ActionExceptionMove ==
    ASSUME NEW R, NEW s \in Scopes(R), NEW e, e.dir \in Directives,
           e.type = "WORKER_ACTION_EXCEPTION"
    PROVE  EventMove(s, e, WorkerActionException(s, e))
  <1> DEFINE x == e.dir
             t == DirDef[x].task
             excepted == [s EXCEPT !.dir[x].exception = e.id]
             inForce == [excepted EXCEPT !.dir[x].stopInForce = TRUE]
             held == SafeHoldTask(inForce, t, x)
             v1 == [s.dir[x] EXCEPT !.exception = e.id]
             v2 == [v1 EXCEPT !.stopInForce = TRUE]
             w == [s.task[t] EXCEPT !.status = "SAFE_HOLD", !.holdDirective = x,
                                    !.blocked = TRUE, !.authorized = FALSE]
  <1>1. s.dir[x] \in DirState /\ s.dir \in [Directives -> DirState]
        /\ s.task \in [Tasks -> TaskState]
    BY DEF Scopes
  <1>2. /\ excepted.dir = [s.dir EXCEPT ![x] = v1] /\ excepted.day = s.day
        /\ excepted.task = s.task /\ excepted.stage = s.stage /\ RootsKept(s, excepted)
    BY DEF Scopes, RootsKept
  <1>3. /\ inForce.dir = [s.dir EXCEPT ![x] = v2] /\ inForce.day = s.day
        /\ inForce.task = s.task /\ inForce.stage = s.stage /\ RootsKept(s, inForce)
    <2>1. {"jobs", "days", "dirs", "day", "task", "stage", "dir"} \subseteq DOMAIN excepted
      BY DEF Scopes
    <2> HIDE DEF excepted, v1
    <2>2. /\ inForce.dir = [excepted.dir EXCEPT ![x].stopInForce = TRUE]
          /\ inForce.day = excepted.day /\ inForce.task = excepted.task
          /\ inForce.stage = excepted.stage /\ RootsKept(excepted, inForce)
      BY <2>1 DEF RootsKept
    <2>3. inForce.dir = [s.dir EXCEPT ![x] = v2]
      BY <1>1, <1>2, <2>2
    <2> QED
      BY <1>2, <2>2, <2>3 DEF RootsKept
  <1>4. /\ held.dir = inForce.dir /\ held.day = s.day
        /\ held.task = [s.task EXCEPT ![t] = w] /\ held.stage = s.stage
        /\ RootsKept(s, held)
    <2>1. {"jobs", "days", "dirs", "day", "task", "stage", "dir"} \subseteq DOMAIN inForce
      BY DEF Scopes
    <2> HIDE DEF inForce
    <2>2. /\ held.dir = inForce.dir /\ held.day = inForce.day /\ held.stage = inForce.stage
          /\ RootsKept(inForce, held)
          /\ held.task = [inForce.task EXCEPT ![t].status = "SAFE_HOLD", ![t].holdDirective = x,
                                              ![t].blocked = TRUE, ![t].authorized = FALSE]
      BY <2>1 DEF RootsKept, SafeHoldTask
    <2>3. held.task = [s.task EXCEPT ![t] = w]
      BY <1>1, <1>3, <2>2
    <2> QED
      BY <1>3, <2>2, <2>3 DEF RootsKept
  <1>5. /\ v1.delivery = s.dir[x].delivery /\ v1.acked = s.dir[x].acked
        /\ v1.escalated = s.dir[x].escalated /\ v1.stopInForce = s.dir[x].stopInForce
        /\ v2.delivery = s.dir[x].delivery /\ v2.acked = s.dir[x].acked
        /\ v2.escalated = s.dir[x].escalated /\ v2.stopInForce = TRUE
    BY <1>1 DEF DirState
  <1>6. t \in Tasks => /\ w.evidence = s.task[t].evidence
                       /\ w.completion = s.task[t].completion
                       /\ w.status \in Halted
    BY <1>1 DEF TaskState, Halted
  <1>7. \A k, f : Applied(k, f).scope = k
    BY DEF Applied, Result
  <1>8. \/ \E code : WorkerActionException(s, e) = Refuse(s, code)
        \/ \E f : WorkerActionException(s, e) = Applied(excepted, f)
        \/ t \in Tasks /\ \E f : WorkerActionException(s, e) = Applied(held, f)
    BY DEF WorkerActionException, HasTask
  <1>9. \A code : EventMove(s, e, Refuse(s, code))
    BY StillMove DEF Refuse, Result
  <1> HIDE DEF v1, v2, w, excepted, inForce, held
  <1>10. ASSUME NEW r, RootsKept(s, r.scope), r.scope.day = s.day, r.scope.stage = s.stage,
                r.scope.task = s.task \/ (t \in Tasks /\ r.scope.task = [s.task EXCEPT ![t] = w]),
                \/ r.scope.dir = [s.dir EXCEPT ![x] = v1]
                \/ r.scope.dir = [s.dir EXCEPT ![x] = v2]
         PROVE  EventMove(s, e, r)
    <2>1. \A y \in Directives : y # x => r.scope.dir[y] = s.dir[y]
      BY <1>1, <1>10
    <2>2. r.scope.dir[x] = v1 \/ r.scope.dir[x] = v2
      BY <1>1, <1>10
    <2>3. ~Acks(e, r)
      BY DEF Acks
    <2>4. DirectivesMove(s, e, r)
      BY <1>5, <1>10, <2>1, <2>2, <2>3 DEF DirectivesMove
    <2>5. \A u \in Tasks : r.scope.task[u] = s.task[u] \/ (u = t /\ r.scope.task[u] = w)
      BY <1>1, <1>10
    <2>6. TasksMove(s, e, r)
      BY <1>6, <2>5 DEF TasksMove
    <2>7. DaysMove(s, e, r) /\ StagesMove(s, e, r) /\ Verdict(s, e, r)
      BY <1>10 DEF DaysMove, StagesMove, Verdict
    <2> QED
      BY <1>10, <2>4, <2>6, <2>7 DEF EventMove
  <1>11. \A f : EventMove(s, e, Applied(excepted, f))
    BY <1>2, <1>7, <1>10
  <1>12. t \in Tasks => \A f : EventMove(s, e, Applied(held, f))
    BY <1>3, <1>4, <1>7, <1>10
  <1> QED
    BY <1>8, <1>9, <1>11, <1>12

(* The target of a dispute. *)
LEMMA DisputeTargetMove ==
    ASSUME NEW R, NEW s \in Scopes(R), NEW e, e.task \in Tasks,
           e.stage # None => e.stage \in Stages
    PROVE  LET n == DisputeTarget(s, e) IN
           /\ TaskOnly(s, n)
           /\ \A u \in Tasks : /\ n.task[u].evidence = s.task[u].evidence
                               /\ n.task[u].completion = s.task[u].completion
                               /\ n.task[u].status = IF u = e.task THEN "DISPUTED"
                                                     ELSE s.task[u].status
           /\ \A g \in Stages : IF g = e.stage THEN n.stage[g].status = "DISPUTED"
                                ELSE n.stage[g] = s.stage[g]
  <1> DEFINE n == DisputeTarget(s, e)
             t == e.task
             w == [s.task[t] EXCEPT !.status = "DISPUTED"]
             v == [s.stage[e.stage] EXCEPT !.status = "DISPUTED"]
  <1>1. /\ TaskOnly(s, n) /\ n.task = [s.task EXCEPT ![t] = w]
        /\ n.stage = IF e.stage = None THEN s.stage ELSE [s.stage EXCEPT ![e.stage] = v]
    BY DEF Scopes, TaskOnly, RootsKept, DisputeTarget
  <1>2. /\ s.task[t] \in TaskState /\ s.task \in [Tasks -> TaskState]
        /\ s.stage \in [Stages -> StageState]
    BY DEF Scopes
  <1>3. /\ w.status = "DISPUTED" /\ w.evidence = s.task[t].evidence
        /\ w.completion = s.task[t].completion
    BY <1>2 DEF TaskState
  <1>4. e.stage # None => v.status = "DISPUTED"
    BY <1>2 DEF StageState
  <1>5. None \notin Stages
    BY DefinitionAssumption DEF DefinitionAssumption
  <1> HIDE DEF n, w, v
  <1>6. n.task[t] = w /\ \A u \in Tasks : u # t => n.task[u] = s.task[u]
    BY <1>1, <1>2
  <1>7. \A g \in Stages : IF g = e.stage THEN n.stage[g] = v ELSE n.stage[g] = s.stage[g]
    BY <1>1, <1>2, <1>5
  <1> QED
    BY <1>1, <1>3, <1>4, <1>5, <1>6, <1>7 DEF n

(* _site_problem *)
LEMMA SiteProblemMove ==
    ASSUME NEW R, NEW s \in Scopes(R), NEW e \in FieldEvents, NEW c, e.task \in Tasks,
           e.stage # None => e.stage \in Stages /\ StageTask[e.stage] = e.task,
           Guarded(s), StagesFree(s), e.type = "SITE_PROBLEM_REPORTED"
    PROVE  EventMove(s, e, SiteProblemReported(s, e, c))
  <1> DEFINE t == e.task
             m == [s EXCEPT !.task[t].evidence = MergeEvidence(@, e.attachments),
                            !.task[t].observations = @ \cup {e.id}]
             w == [s.task[t] EXCEPT !.evidence = MergeEvidence(@, e.attachments),
                                    !.observations = @ \cup {e.id}]
             r == SiteProblemReported(s, e, c)
             n == r.scope
  <1>1. e.attachments \in SUBSET EvidenceItems /\ e.id \in EventIds
    BY DEF EvidenceItems, EventIds
  <1>2. m \in Scopes(R)
    BY <1>1, ObservedUpdate
  <1>3. /\ TaskOnly(s, m) /\ m.stage = s.stage /\ m.task = [s.task EXCEPT ![t] = w]
    BY DEF Scopes, TaskOnly, RootsKept
  <1>4. s.task[t] \in TaskState /\ s.task \in [Tasks -> TaskState]
    BY DEF Scopes
  <1>5. /\ w.status = s.task[t].status /\ w.completion = s.task[t].completion
        /\ w.evidence = MergeEvidence(s.task[t].evidence, e.attachments)
        /\ w.blocked = s.task[t].blocked
    BY <1>4 DEF TaskState
  <1>6. /\ r.outcome = "APPLIED"
        /\ \/ SafeHoldActive(s, t) /\ n = m
           \/ ~SafeHoldActive(s, t) /\ ConflictingCompletion(s, e) /\ n = DisputeTarget(m, e)
           \/ /\ ~SafeHoldActive(s, t) /\ ~ConflictingCompletion(s, e)
              /\ n = m \/ n = OrdinaryTaskStatus(m, t, "BLOCKED")
    BY DEF SiteProblemReported, Applied, Result
  <1> HIDE DEF m, w, r
  <1>7. m.task[t] = w /\ \A u \in Tasks : u # t => m.task[u] = s.task[u]
    BY <1>3, <1>4
  <1>8. ~Acks(e, r)
    BY DEF Acks
  <1>9. "BLOCKED" \in Halted /\ "DISPUTED" \in Halted /\ "DISPUTED" # "DONE"
    BY DEF Halted
  <1>10. ASSUME TaskOnly(m, n),
                \A u \in Tasks : /\ n.task[u].evidence = m.task[u].evidence
                                 /\ n.task[u].completion = m.task[u].completion
                                 /\ n.task[u].status \in Halted \cup {m.task[u].status},
                \A g \in Stages : n.stage[g] = m.stage[g] \/ n.stage[g].status = "DISPUTED",
                n.task[t].status # "DONE",
                e.stage # None => n.stage[e.stage].status # "DONE" \/ n.task[t].blocked
         PROVE  EventMove(s, e, r)
    <2>1. TaskOnly(s, n)
      BY <1>3, <1>10 DEF TaskOnly, RootsKept
    <2>2. RootsKept(s, n) /\ DaysMove(s, e, r) /\ DirectivesMove(s, e, r)
      BY <1>8, <2>1, TaskOnlyMove
    <2>3. TasksMove(s, e, r)
      BY <1>5, <1>6, <1>7, <1>10 DEF TasksMove
    <2>4. StagesMove(s, e, r)
      BY <1>3, <1>10 DEF StagesMove
    <2>5. Verdict(s, e, r)
      BY <1>10 DEF Verdict
    <2> QED
      BY <2>2, <2>3, <2>4, <2>5 DEF EventMove
  <1>11. SafeHoldActive(s, t) <=> s.task[t].blocked
    BY HoldIsBlock
  <1>12. CASE SafeHoldActive(s, t) /\ n = m
    <2>1. n.task[t].blocked /\ n.task[t].status # "DONE"
      BY <1>5, <1>7, <1>11, <1>12 DEF Guarded, HeldProperly
    <2>2. TaskOnly(m, n)
      BY <1>12 DEF TaskOnly, RootsKept
    <2> QED
      BY <1>10, <1>12, <2>1, <2>2 DEF r
  <1>13. CASE ~SafeHoldActive(s, t) /\ ConflictingCompletion(s, e) /\ n = DisputeTarget(m, e)
    <2>1. /\ TaskOnly(m, n)
          /\ \A u \in Tasks : /\ n.task[u].evidence = m.task[u].evidence
                              /\ n.task[u].completion = m.task[u].completion
                              /\ n.task[u].status = IF u = t THEN "DISPUTED"
                                                    ELSE m.task[u].status
          /\ \A g \in Stages : IF g = e.stage THEN n.stage[g].status = "DISPUTED"
                               ELSE n.stage[g] = m.stage[g]
      BY <1>2, <1>13, DisputeTargetMove
    <2>2. /\ n.task[t].status # "DONE"
          /\ e.stage # None => n.stage[e.stage].status # "DONE"
      BY <2>1
    <2> QED
      BY <1>9, <1>10, <2>1, <2>2 DEF r
  <1>14. CASE /\ ~SafeHoldActive(s, t) /\ ~ConflictingCompletion(s, e)
              /\ n = m \/ n = OrdinaryTaskStatus(m, t, "BLOCKED")
    <2>1. /\ TaskOnly(m, n) /\ n.stage = m.stage
          /\ \A u \in Tasks : /\ n.task[u].evidence = m.task[u].evidence
                              /\ n.task[u].completion = m.task[u].completion
                              /\ n.task[u].status \in Halted \cup {m.task[u].status}
      <3>1. CASE n = m
        BY <3>1 DEF TaskOnly, RootsKept
      <3>2. CASE n = OrdinaryTaskStatus(m, t, "BLOCKED")
        BY <1>2, <1>9, <3>2, OrdinaryStatusMove
      <3> QED
        BY <1>14, <3>1, <3>2
    <2>2. m.task[t].status # "DONE" /\ (e.stage # None => m.stage[e.stage].status # "DONE")
      BY <1>3, <1>5, <1>7, <1>14 DEF ConflictingCompletion
    <2>3. n.task[t].status # "DONE" /\ (e.stage # None => n.stage[e.stage].status # "DONE")
      BY <2>1, <2>2 DEF Halted
    <2> QED
      BY <1>10, <2>1, <2>3 DEF r
  <1> QED
    BY <1>6, <1>12, <1>13, <1>14 DEF r

(* _completion_reported *)
LEMMA CompletionMove ==
    ASSUME NEW R, NEW s \in Scopes(R), NEW e \in FieldEvents, e.task \in Tasks,
           e.stage # None => e.stage \in Stages /\ StageTask[e.stage] = e.task,
           IsStageCompletion(e) => e.stage \in Stages,
           e.type \in CompletionEvents
    PROVE  EventMove(s, e, CompletionReported(s, e))
  <1> DEFINE t == e.task
             m == [s EXCEPT !.task[t].evidence = MergeEvidence(@, e.attachments)]
             w == [s.task[t] EXCEPT !.evidence = MergeEvidence(@, e.attachments)]
             r == CompletionReported(s, e)
             n == r.scope
  <1>1. /\ TaskOnly(s, m) /\ m.stage = s.stage /\ m.task = [s.task EXCEPT ![t] = w]
    BY DEF Scopes, TaskOnly, RootsKept
  <1>2. /\ s.task[t] \in TaskState /\ s.task \in [Tasks -> TaskState]
        /\ s.stage \in [Stages -> StageState]
    BY DEF Scopes
  <1>3. /\ w.status = s.task[t].status /\ w.completion = s.task[t].completion
        /\ w.evidence = MergeEvidence(s.task[t].evidence, e.attachments)
    BY <1>2 DEF TaskState
  <1>4. m \in Scopes(R)
    <2>1. e.attachments \in SUBSET EvidenceItems
      BY DEF EvidenceItems
    <2> QED
      BY <2>1, EvidenceUpdate
  <1>5. /\ e.type # "WORKER_ACKNOWLEDGED" /\ e.type # "COMPLETION_DISPUTED"
        /\ e.type # "SITE_PROBLEM_REPORTED"
    BY DEF CompletionEvents
  <1>6. /\ \A k, o, f, b, c : Result(k, o, f, b, c).scope = k /\ Result(k, o, f, b, c).outcome = o
        /\ \A k, f : Applied(k, f).scope = k /\ Applied(k, f).outcome = "APPLIED"
    BY DEF Result, Applied
  <1>7. \/ n = s
        \/ n = DisputeTarget(s, e)
        \/ n = m /\ r.outcome # "REJECTED"
        \/ n = Complete(m, e) /\ Earned(s, e, r)
    <2>1. \/ \E o, f, b, c : r = Result(s, o, f, b, c)
          \/ CompletionGates(s, e) # {} /\ r = GatedCompletion(s, e)
          \/ \E f, b, c : r = Result(m, "REPORTED", f, b, c)
          \/ /\ r = Applied(Complete(m, e), <<"COMPLETION_ACCEPTED">>)
             /\ CompletionAuthorityErrors(e) = {}
             /\ TaskDef[e.task].completion = ExpectedType[e.type]
             /\ CompletionGates(s, e) = {}
             /\ ~TaskNotCompletable(s, e) /\ ~StageNotCompletable(s, e)
             /\ MissingCompletionRequirements(s, e) = {}
      BY DEF CompletionReported
    <2>2. GatedCompletion(s, e).scope \in {s, DisputeTarget(s, e)}
      BY <1>6 DEF GatedCompletion
    <2> HIDE DEF m, r
    <2>3. CASE \E o, f, b, c : r = Result(s, o, f, b, c)
      BY <1>6, <2>3
    <2>4. CASE \E f, b, c : r = Result(m, "REPORTED", f, b, c)
      BY <1>6, <2>4
    <2>5. CASE r = GatedCompletion(s, e)
      BY <2>2, <2>5
    <2>6. CASE /\ r = Applied(Complete(m, e), <<"COMPLETION_ACCEPTED">>)
               /\ CompletionAuthorityErrors(e) = {}
               /\ TaskDef[e.task].completion = ExpectedType[e.type]
               /\ CompletionGates(s, e) = {}
               /\ ~TaskNotCompletable(s, e) /\ ~StageNotCompletable(s, e)
               /\ MissingCompletionRequirements(s, e) = {}
      <3>1. n = Complete(m, e) /\ r.outcome = "APPLIED"
        BY <1>6, <2>6
      <3> QED
        BY <2>6, <3>1 DEF Earned
    <2> QED
      BY <2>1, <2>3, <2>4, <2>5, <2>6
  <1> HIDE DEF m, w, r
  <1>8. m.task[t] = w /\ \A u \in Tasks : u # t => m.task[u] = s.task[u]
    BY <1>1, <1>2
  <1>9. ASSUME TaskOnly(s, n), TasksMove(s, e, r), StagesMove(s, e, r)
        PROVE  EventMove(s, e, r)
    <2>1. ~Acks(e, r) /\ Verdict(s, e, r)
      BY <1>5 DEF Acks, Verdict
    <2> QED
      BY <1>9, <2>1, TaskOnlyMove DEF EventMove
  <1>10. CASE n = s
    <2>1. TaskOnly(s, n) /\ TasksMove(s, e, r) /\ StagesMove(s, e, r)
      BY <1>10 DEF TaskOnly, RootsKept, TasksMove, StagesMove
    <2> QED
      BY <1>9, <2>1 DEF r
  <1>11. CASE n = DisputeTarget(s, e)
    <2>1. /\ TaskOnly(s, n)
          /\ \A u \in Tasks : /\ n.task[u].evidence = s.task[u].evidence
                              /\ n.task[u].completion = s.task[u].completion
                              /\ n.task[u].status = IF u = t THEN "DISPUTED"
                                                    ELSE s.task[u].status
          /\ \A g \in Stages : IF g = e.stage THEN n.stage[g].status = "DISPUTED"
                               ELSE n.stage[g] = s.stage[g]
      BY <1>11, DisputeTargetMove
    <2>2. TasksMove(s, e, r) /\ StagesMove(s, e, r)
      BY <2>1 DEF TasksMove, StagesMove, Halted
    <2> QED
      BY <1>9, <2>1, <2>2 DEF r
  <1>12. CASE n = m /\ r.outcome # "REJECTED"
    <2>1. TasksMove(s, e, r) /\ StagesMove(s, e, r)
      BY <1>1, <1>3, <1>8, <1>12 DEF TasksMove, StagesMove
    <2> QED
      BY <1>1, <1>9, <1>12, <2>1 DEF r
  <1>13. CASE n = Complete(m, e) /\ Earned(s, e, r) /\ IsStageCompletion(e)
    <2> DEFINE k == [m EXCEPT !.stage[e.stage].status = "DONE",
                              !.stage[e.stage].completion = e.id]
               v == [m.stage[e.stage] EXCEPT !.status = "DONE", !.completion = e.id]
    <2>1. /\ TaskOnly(m, k) /\ k.task = m.task /\ k.stage = [m.stage EXCEPT ![e.stage] = v]
      BY <1>4 DEF Scopes, TaskOnly, RootsKept
    <2>2. n = k
      BY <1>13 DEF Complete
    <2>3. m.stage[e.stage] \in StageState
      BY <1>1, <1>2, <1>13
    <2>4. v.status = "DONE" /\ v.completion = e.id
      BY <2>3 DEF StageState
    <2> HIDE DEF k, v
    <2>5. n.stage[e.stage] = v /\ \A g \in Stages : g # e.stage => n.stage[g] = s.stage[g]
      BY <1>1, <1>2, <1>13, <2>1, <2>2
    <2>6. TaskOnly(s, n)
      BY <1>1, <2>1, <2>2 DEF TaskOnly, RootsKept
    <2>7. TasksMove(s, e, r)
      BY <1>3, <1>8, <1>13, <2>1, <2>2 DEF TasksMove, Earned
    <2>8. StagesMove(s, e, r)
      BY <1>13, <2>4, <2>5 DEF StagesMove
    <2> QED
      BY <1>9, <2>6, <2>7, <2>8 DEF r
  <1>14. CASE n = Complete(m, e) /\ Earned(s, e, r) /\ ~IsStageCompletion(e)
    <2> DEFINE k == [m EXCEPT !.task[t].status = "DONE", !.task[t].completion = e.id]
               v == [m.task[t] EXCEPT !.status = "DONE", !.completion = e.id]
    <2>1. /\ TaskOnly(m, k) /\ k.stage = m.stage /\ k.task = [m.task EXCEPT ![t] = v]
      BY <1>4 DEF Scopes, TaskOnly, RootsKept
    <2>2. n = k
      BY <1>14 DEF Complete
    <2>3. m.task[t] \in TaskState /\ m.task \in [Tasks -> TaskState]
      BY <1>4 DEF Scopes
    <2>4. v.status = "DONE" /\ v.completion = e.id /\ v.evidence = m.task[t].evidence
      BY <2>3 DEF TaskState
    <2> HIDE DEF k, v
    <2>5. n.task[t] = v /\ \A u \in Tasks : u # t => n.task[u] = s.task[u]
      BY <1>8, <2>1, <2>2, <2>3
    <2>6. TaskOnly(s, n)
      BY <1>1, <2>1, <2>2 DEF TaskOnly, RootsKept
    <2>7. TasksMove(s, e, r)
      BY <1>3, <1>8, <1>14, <2>4, <2>5 DEF TasksMove, Earned
    <2>8. StagesMove(s, e, r)
      BY <1>1, <2>1, <2>2 DEF StagesMove
    <2> QED
      BY <1>9, <2>6, <2>7, <2>8 DEF r
  <1> QED
    BY <1>7, <1>10, <1>11, <1>12, <1>13, <1>14

(* _completion_disputed *)
LEMMA DisputedMove ==
    ASSUME NEW R, NEW s \in Scopes(R), NEW e, e.task \in Tasks,
           e.stage # None => e.stage \in Stages /\ StageTask[e.stage] = e.task,
           Guarded(s), StagesFree(s), e.type = "COMPLETION_DISPUTED"
    PROVE  EventMove(s, e, CompletionDisputed(s, e))
  <1> DEFINE t == e.task
             r == CompletionDisputed(s, e)
             n == r.scope
             onStage == [s EXCEPT !.stage[e.stage].status = "DISPUTED"]
             onTask == [s EXCEPT !.task[t].status = "DISPUTED"]
             w == [s.task[t] EXCEPT !.status = "DISPUTED"]
             v == [s.stage[e.stage] EXCEPT !.status = "DISPUTED"]
  <1>1. DisputeSuspended(s, e) => s.task[t].blocked /\ s.task[t].status = "SAFE_HOLD"
    BY DEF DisputeSuspended, StagesFree, Guarded, HeldProperly
  <1>2. \/ n = s /\ r.outcome # "APPLIED"
        \/ n = s /\ DisputeSuspended(s, e)
        \/ n = onStage /\ e.stage # None
        \/ n = onTask /\ e.stage = None
    BY DEF CompletionDisputed, Refuse, Applied, Result
  <1>3. /\ TaskOnly(s, onStage) /\ onStage.task = s.task
        /\ onStage.stage = [s.stage EXCEPT ![e.stage] = v]
    BY DEF Scopes, TaskOnly, RootsKept
  <1>4. /\ TaskOnly(s, onTask) /\ onTask.stage = s.stage
        /\ onTask.task = [s.task EXCEPT ![t] = w]
    BY DEF Scopes, TaskOnly, RootsKept
  <1>5. /\ s.task[t] \in TaskState /\ s.task \in [Tasks -> TaskState]
        /\ s.stage \in [Stages -> StageState]
    BY DEF Scopes
  <1>6. /\ w.status = "DISPUTED" /\ w.evidence = s.task[t].evidence
        /\ w.completion = s.task[t].completion /\ "DISPUTED" \in Halted
        /\ "SAFE_HOLD" \in Halted
    BY <1>5 DEF TaskState, Halted
  <1>7. e.stage # None => v.status = "DISPUTED"
    BY <1>5 DEF StageState
  <1> HIDE DEF r, onStage, onTask, w, v
  <1>8. ASSUME TaskOnly(s, n), TasksMove(s, e, r), StagesMove(s, e, r), Verdict(s, e, r)
        PROVE  EventMove(s, e, r)
    <2>1. ~Acks(e, r)
      BY DEF Acks
    <2> QED
      BY <1>8, <2>1, TaskOnlyMove DEF EventMove
  <1>9. CASE n = s /\ (r.outcome # "APPLIED" \/ DisputeSuspended(s, e))
    <2>1. TaskOnly(s, n) /\ TasksMove(s, e, r) /\ StagesMove(s, e, r)
      BY <1>9 DEF TaskOnly, RootsKept, TasksMove, StagesMove
    <2>2. Verdict(s, e, r)
      BY <1>1, <1>6, <1>9 DEF Verdict
    <2> QED
      BY <1>8, <2>1, <2>2 DEF r
  <1>10. CASE n = onStage /\ e.stage # None
    <2>1. n.stage[e.stage] = v /\ \A g \in Stages : g # e.stage => n.stage[g] = s.stage[g]
      BY <1>3, <1>5, <1>10
    <2>2. TasksMove(s, e, r) /\ StagesMove(s, e, r)
      BY <1>3, <1>7, <1>10, <2>1 DEF TasksMove, StagesMove
    <2>3. Verdict(s, e, r)
      BY <1>7, <1>10, <2>1 DEF Verdict
    <2> QED
      BY <1>3, <1>8, <1>10, <2>2, <2>3 DEF r
  <1>11. CASE n = onTask /\ e.stage = None
    <2>1. n.task[t] = w /\ \A u \in Tasks : u # t => n.task[u] = s.task[u]
      BY <1>4, <1>5, <1>11
    <2>2. TasksMove(s, e, r) /\ StagesMove(s, e, r)
      BY <1>4, <1>6, <1>11, <2>1 DEF TasksMove, StagesMove
    <2>3. Verdict(s, e, r)
      BY <1>6, <1>11, <2>1 DEF Verdict
    <2> QED
      BY <1>4, <1>8, <1>11, <2>2, <2>3 DEF r
  <1> QED
    BY <1>2, <1>9, <1>10, <1>11

(* The dispatch of _reduce_field_event, by event type. *)
LEMMA HandleEventMove ==
    ASSUME NEW R, NEW s \in Scopes(R), NEW e \in FieldEvents, NEW c,
           ReferenceErrors(s, e) = {}, Guarded(s), StagesFree(s)
    PROVE  EventMove(s, e, HandleEvent(s, e, c))
  <1>1. e.type \in FieldEventType
    BY InputAssumption DEF InputAssumption
  <1>2. CASE e.type \in CompletionEvents
    <2>1. /\ e.task \in Tasks
          /\ e.stage # None => e.stage \in Stages /\ StageTask[e.stage] = e.task
          /\ IsStageCompletion(e) => e.stage \in Stages
      BY <1>2, CheckedReferences DEF TaskAssignmentEvents, IsStageCompletion
    <2>2. HandleEvent(s, e, c) = CompletionReported(s, e)
      BY <1>2 DEF HandleEvent, CompletionEvents
    <2> QED
      BY <1>2, <2>1, <2>2, CompletionMove
  <1>3. CASE e.type \in {"DAY_PLAN_ACTIVATED", "UNAVAILABLE_TODAY_REPORTED", "DAY_CLOSE_REPORTED"}
    <2>1. e.day \in PlanDays
      BY <1>3, CheckedReferences DEF PlanEvents
    <2> QED
      BY <1>3, <2>1, DayHandlersMove DEF HandleEvent, CompletionEvents
  <1>4. CASE e.type \in {"START_DELAY_REPORTED", "START_EXCEPTION_REPORTED", "SCOPE_FACT_REPORTED"}
    <2>1. HandleEvent(s, e, c).scope = s
      BY <1>4 DEF HandleEvent, CompletionEvents, StartDelayReported, StartExceptionReported,
                  ScopeFactReported, Refuse, Result
    <2> QED
      BY <1>4, <2>1, StillMove
  <1>5. CASE e.type = "WORK_START_BLOCKED"
    BY <1>5, CheckedReferences, WorkStartBlockedMove DEF HandleEvent, TaskAssignmentEvents, CompletionEvents
  <1>6. CASE e.type = "RESOURCE_MISSING_REPORTED"
    BY <1>6, CheckedReferences, ResourceMissingMove DEF HandleEvent, CompletionEvents
  <1>7. CASE e.type = "SITE_PROBLEM_REPORTED"
    BY <1>7, CheckedReferences, SiteProblemMove DEF HandleEvent, TaskAssignmentEvents, CompletionEvents
  <1>8. CASE e.type = "TECHNICAL_WAIT_REPORTED"
    BY <1>8, CheckedReferences, TechnicalWaitMove DEF HandleEvent, TaskAssignmentEvents, CompletionEvents
  <1>9. CASE e.type = "COMPLETION_DISPUTED"
    BY <1>9, CheckedReferences, DisputedMove DEF HandleEvent, TaskAssignmentEvents, CompletionEvents
  <1>10. CASE e.type = "WORKER_ACKNOWLEDGED"
    BY <1>10, CheckedReferences, AcknowledgedMove DEF HandleEvent, CompletionEvents
  <1>11. CASE e.type = "WORKER_ACTION_EXCEPTION"
    BY <1>11, CheckedReferences, ActionExceptionMove DEF HandleEvent, CompletionEvents
  <1> QED
    BY <1>1, <1>2, <1>3, <1>4, <1>5, <1>6, <1>7, <1>8, <1>9, <1>10, <1>11 DEF FieldEventType

-----------------------------------------------------------------------------
(* What a signal does.  r is the result of its handler. *)

Escalations == {"ACK_MISSING_ESCALATED", "STOP_UNCONFIRMED"}

(* A signal closes a day that was reported closed, and escalates a         *)
(* directive that was not escalated; the rest of M2 does not notice it.    *)
SignalMove(s, g, r) ==
    /\ RootsKept(s, r.scope) /\ r.scope.task = s.task /\ r.scope.stage = s.stage
    /\ \A d \in PlanDays :
          LET v == s.day[d]  w == r.scope.day[d] IN
          /\ w.confirmed = v.confirmed /\ w.closeReported = v.closeReported
          /\ \/ w.status = v.status /\ w.available = v.available
             \/ w.status = "DAY_CLOSED" /\ ~w.available /\ v.closeReported
    /\ \A x \in Directives :
          LET v == s.dir[x]  w == r.scope.dir[x] IN
          /\ w.delivery = v.delivery /\ w.acked = v.acked /\ w.stopInForce = v.stopInForce
          /\ v.escalated => w.escalated
    /\ \/ \A k \in 1..Len(r.effects) : r.effects[k] \notin Escalations
       \/ /\ Len(r.effects) = 1 /\ g.dir \in Directives
          /\ ~s.dir[g.dir].escalated /\ r.scope.dir[g.dir].escalated

LEMMA StillSignal ==
    ASSUME NEW s, NEW g, NEW r, r.scope = s,
           \A k \in 1..Len(r.effects) : r.effects[k] \notin Escalations
    PROVE  SignalMove(s, g, r)
  BY DEF SignalMove, RootsKept

(* _reduce_system_signal *)
LEMMA HandleSignalMove ==
    ASSUME NEW R, NEW s \in Scopes(R), NEW g \in Signals, NEW c
    PROVE  SignalMove(s, g, HandleSignal(s, g, c))
  <1> DEFINE d == g.day
             x == g.dir
  <1>1. g.type \in SystemSignalType
    BY InputAssumption DEF InputAssumption
  <1>0. ASSUME NEW o, NEW m, NEW reasons
        PROVE  SignalMove(s, g, Result(s, o, <<>>, m, reasons))
    <2> DEFINE r == Result(s, o, <<>>, m, reasons)
    <2>1. r.scope = s /\ r.effects = <<>>
      BY DEF Result
    <2>2. Len(r.effects) = 0
      BY <2>1
    <2>3. \A k \in 1..Len(r.effects) : r.effects[k] \notin Escalations
      BY <2>2
    <2> HIDE DEF r
    <2>4. SignalMove(s, g, r)
      BY <2>1, <2>3, StillSignal
    <2> QED
      BY <2>4 DEF r
  <1>2. SignalMove(s, g, Noop(s)) /\ \A code : SignalMove(s, g, Refuse(s, code))
    BY <1>0 DEF Noop, Refuse
  <1>3. SignalMove(s, g, StartWindowElapsed(s, g, c))
    <2> DEFINE n == [s EXCEPT !.day[d].startEscalated = TRUE]
               w == [s.day[d] EXCEPT !.startEscalated = TRUE]
               r == Applied(n, <<"START_UNKNOWN_ESCALATED">>)
    <2>1. /\ RootsKept(s, n) /\ n.task = s.task /\ n.stage = s.stage /\ n.dir = s.dir
          /\ n.day = [s.day EXCEPT ![d] = w]
      BY DEF Scopes, RootsKept
    <2>2. r.scope = n /\ r.effects = <<"START_UNKNOWN_ESCALATED">>
      BY DEF Applied, Result
    <2>3. \A k \in 1..Len(r.effects) : r.effects[k] \notin Escalations
      BY <2>2 DEF Escalations
    <2>4. StartWindowElapsed(s, g, c) = r \/ StartWindowElapsed(s, g, c) = Noop(s)
          \/ \E code : StartWindowElapsed(s, g, c) = Refuse(s, code)
      BY DEF StartWindowElapsed
    <2>5. d \in PlanDays => /\ w.status = s.day[d].status /\ w.available = s.day[d].available
                            /\ w.closeReported = s.day[d].closeReported
                            /\ w.confirmed = s.day[d].confirmed
      BY ScopeParts DEF DayState
    <2> HIDE DEF n, w, r
    <2>6. \A y \in PlanDays : n.day[y] = s.day[y] \/ (y = d /\ n.day[y] = w)
      BY <2>1 DEF Scopes
    <2>7. SignalMove(s, g, r)
      BY <2>1, <2>2, <2>3, <2>5, <2>6 DEF SignalMove
    <2> QED
      BY <1>2, <2>4, <2>7
  <1>4. SignalMove(s, g, DirectiveE1Elapsed(s, g, c))
    <2> DEFINE n == [s EXCEPT !.dir[x].escalated = TRUE]
               w == [s.dir[x] EXCEPT !.escalated = TRUE]
    <2>1. /\ RootsKept(s, n) /\ n.task = s.task /\ n.stage = s.stage /\ n.day = s.day
          /\ n.dir = [s.dir EXCEPT ![x] = w]
      BY DEF Scopes, RootsKept
    <2>2. \/ DirectiveE1Elapsed(s, g, c) = Noop(s)
          \/ \E code : DirectiveE1Elapsed(s, g, c) = Refuse(s, code)
          \/ DirectiveE1Elapsed(s, g, c) = Result(s, "REJECTED", <<>>, {}, SignalScopeErrors(s, g))
          \/ /\ x \in s.dirs /\ ~s.dir[x].escalated
             /\ \E f : DirectiveE1Elapsed(s, g, c) = Applied(n, <<f>>)
      BY DEF DirectiveE1Elapsed, HasDirective, E1NotDue
    <2>3. SignalMove(s, g, Result(s, "REJECTED", <<>>, {}, SignalScopeErrors(s, g)))
      BY <1>0
    <2>4. x \in Directives => /\ w.delivery = s.dir[x].delivery /\ w.acked = s.dir[x].acked
                              /\ w.stopInForce = s.dir[x].stopInForce /\ w.escalated = TRUE
      BY ScopeParts DEF DirState
    <2> HIDE DEF n, w
    <2>5. ASSUME NEW f, x \in s.dirs, ~s.dir[x].escalated
          PROVE  SignalMove(s, g, Applied(n, <<f>>))
      <3> DEFINE r == Applied(n, <<f>>)
      <3>1. r.scope = n /\ r.effects = <<f>>
        BY DEF Applied, Result
      <3>2. x \in Directives
        BY <2>5, ScopeParts
      <3>3. n.dir[x] = w /\ \A y \in Directives : y # x => n.dir[y] = s.dir[y]
        BY <2>1, <3>2 DEF Scopes
      <3> HIDE DEF r
      <3>4. SignalMove(s, g, r)
        BY <2>1, <2>4, <2>5, <3>1, <3>2, <3>3 DEF SignalMove
      <3> QED
        BY <3>4 DEF r
    <2> QED
      BY <1>2, <2>2, <2>3, <2>5
  <1>5. SignalMove(s, g, EarlyFinishEvaluated(s, g, c))
    <2>1. SignalMove(s, g, Applied(s, <<"EARLY_FINISH_SOFT_OPTIONS">>))
      BY StillSignal DEF Applied, Result, Escalations
    <2> QED
      BY <1>2, <2>1 DEF EarlyFinishEvaluated
  <1>6. SignalMove(s, g, EndOfDayPolicySatisfied(s, g, c))
    <2> DEFINE w == [s.day[d] EXCEPT !.status = "DAY_CLOSED", !.available = FALSE]
               n == [s EXCEPT !.day[d] = w]
               r == Applied(n, <<"DAY_CLOSED">>)
    <2>1. /\ RootsKept(s, n) /\ n.task = s.task /\ n.stage = s.stage /\ n.dir = s.dir
          /\ n.day = [s.day EXCEPT ![d] = w]
      BY DEF Scopes, RootsKept
    <2>2. r.scope = n /\ r.effects = <<"DAY_CLOSED">>
      BY DEF Applied, Result
    <2>3. \A k \in 1..Len(r.effects) : r.effects[k] \notin Escalations
      BY <2>2 DEF Escalations
    <2>4. \/ EndOfDayPolicySatisfied(s, g, c) = Noop(s)
          \/ \E code : EndOfDayPolicySatisfied(s, g, c) = Refuse(s, code)
          \/ EndOfDayPolicySatisfied(s, g, c) = r /\ s.day[d].closeReported
      BY DEF EndOfDayPolicySatisfied
    <2>5. d \in PlanDays => /\ w.status = "DAY_CLOSED" /\ w.available = FALSE
                            /\ w.closeReported = s.day[d].closeReported
                            /\ w.confirmed = s.day[d].confirmed
      BY ScopeParts DEF DayState
    <2> HIDE DEF n, w, r
    <2>6. \A y \in PlanDays : n.day[y] = s.day[y] \/ (y = d /\ n.day[y] = w)
      BY <2>1 DEF Scopes
    <2>7. s.day[d].closeReported => SignalMove(s, g, r)
      BY <2>1, <2>2, <2>3, <2>5, <2>6 DEF SignalMove
    <2> QED
      BY <1>2, <2>4, <2>7
  <1> QED
    BY <1>1, <1>2, <1>3, <1>4, <1>5, <1>6 DEF HandleSignal, SystemSignalType

-----------------------------------------------------------------------------
(* What a whole reduction does. *)

(* The scopes m and n differ in revisions and in the ledger at most. *)
SameButRevs(m, n) ==
    /\ RootsKept(m, n) /\ n.task = m.task /\ n.stage = m.stage
    /\ \A d \in PlanDays :
          /\ n.day[d].status = m.day[d].status
          /\ n.day[d].available = m.day[d].available
          /\ n.day[d].closeReported = m.day[d].closeReported
          /\ n.day[d].confirmed = m.day[d].confirmed
    /\ \A x \in Directives :
          /\ n.dir[x].delivery = m.dir[x].delivery
          /\ n.dir[x].acked = m.dir[x].acked
          /\ n.dir[x].escalated = m.dir[x].escalated
          /\ n.dir[x].stopInForce = m.dir[x].stopInForce

(* The event was handled, or it left no more than a receipt that applied   *)
(* nothing.                                                                *)
Handled(s, i, r) ==
    /\ ReferenceErrors(s, i.event) = {}
    /\ EventMove(s, i.event, r)
    /\ \E q : r.receipts = {q} /\ q.event = i.event /\ q.outcome = r.outcome

Quiet(s, i, r) ==
    /\ SameButRevs(s, r.scope)
    /\ \A q \in r.receipts : q.event = i.event /\ q.outcome # "APPLIED"

(* Moves do not speak of revisions. *)
LEMMA MoveUpToRevs ==
    ASSUME NEW s, NEW e, NEW r, NEW p, EventMove(s, e, r),
           SameButRevs(r.scope, p.scope), p.outcome = r.outcome
    PROVE  EventMove(s, e, p)
  <1>1. RootsKept(s, p.scope) /\ DaysMove(s, e, p)
    BY DEF EventMove, RootsKept, SameButRevs, DaysMove
  <1>2. DirectivesMove(s, e, p)
    BY DEF EventMove, SameButRevs, DirectivesMove, Acks
  <1>3. Earned(s, e, p) <=> Earned(s, e, r)
    BY DEF Earned
  <1>4. TasksMove(s, e, p) /\ StagesMove(s, e, p) /\ Verdict(s, e, p)
    BY <1>3 DEF EventMove, SameButRevs, TasksMove, StagesMove, Verdict
  <1> QED
    BY <1>1, <1>2, <1>4 DEF EventMove

(* _finalize_reduction advances revisions and nothing else. *)
LEMMA FinalizeSame ==
    ASSUME NEW R, NEW s, NEW m \in Scopes(R)
    PROVE  SameButRevs(m, FinalizeScope(s, m))
  <1> DEFINE day == [d \in PlanDays |-> IF m.day[d] # s.day[d]
                                        THEN [m.day[d] EXCEPT !.rev = @ + 1] ELSE m.day[d]]
             dir == [x \in Directives |-> IF m.dir[x] # s.dir[x]
                                          THEN [m.dir[x] EXCEPT !.rev = @ + 1] ELSE m.dir[x]]
             n == FinalizeScope(s, m)
  <1>1. /\ RootsKept(m, n) /\ n.task = m.task /\ n.stage = m.stage
        /\ n.day = day /\ n.dir = dir
    BY DEF FinalizeScope, Scopes, RootsKept
  <1>2. \A d \in PlanDays : m.day[d] \in DayState
    BY ScopeParts
  <1>3. \A d \in PlanDays : /\ day[d].status = m.day[d].status
                            /\ day[d].available = m.day[d].available
                            /\ day[d].closeReported = m.day[d].closeReported
                            /\ day[d].confirmed = m.day[d].confirmed
    BY <1>2 DEF DayState
  <1>4. \A x \in Directives : m.dir[x] \in DirState
    BY ScopeParts
  <1>5. \A x \in Directives : /\ dir[x].delivery = m.dir[x].delivery
                              /\ dir[x].acked = m.dir[x].acked
                              /\ dir[x].escalated = m.dir[x].escalated
                              /\ dir[x].stopInForce = m.dir[x].stopInForce
    BY <1>4 DEF DirState
  <1> HIDE DEF day, dir, n
  <1>6. SameButRevs(m, n)
    BY <1>1, <1>3, <1>5 DEF SameButRevs
  <1> QED
    BY <1>6 DEF n

(* The scope of a reduction, with or without a receipt. *)
LEMMA ReductionSame ==
    ASSUME NEW R, NEW r, r.scope \in Scopes(R), NEW receipts, NEW replayed
    PROVE  LET p == Reduction(r, receipts, replayed) IN
           /\ SameButRevs(r.scope, p.scope) /\ p.outcome = r.outcome
           /\ p.receipts = receipts /\ p.scope \in Scopes(R \cup receipts)
           /\ p.emitted = IF replayed THEN <<>> ELSE r.effects
  <1> DEFINE n == [r.scope EXCEPT !.receipts = @ \cup receipts]
  <1>1. SameButRevs(r.scope, n) /\ n \in Scopes(R \cup receipts)
    BY DEF Scopes, SameButRevs, RootsKept
  <1> HIDE DEF n
  <1> QED
    BY <1>1 DEF Reduction, n

(* A reduction that is no replay. *)
Fresh(r, receipts) == Reduction(r, receipts, FALSE)

Reports(R, r, receipts, p) ==
    /\ SameButRevs(r.scope, p.scope) /\ p.outcome = r.outcome
    /\ p.receipts = receipts /\ p.scope \in Scopes(R \cup receipts)
    /\ p.emitted = r.effects

LEMMA FreshSame ==
    ASSUME NEW R, NEW r, NEW receipts, r.scope \in Scopes(R)
    PROVE  Reports(R, r, receipts, Fresh(r, receipts))
  <1> DEFINE n == [r.scope EXCEPT !.receipts = @ \cup receipts]
             p == Fresh(r, receipts)
  <1>1. SameButRevs(r.scope, n) /\ n \in Scopes(R \cup receipts)
    BY DEF Scopes, SameButRevs, RootsKept
  <1>2. /\ p.scope = n /\ p.outcome = r.outcome /\ p.receipts = receipts
        /\ p.emitted = r.effects
    BY DEF Fresh, Reduction
  <1> HIDE DEF n, p
  <1>3. Reports(R, r, receipts, p)
    BY <1>1, <1>2 DEF Reports
  <1> QED
    BY <1>3 DEF p

(* _reduce_field_event: replay, collision and rejection are quiet, what is *)
(* left is handled.                                                        *)
LEMMA ReduceFieldEventMove ==
    ASSUME NEW R, NEW s \in Scopes(R), NEW i \in FieldInputs, NEW c,
           Guarded(s), StagesFree(s)
    PROVE  LET r == ReduceFieldEvent(s, i, c) IN Handled(s, i, r) \/ Quiet(s, i, r)
  <1> DEFINE r == ReduceFieldEvent(s, i, c)
  <1>1. ASSUME NEW o, NEW f, NEW m, NEW reasons, NEW replayed
        PROVE  Quiet(s, i, Reduction(Result(s, o, f, m, reasons), {}, replayed))
    <2> DEFINE v == Result(s, o, f, m, reasons)
               p == Reduction(v, {}, replayed)
    <2>1. v.scope = s
      BY DEF Result
    <2> HIDE DEF v
    <2>2. SameButRevs(s, p.scope) /\ p.receipts = {}
      BY <2>1, ReductionSame
    <2> HIDE DEF p
    <2>3. Quiet(s, i, p)
      BY <2>2 DEF Quiet
    <2> QED
      BY <2>3 DEF p, v
  <1>2. ASSUME NEW f, NEW reasons
        PROVE  Quiet(s, i, FinishEvent(Result(s, "REJECTED", f, {}, reasons), i))
    <2> DEFINE v == Result(s, "REJECTED", f, {}, reasons)
               q == [event |-> i.event, sid |-> i.sid, outcome |-> v.outcome,
                     response |-> v.effects, missing |-> v.missing, reasons |-> v.reasons]
               rs == {q}
               p == Fresh(v, rs)
    <2>1. v.scope = s /\ v.outcome = "REJECTED"
      BY DEF Result
    <2> HIDE DEF v
    <2>2. q.event = i.event /\ q.outcome # "APPLIED"
      BY <2>1
    <2>3. FinishEvent(v, i) = p
      BY DEF FinishEvent, Fresh
    <2> HIDE DEF q, rs
    <2>a. v.scope \in Scopes(R)
      BY <2>1
    <2>b. Reports(R, v, rs, p)
      BY <2>a, FreshSame
    <2> HIDE DEF p
    <2>4. SameButRevs(s, p.scope) /\ p.receipts = rs
      BY <2>1, <2>b DEF Reports
    <2>5. Quiet(s, i, p)
      BY <2>2, <2>4 DEF Quiet, rs
    <2> QED
      BY <2>3, <2>5 DEF v
  <1>3. ASSUME ReferenceErrors(s, i.event) = {}
        PROVE  Handled(s, i, FinishEvent(HandleEvent(s, i.event, c), i))
    <2> DEFINE v == HandleEvent(s, i.event, c)
               q == [event |-> i.event, sid |-> i.sid, outcome |-> v.outcome,
                     response |-> v.effects, missing |-> v.missing, reasons |-> v.reasons]
               rs == {q}
               p == Fresh(v, rs)
    <2>1. i.event \in FieldEvents
      BY DEF FieldEvents
    <2>2. EventMove(s, i.event, v) /\ GoodResult(R, s, v)
      BY <1>3, <2>1, HandleEventMove, HandleEventGood
    <2>3. FinishEvent(v, i) = p
      BY DEF FinishEvent, Fresh
    <2> HIDE DEF v
    <2>4. q.event = i.event /\ q.outcome = v.outcome
      OBVIOUS
    <2> HIDE DEF q, rs
    <2>5. v.scope \in Scopes(R)
      BY <2>2 DEF GoodResult
    <2>a. Reports(R, v, rs, p)
      BY <2>5, FreshSame
    <2> HIDE DEF p
    <2>6. SameButRevs(v.scope, p.scope) /\ p.outcome = v.outcome /\ p.receipts = rs
      BY <2>a DEF Reports
    <2>7. EventMove(s, i.event, p)
      BY <2>2, <2>6, MoveUpToRevs
    <2>8. Handled(s, i, p)
      BY <1>3, <2>4, <2>6, <2>7 DEF Handled, rs
    <2> QED
      BY <2>3, <2>8 DEF v
  <1> HIDE DEF r
  <1>4. \/ \E o, f, m, reasons, replayed : r = Reduction(Result(s, o, f, m, reasons), {}, replayed)
        \/ \E f, reasons : r = FinishEvent(Result(s, "REJECTED", f, {}, reasons), i)
        \/ /\ ReferenceErrors(s, i.event) = {}
           /\ r = FinishEvent(HandleEvent(s, i.event, c), i)
    BY DEF r, ReduceFieldEvent, Replay, RejectEvent, Refuse
  <1> QED
    BY <1>1, <1>2, <1>3, <1>4 DEF r

(* reduce *)
LEMMA ReduceMove ==
    ASSUME NEW R, NEW s \in Scopes(R), \A q \in R : ReceiptType(q),
           NEW i \in FieldInputs, NEW c, Guarded(s), StagesFree(s)
    PROVE  LET r == Reduce(s, i, c) IN Handled(s, i, r) \/ Quiet(s, i, r)
  <1> DEFINE p == RawReduction(s, i, c)
             r == Reduce(s, i, c)
  <1>1. i.kind = "FIELD_EVENT"
    BY InputAssumption DEF InputAssumption
  <1>2. Handled(s, i, p) \/ Quiet(s, i, p)
    <2>1. Handled(s, i, ReduceFieldEvent(s, i, c)) \/ Quiet(s, i, ReduceFieldEvent(s, i, c))
      BY ReduceFieldEventMove
    <2> DEFINE v == Refuse(s, "UNSUPPORTED_RULE_VERSION")
               k == Fresh(v, {})
    <2>2. v.scope = s
      BY DEF Refuse, Result
    <2>3. p = k \/ p = ReduceFieldEvent(s, i, c)
      BY <1>1 DEF RawReduction, Fresh
    <2> HIDE DEF v
    <2>a. v.scope \in Scopes(R)
      BY <2>2
    <2>b. Reports(R, v, {}, k)
      BY <2>a, FreshSame
    <2> HIDE DEF k, p
    <2>4. SameButRevs(s, k.scope) /\ k.receipts = {}
      BY <2>2, <2>b DEF Reports
    <2>5. Quiet(s, i, k)
      BY <2>4 DEF Quiet
    <2> QED
      BY <2>1, <2>3, <2>5
  <1>3. p.scope \in Scopes(R \cup p.receipts)
    <2>1. GoodReduction(R, s, ReduceFieldEvent(s, i, c))
      BY ReduceFieldEventGood
    <2>2. GoodReduction(R, s, Reduction(Refuse(s, "UNSUPPORTED_RULE_VERSION"), {}, FALSE))
      BY RefuseGood, ReductionGood
    <2> QED
      BY <1>1, <2>1, <2>2 DEF RawReduction, GoodReduction
  <1>4. DOMAIN p = {"scope", "outcome", "emitted", "response", "missing", "reasons",
                    "receipts", "replayed"}
    BY DEF RawReduction, ReduceFieldEvent, Replay, RejectEvent, FinishEvent, Reduction
  <1> HIDE DEF p
  <1>5. r.scope = FinalizeScope(s, p.scope) /\ r.outcome = p.outcome /\ r.receipts = p.receipts
    BY <1>4 DEF Reduce, p
  <1> HIDE DEF r
  <1>6. SameButRevs(p.scope, r.scope)
    BY <1>3, <1>5, FinalizeSame
  <1>7. ASSUME Handled(s, i, p) PROVE Handled(s, i, r)
    <2>1. EventMove(s, i.event, r)
      BY <1>5, <1>6, <1>7, MoveUpToRevs DEF Handled
    <2> QED
      BY <1>5, <1>7, <2>1 DEF Handled
  <1>8. ASSUME Quiet(s, i, p) PROVE Quiet(s, i, r)
    <2>1. SameButRevs(s, r.scope)
      BY <1>6, <1>8 DEF Quiet, SameButRevs, RootsKept
    <2> QED
      BY <1>5, <1>8, <2>1 DEF Quiet
  <1> QED
    BY <1>2, <1>7, <1>8 DEF r

(* _normalize_reduction_for_durability adds a rejection at most. *)
LEMMA NormalizeMove ==
    ASSUME NEW R, NEW s, NEW i, NEW r, r.scope \in Scopes(R),
           Handled(s, i, r) \/ Quiet(s, i, r)
    PROVE  LET n == NormalizeReduction(i, r) IN Handled(s, i, n) \/ Quiet(s, i, n)
  <1> DEFINE v == Refuse(r.scope, "UNSUPPORTED_RULE_VERSION")
             q == [event |-> i.event, sid |-> i.sid, outcome |-> v.outcome,
                   response |-> v.effects, missing |-> v.missing, reasons |-> v.reasons]
             rs == {q}
             p == Fresh(v, rs)
             n == NormalizeReduction(i, r)
  <1>1. n = r \/ (r.receipts = {} /\ n = p)
    BY DEF NormalizeReduction, FinishEvent, Fresh
  <1>2. v.scope = r.scope /\ v.outcome = "REJECTED"
    BY DEF Refuse, Result
  <1> HIDE DEF v, n
  <1>3. q.event = i.event /\ q.outcome # "APPLIED"
    BY <1>2
  <1> HIDE DEF q, rs
  <1>a. v.scope \in Scopes(R)
    BY <1>2
  <1>b. Reports(R, v, rs, p)
    BY <1>a, FreshSame
  <1> HIDE DEF p
  <1>4. SameButRevs(r.scope, p.scope) /\ p.receipts = rs
    BY <1>2, <1>b DEF Reports
  <1>5. ASSUME r.receipts = {}
        PROVE  Quiet(s, i, p)
    <2>1. SameButRevs(s, r.scope)
      BY <1>5 DEF Handled, Quiet
    <2>2. SameButRevs(s, p.scope)
      BY <1>4, <2>1 DEF SameButRevs, RootsKept
    <2> QED
      BY <1>3, <1>4, <2>2 DEF Quiet, rs
  <1> QED
    BY <1>1, <1>5 DEF n

(* A signal through reduce. *)
LEMMA ReduceSignalMove ==
    ASSUME NEW R, NEW s \in Scopes(R), \A q \in R : ReceiptType(q),
           NEW g \in Signals, NEW c
    PROVE  LET r == Reduce(s, g, c)
           IN  /\ r.receipts = {}
               /\ SignalMove(s, g, [scope |-> r.scope, effects |-> r.emitted])
  <1> DEFINE v == IF ~c.ruleSupported THEN Refuse(s, "UNSUPPORTED_RULE_VERSION")
                  ELSE HandleSignal(s, g, c)
             p == Fresh(v, {})
             r == Reduce(s, g, c)
  <1>1. g.kind # "FIELD_EVENT"
    BY InputAssumption DEF InputAssumption
  <1>2. RawReduction(s, g, c) = p
    BY <1>1 DEF RawReduction, Fresh
  <1>3. SignalMove(s, g, v) /\ v.scope \in Scopes(R)
    <2>1. SignalMove(s, g, HandleSignal(s, g, c)) /\ GoodResult(R, s, HandleSignal(s, g, c))
      BY HandleSignalMove, HandleSignalGood
    <2> DEFINE k == Refuse(s, "UNSUPPORTED_RULE_VERSION")
    <2>2. k.scope = s /\ k.effects = <<>>
      BY DEF Refuse, Result
    <2> HIDE DEF k
    <2>3. Len(k.effects) = 0
      BY <2>2
    <2>4. \A j \in 1..Len(k.effects) : k.effects[j] \notin Escalations
      BY <2>3
    <2>5. SignalMove(s, g, k)
      BY <2>2, <2>4, StillSignal
    <2> QED
      BY <2>1, <2>2, <2>5 DEF GoodResult, k
  <1> HIDE DEF v
  <1>a. Reports(R, v, {}, p)
    BY <1>3, FreshSame
  <1>5. DOMAIN p = {"scope", "outcome", "emitted", "response", "missing", "reasons",
                    "receipts", "replayed"}
    BY DEF Fresh, Reduction
  <1> HIDE DEF p
  <1>4. /\ SameButRevs(v.scope, p.scope) /\ p.receipts = {} /\ p.scope \in Scopes(R)
        /\ p.emitted = v.effects
    BY <1>a DEF Reports
  <1>6. r.scope = FinalizeScope(s, p.scope) /\ r.emitted = p.emitted /\ r.receipts = p.receipts
    BY <1>2, <1>5 DEF Reduce
  <1> HIDE DEF r
  <1>7. SameButRevs(p.scope, r.scope)
    BY <1>4, <1>6, FinalizeSame
  <1> DEFINE k == [scope |-> r.scope, effects |-> r.emitted]
  <1>8. k.scope = r.scope /\ k.effects = v.effects
    BY <1>4, <1>6
  <1> HIDE DEF k
  <1>10. SameButRevs(v.scope, k.scope)
    BY <1>4, <1>7, <1>8 DEF SameButRevs, RootsKept
  <1>9. SignalMove(s, g, k)
    <2>1. ASSUME NEW d \in PlanDays
          PROVE  /\ k.scope.day[d].status = v.scope.day[d].status
                 /\ k.scope.day[d].available = v.scope.day[d].available
                 /\ k.scope.day[d].closeReported = v.scope.day[d].closeReported
                 /\ k.scope.day[d].confirmed = v.scope.day[d].confirmed
      BY <1>10 DEF SameButRevs
    <2>2. ASSUME NEW x \in Directives
          PROVE  /\ k.scope.dir[x].delivery = v.scope.dir[x].delivery
                 /\ k.scope.dir[x].acked = v.scope.dir[x].acked
                 /\ k.scope.dir[x].stopInForce = v.scope.dir[x].stopInForce
                 /\ k.scope.dir[x].escalated = v.scope.dir[x].escalated
      BY <1>10 DEF SameButRevs
    <2>3. RootsKept(s, k.scope) /\ k.scope.task = s.task /\ k.scope.stage = s.stage
      BY <1>3, <1>10 DEF SignalMove, SameButRevs, RootsKept
    <2> QED
      BY <1>3, <1>8, <2>1, <2>2, <2>3 DEF SignalMove
  <1> QED
    BY <1>4, <1>6, <1>9 DEF r, k

=============================================================================
