------------------------------- MODULE M2Types -------------------------------
(***************************************************************************)
(* The value types of the M2 field domain (field/models.py): enumerations, *)
(* the immutable definitions of tasks, assignments, plan days and          *)
(* directives, the mutable part of each canonical root, and the queries    *)
(* that M2ReductionScope offers to the reducer.                            *)
(*                                                                         *)
(* A scope is a record holding the hydrated root identities (jobs, days,   *)
(* dirs), the mutable state of the roots, and the receipts of the          *)
(* processed-event ledger.  A root that is not hydrated is unknown to the  *)
(* reducer, whatever the database holds.                                   *)
(***************************************************************************)
EXTENDS Integers, FiniteSets, Sequences

CONSTANTS
    None,         \* an absent optional reference
    Workers,      \* WorkerIdentityRegistry.worker_ids
    Jobs, Tasks, Stages, Assignments, PlanDays, Directives,
    TaskDef,      \* [Tasks -> task definition and initial execution right]
    StageTask,    \* [Stages -> Tasks]
    AsgDef,       \* [Assignments -> assignment]
    DayDef,       \* [PlanDays -> worker, start time and initial status]
    DirDef,       \* [Directives -> directive definition]
    FieldInputs,  \* FieldEventInput: an envelope and a presented server id
    Signals,      \* SystemSignal
    Contexts      \* PolicyTimeContext

-----------------------------------------------------------------------------
(* Enumerations. *)

PlanDayStatus == {"DRAFT", "ISSUED", "ACTIVE", "DAY_CLOSED"}
TaskStatus == {"OPEN", "BLOCKED", "WAITING", "DONE", "DISPUTED", "SAFE_HOLD"}
StageStatus == {"OPEN", "DONE", "DISPUTED", "SAFE_HOLD"}
AssignmentKind == {"SINGLE", "CREW"}
CompletionType == {"TASK", "STAGE", "WAITING", "VISIT", "DAY_CLOSE"}
DirectiveClass == {"INFO", "ACTION", "STOP"}
DirectiveType == {"INFO_NOTICE", "ACTION_REQUIRED", "STOP_DIRECTIVE",
                  "END_OF_DAY_OPTIONS", "WHY_EXPLAINED"}
DeliveryEvidence == {"QUEUED", "CHANNEL_ACCEPTED", "APP_OBSERVED", "ACKED"}
ReductionOutcome == {"APPLIED", "REPORTED", "NOOP", "REJECTED"}

DelayReason == {"TRAFFIC", "TRANSPORT", "PERSONAL", "OTHER"}
StartExceptionReason ==
    {"TRANSPORT_BLOCKED", "PERSONAL_EMERGENCY", "SICK", "OTHER"}
WorkStartBlockedReason == {"NO_ACCESS", "CLIENT_ABSENT",
    "PREDECESSOR_NOT_READY", "UNSAFE", "WEATHER", "OTHER"}
ResourceKind == {"MATERIAL", "TOOL", "VEHICLE", "KEY", "DRAWING", "OTHER"}
UnavailableReason == {"SICK", "PERSONAL_EMERGENCY", "OTHER"}
ActionExceptionReason == {"VEHICLE_UNSAFE", "PHYSICALLY_UNABLE",
    "CONFLICTING_FACT", "ALREADY_COMMITTED", "OTHER"}

CompletionEvents == {"TASK_COMPLETION_REPORTED", "STAGE_COMPLETION_REPORTED",
                     "VISIT_COMPLETION_REPORTED"}
FieldEventType == CompletionEvents \cup {"DAY_PLAN_ACTIVATED",
    "START_DELAY_REPORTED", "START_EXCEPTION_REPORTED", "UNAVAILABLE_TODAY_REPORTED",
    "WORK_START_BLOCKED", "RESOURCE_MISSING_REPORTED", "SITE_PROBLEM_REPORTED",
    "SCOPE_FACT_REPORTED", "TECHNICAL_WAIT_REPORTED", "DAY_CLOSE_REPORTED",
    "COMPLETION_DISPUTED", "WORKER_ACKNOWLEDGED", "WORKER_ACTION_EXCEPTION"}
SystemSignalType == {"START_WINDOW_ELAPSED", "DIRECTIVE_E1_ELAPSED",
    "EARLY_FINISH_EVALUATED", "END_OF_DAY_POLICY_SATISFIED", "STATE_REHYDRATED",
    "SYNC_REPLAYED", "DAY_ROLLED_OVER"}
EffectType == {"PLAN_DAY_ACTIVATED", "START_UNKNOWN_ESCALATED",
    "START_DELAY_RECORDED", "DELAY_IMPACT_EVALUATION_REQUIRED",
    "START_EXCEPTION_RECORDED", "TRANSPORT_RESOLUTION_REQUIRED",
    "UNAVAILABLE_TODAY_RECORDED", "TASK_HELD", "RESOURCE_MISSING_RECORDED",
    "SITE_PROBLEM_RECORDED", "SITE_PROBLEM_ESCALATED", "STOP_DIRECTIVE_REQUESTED",
    "NON_BINDING_SCOPE_CHANGE_RECORDED", "COMPLETION_ACCEPTED",
    "COMPLETION_REJECTED", "ASSIGNMENT_INVALID", "TECHNICAL_WAIT_RECORDED",
    "COMPLETION_DISPUTED", "HUMAN_REVIEW_REQUIRED", "DIRECTIVE_ACKED",
    "ACTION_REEVALUATION_REQUIRED", "SAFE_HOLD_ENTERED", "ACK_MISSING_ESCALATED",
    "STOP_UNCONFIRMED", "EARLY_FINISH_SOFT_OPTIONS", "END_OF_DAY_POLICY_REQUESTED",
    "DAY_CLOSED"}

-----------------------------------------------------------------------------
(* Values carried by the inputs of a run. *)

FieldEvents == {i.event : i \in FieldInputs}
EventIds == {e.id : e \in FieldEvents}
ServerIds == {i.sid : i \in FieldInputs}
EvidenceItems == UNION {e.attachments : e \in FieldEvents}
PlanReferences == {DirDef[x].proposed : x \in Directives} \cup {None}

(* The mutable part of each canonical root. *)

TaskState == [status : TaskStatus, evidence : SUBSET EvidenceItems,
              observations : SUBSET EventIds, completion : EventIds \cup {None},
              holdDirective : Directives \cup {None},
              blocked : BOOLEAN, authorized : BOOLEAN]
StageState == [status : StageStatus, completion : EventIds \cup {None}]
DayState == [status : PlanDayStatus, available : BOOLEAN,
             closeReported : BOOLEAN, startEscalated : BOOLEAN,
             confirmed : PlanReferences, rev : Nat]
DirState == [delivery : DeliveryEvidence, acked : EventIds \cup {None},
             exception : EventIds \cup {None}, escalated : BOOLEAN,
             stopInForce : BOOLEAN, rev : Nat]

(* What a completion may find missing. *)
Requirements ==
    (UNION {TaskDef[t].postconditions \cup TaskDef[t].evidenceKinds : t \in Tasks})
    \cup {"QUANTITY_AND_UNIT"}

(* ProcessedEventReceipt; response effects, missing and reasons are kept so *)
(* that a replay can return them.  Reason codes are free text.             *)
ReceiptType(r) ==
    /\ r.event \in FieldEvents /\ r.sid \in ServerIds
    /\ r.outcome \in ReductionOutcome /\ r.response \in Seq(EffectType)
    /\ r.missing \subseteq Requirements

(* M2ReductionScope with the ledger R. *)
Scopes(R) ==
    [jobs : SUBSET Jobs, days : SUBSET PlanDays, dirs : SUBSET Directives,
     task : [Tasks -> TaskState], stage : [Stages -> StageState],
     released : [Assignments -> SUBSET Workers],
     jobRev : [Jobs -> Nat], day : [PlanDays -> DayState],
     dir : [Directives -> DirState], receipts : {R}]

ScopeType(s) ==
    s \in Scopes(s.receipts) /\ \A r \in s.receipts : ReceiptType(r)

(* What the constructors of the definitions enforce: an assignment lives in *)
(* the job of its task, members and addressees are registered workers, STOP *)
(* and ACTION_REQUIRED types carry their class, a directive has a sequence  *)
(* number.  Days start open, and None names no root.                        *)
ASSUME DefinitionAssumption ==
    /\ \A t \in Tasks : /\ TaskDef[t].job \in Jobs
                        /\ TaskDef[t].authorized \in BOOLEAN
    /\ \A g \in Stages : StageTask[g] \in Tasks
    /\ \A a \in Assignments : /\ AsgDef[a].task \in Tasks
                              /\ AsgDef[a].job = TaskDef[AsgDef[a].task].job
                              /\ AsgDef[a].members \subseteq Workers
                              /\ AsgDef[a].days \subseteq PlanDays
    /\ \A d \in PlanDays : /\ DayDef[d].worker \in Workers
                           /\ DayDef[d].status \in PlanDayStatus \ {"DAY_CLOSED"}
    /\ \A x \in Directives :
          /\ DirDef[x].class \in DirectiveClass
          /\ DirDef[x].worker \in Workers
          /\ DirDef[x].type = "STOP_DIRECTIVE" => DirDef[x].class = "STOP"
          /\ DirDef[x].type = "ACTION_REQUIRED" => DirDef[x].class = "ACTION"
          /\ DirDef[x].task \in Tasks \cup {None}
          /\ DirDef[x].day \in PlanDays \cup {None}
          /\ DirDef[x].supersedes \in Directives \cup {None}
          /\ DirDef[x].stop \in BOOLEAN
          /\ DirDef[x].seq \in Nat
    /\ None \notin Tasks \cup Stages \cup PlanDays \cup Directives
                   \cup Assignments \cup Jobs

(* Inputs are of a known type and name materialisable roots or nothing; an *)
(* event lists an evidence identity once, and a signal identity concerns    *)
(* one directive (the inbox refuses another document under it).             *)
ASSUME InputAssumption ==
    /\ \A i \in FieldInputs : i.kind = "FIELD_EVENT"
    /\ \A g \in Signals : g.kind = "SYSTEM_SIGNAL" /\ g.type \in SystemSignalType
    /\ \A e \in FieldEvents :
          /\ e.type \in FieldEventType
          /\ e.task \in Tasks \cup {None}
          /\ e.stage \in Stages \cup {None}
          /\ e.asg \in Assignments \cup {None}
          /\ e.day \in PlanDays \cup {None}
          /\ e.dir \in Directives \cup {None}
          /\ \A v, w \in e.attachments : v.id = w.id => v = w
    /\ \A g \in Signals : /\ g.day \in PlanDays \cup {None}
                          /\ g.dir \in Directives \cup {None}
    /\ \A g, h \in Signals : g.id = h.id => g.dir = h.dir
    /\ None \notin EventIds \cup ServerIds

-----------------------------------------------------------------------------
(* Lookups of M2ReductionScope. *)

HasTask(s, t) == t \in Tasks /\ TaskDef[t].job \in s.jobs
HasAssignment(s, a) == a \in Assignments /\ AsgDef[a].job \in s.jobs
HasDay(s, d) == d \in s.days
HasDirective(s, x) == x \in s.dirs

(* directive_stream_key: the most specific scope that a directive names,   *)
(* within its worker.                                                      *)
StreamKey(x) ==
    LET d == DirDef[x] IN
    IF d.day # None THEN <<d.worker, "PLAN_DAY", d.day>>
    ELSE IF d.asg # None THEN <<d.worker, "ASSIGNMENT", d.asg>>
    ELSE IF d.task # None THEN <<d.worker, "TASK", d.task>>
    ELSE IF d.job # None THEN <<d.worker, "JOB", d.job>>
    ELSE <<d.worker, "WORKER", d.worker>>

(* The set {code} of a failed check, empty when the check passes. *)
When(failed, code) == IF failed THEN {code} ELSE {}

(* directive_scope_errors: the reasons why a directive has no consistent   *)
(* execution scope among the hydrated roots.  Definition versions and      *)
(* member registration are enforced by the root constructors.              *)
AssignmentScopeErrors(x) ==
    LET d == DirDef[x]  a == AsgDef[d.asg] IN
    When(d.job # None /\ a.job # d.job, "CROSS_JOB_DIRECTIVE_ASSIGNMENT")
    \cup When(d.task # None /\ a.task # d.task, "CROSS_TASK_DIRECTIVE_ASSIGNMENT")
    \cup When(d.worker \notin a.members, "DIRECTIVE_WORKER_NOT_ASSIGNED")

DayScopeErrors(s, x) ==
    LET d == DirDef[x] IN
    When(DayDef[d.day].worker # d.worker, "DIRECTIVE_PLAN_DAY_WORKER_MISMATCH")
    \cup When(HasAssignment(s, d.asg) /\ d.day \notin AsgDef[d.asg].days,
              "CROSS_PLAN_DAY_DIRECTIVE_ASSIGNMENT")

(* The assignments that could carry a directive which names none itself. *)
ContextMatches(s, x) ==
    LET d == DirDef[x] IN
    {a \in Assignments :
        /\ HasAssignment(s, a)
        /\ AsgDef[a].job = IF HasTask(s, d.task) THEN TaskDef[d.task].job ELSE d.job
        /\ HasTask(s, d.task) => AsgDef[a].task = d.task
        /\ d.worker \in AsgDef[a].members
        /\ d.day = None \/ d.day \in AsgDef[a].days}

DirectiveScopeErrors(s, x) ==
    LET d == DirDef[x]
        needsContext == /\ ~HasAssignment(s, d.asg)
                        /\ HasTask(s, d.task) \/ (d.job # None /\ d.day # None)
        matches == ContextMatches(s, x)
    IN  When(d.job # None /\ d.job \notin s.jobs, "CROSS_JOB_DIRECTIVE")
        \cup When(d.worker \notin Workers, "UNKNOWN_DIRECTIVE_WORKER")
        \cup When(d.task # None /\ ~HasTask(s, d.task), "UNKNOWN_DIRECTIVE_TASK")
        \cup When(HasTask(s, d.task) /\ d.job # None /\ TaskDef[d.task].job # d.job,
                  "CROSS_JOB_DIRECTIVE_TASK")
        \cup When(d.asg # None /\ ~HasAssignment(s, d.asg),
                  "UNKNOWN_DIRECTIVE_ASSIGNMENT")
        \cup (IF HasAssignment(s, d.asg) THEN AssignmentScopeErrors(x) ELSE {})
        \cup When(d.day # None /\ ~HasDay(s, d.day), "UNKNOWN_DIRECTIVE_PLAN_DAY")
        \cup (IF HasDay(s, d.day) THEN DayScopeErrors(s, x) ELSE {})
        \cup When(needsContext /\ matches = {}, "DIRECTIVE_EXECUTION_CONTEXT_REQUIRED")
        \cup When(needsContext /\ Cardinality(matches) > 1,
                  "AMBIGUOUS_DIRECTIVE_EXECUTION_CONTEXT")

(* directive_worker_informed: only an APPLIED acknowledgement receipt of   *)
(* the addressed worker, within the scope of the directive, informs.       *)
AckInforms(r, x) ==
    LET d == DirDef[x]  e == r.event IN
    /\ r.outcome = "APPLIED"
    /\ e.type = "WORKER_ACKNOWLEDGED"
    /\ e.dir = x
    /\ e.actor = d.worker
    /\ e.job \in {None, d.job}
    /\ e.task \in {None, d.task}
    /\ e.asg \in {None, d.asg}
    /\ e.day \in {None, d.day}

DirectiveWorkerInformed(s, x) ==
    /\ HasDirective(s, x)
    /\ s.dir[x].delivery = "ACKED"
    /\ s.dir[x].acked # None
    /\ DirectiveScopeErrors(s, x) = {}
    /\ \E r \in s.receipts : r.event.id = s.dir[x].acked /\ AckInforms(r, x)

(* _directive_supersedes: the predecessors along the supersession chain. *)
Superseded[x \in Directives] ==
    IF DirDef[x].supersedes = None THEN {}
    ELSE {DirDef[x].supersedes} \cup Superseded[DirDef[x].supersedes]

(* later_governing_directive_exists *)
Governs(s, y, x) ==
    /\ DirDef[y].seq > DirDef[x].seq
    /\ StreamKey(y) = StreamKey(x)
    /\ DirectiveScopeErrors(s, y) = {}
    /\ \/ x \in Superseded[y]
       \/ DirDef[y].class = "ACTION" /\ DirectiveWorkerInformed(s, y)
       \/ /\ DirDef[y].class = "STOP"
          /\ s.dir[y].stopInForce \/ DirectiveWorkerInformed(s, y)

LaterGoverningDirectiveExists(s, x) == \E y \in s.dirs : Governs(s, y, x)

-----------------------------------------------------------------------------
(* Roots as they are materialised. *)

InitialTask(t) ==
    [status |-> "OPEN", evidence |-> {}, observations |-> {}, completion |-> None,
     holdDirective |-> None, blocked |-> FALSE, authorized |-> TaskDef[t].authorized]
InitialDay(d) ==
    [status |-> DayDef[d].status, available |-> TRUE, closeReported |-> FALSE,
     startEscalated |-> FALSE, confirmed |-> None, rev |-> 0]
InitialDirective(x) ==
    [delivery |-> "QUEUED", acked |-> None, exception |-> None,
     escalated |-> FALSE, stopInForce |-> DirDef[x].stop, rev |-> 0]

EmptyScope ==
    [jobs |-> {}, days |-> {}, dirs |-> {},
     task |-> [t \in Tasks |-> InitialTask(t)],
     stage |-> [g \in Stages |-> [status |-> "OPEN", completion |-> None]],
     released |-> [a \in Assignments |-> {}],
     jobRev |-> [j \in Jobs |-> 0],
     day |-> [d \in PlanDays |-> InitialDay(d)],
     dir |-> [x \in Directives |-> InitialDirective(x)],
     receipts |-> {}]

(* A directive is issued into a consistent scope, after the directive it   *)
(* supersedes, and under a sequence number that is free in its stream.     *)
ValidNewDirective(s, x) ==
    /\ DirectiveScopeErrors(s, x) = {}
    /\ DirDef[x].supersedes \in s.dirs \cup {None}
    /\ \A y \in s.dirs : StreamKey(y) = StreamKey(x) => DirDef[y].seq # DirDef[x].seq

=============================================================================
