------------------------------ MODULE M2Reducer ------------------------------
(***************************************************************************)
(* The pure M2 reducer (field/reducer.py): one operator per event handler  *)
(* and per system signal, composed by Reduce.  An input is a field event   *)
(* with the server id presented for it, or a system signal; a context      *)
(* carries the clock, the company policy and the rule version.             *)
(***************************************************************************)
EXTENDS M2Types

-----------------------------------------------------------------------------
(* What a handler returns. *)

Result(s, outcome, effects, missing, reasons) ==
    [scope |-> s, outcome |-> outcome, effects |-> effects,
     missing |-> missing, reasons |-> reasons]
Refuse(s, code) == Result(s, "REJECTED", <<>>, {}, {code})
Noop(s) == Result(s, "NOOP", <<>>, {}, {})
Applied(s, effects) == Result(s, "APPLIED", effects, {}, {})

-----------------------------------------------------------------------------
(* Reference checks. *)

EventScopeJob(s, e) ==
    IF e.job # None THEN e.job
    ELSE IF HasTask(s, e.task) THEN TaskDef[e.task].job
    ELSE IF HasAssignment(s, e.asg) THEN AsgDef[e.asg].job
    ELSE IF HasDirective(s, e.dir) THEN DirDef[e.dir].job
    ELSE None

EventAssignmentErrors(e) ==
    LET a == AsgDef[e.asg] IN
    When(e.task # None /\ a.task # e.task, "CROSS_TASK_ASSIGNMENT")
    \cup When(e.job # None /\ a.job # e.job, "CROSS_JOB_ASSIGNMENT")
    \cup When(e.actor \notin a.members, "ACTOR_NOT_ASSIGNED")
    \cup When(e.day # None /\ e.day \notin a.days, "CROSS_PLAN_DAY_ASSIGNMENT")

(* A missing resource may be reported for a task without naming the        *)
(* assignment only when exactly one assignment of the actor matches.       *)
ResourceAuthorityErrors(s, e) ==
    LET matches == {a \in Assignments :
                      /\ HasAssignment(s, a) /\ AsgDef[a].task = e.task
                      /\ e.actor \in AsgDef[a].members
                      /\ e.day = None \/ e.day \in AsgDef[a].days}
    IN  When(matches = {}, "TASK_AUTHORITY_REQUIRED")
        \cup When(Cardinality(matches) > 1, "AMBIGUOUS_TASK_AUTHORITY")

EventDirectiveErrors(s, e) ==
    LET d == DirDef[e.dir] IN
    DirectiveScopeErrors(s, e.dir)
    \cup When(d.worker # e.actor, "DIRECTIVE_ACTOR_MISMATCH")
    \cup When(e.job # None /\ d.job # e.job, "CROSS_JOB_DIRECTIVE")
    \cup When(e.task # None /\ d.task # e.task, "CROSS_TASK_DIRECTIVE")
    \cup When(e.asg # None /\ d.asg # e.asg, "CROSS_ASSIGNMENT_DIRECTIVE")
    \cup When(e.day # None /\ d.day # e.day, "CROSS_PLAN_DAY_DIRECTIVE")

(* Every evidence item that the scope already knows, with its owner. *)
EvidenceHistory(s) ==
    (UNION {{[item |-> v, job |-> TaskDef[t].job, task |-> t, asg |-> None]
               : v \in s.task[t].evidence} : t \in {u \in Tasks : HasTask(s, u)}})
    \cup
    (UNION {{[item |-> v, job |-> EventScopeJob(s, r.event),
              task |-> r.event.task, asg |-> r.event.asg]
               : v \in r.event.attachments} : r \in s.receipts})

EvidenceErrors(s, e) ==
    LET crosses(h) == \/ h.job # EventScopeJob(s, e)
                      \/ h.task # e.task
                      \/ h.asg # None /\ e.asg # None /\ h.asg # e.asg
    IN  When(\E v \in e.attachments, h \in EvidenceHistory(s) :
                h.item.id = v.id /\ h.item # v, "EVIDENCE_ID_CONFLICT")
        \cup When(\E v \in e.attachments, h \in EvidenceHistory(s) :
                h.item.id = v.id /\ crosses(h), "EVIDENCE_SCOPE_CONFLICT")

PlanEvents == {"DAY_PLAN_ACTIVATED", "START_DELAY_REPORTED",
    "START_EXCEPTION_REPORTED", "UNAVAILABLE_TODAY_REPORTED", "DAY_CLOSE_REPORTED"}
TaskAssignmentEvents == CompletionEvents \cup {"WORK_START_BLOCKED",
    "SITE_PROBLEM_REPORTED", "TECHNICAL_WAIT_REPORTED", "COMPLETION_DISPUTED"}

RequiredReferenceErrors(e) ==
    When(e.type \in PlanEvents \cup TaskAssignmentEvents /\ e.day = None,
         "PLAN_DAY_REQUIRED")
    \cup When(e.type \in TaskAssignmentEvents /\ e.job = None, "JOB_REQUIRED")
    \cup When(e.type \in TaskAssignmentEvents /\ e.task = None, "TASK_REQUIRED")
    \cup When(e.type \in TaskAssignmentEvents /\ e.asg = None, "ASSIGNMENT_REQUIRED")
    \cup When(e.type = "STAGE_COMPLETION_REPORTED" /\ e.stage = None, "STAGE_REQUIRED")
    \cup When(e.type \in {"WORKER_ACKNOWLEDGED", "WORKER_ACTION_EXCEPTION"}
                /\ e.dir = None, "DIRECTIVE_REQUIRED")
    \cup When(e.type = "COMPLETION_DISPUTED" /\ e.against = None,
              "AGAINST_EVENT_REQUIRED")
    \cup When(e.type = "COMPLETION_DISPUTED" /\ e.reason = None /\ ~e.text
                /\ e.attachments = {}, "DISPUTE_REASON_OR_EVIDENCE_REQUIRED")
    \cup When(e.type = "WORK_START_BLOCKED" /\ e.reason = None,
              "WORK_START_BLOCKED_REASON_REQUIRED")
    \cup When(e.type = "SITE_PROBLEM_REPORTED" /\ ~e.text /\ e.attachments = {},
              "SITE_PROBLEM_EVIDENCE_REQUIRED")

ReferenceErrors(s, e) ==
    When(e.actor \notin Workers, "UNKNOWN_ACTOR")
    \cup When(e.day # None /\ ~HasDay(s, e.day), "UNKNOWN_PLAN_DAY")
    \cup When(HasDay(s, e.day) /\ DayDef[e.day].worker # e.actor,
              "PLAN_DAY_ACTOR_MISMATCH")
    \cup When(e.job # None /\ e.job \notin s.jobs, "CROSS_JOB_REFERENCE")
    \cup When(e.task # None /\ ~HasTask(s, e.task), "UNKNOWN_TASK")
    \cup When(HasTask(s, e.task) /\ e.job # None /\ TaskDef[e.task].job # e.job,
              "CROSS_JOB_TASK")
    \cup When(e.asg # None /\ ~HasAssignment(s, e.asg), "UNKNOWN_ASSIGNMENT")
    \cup (IF HasAssignment(s, e.asg) THEN EventAssignmentErrors(e) ELSE {})
    \cup (IF /\ e.type = "RESOURCE_MISSING_REPORTED"
             /\ HasTask(s, e.task) /\ ~HasAssignment(s, e.asg)
          THEN ResourceAuthorityErrors(s, e) ELSE {})
    \cup When(e.stage # None
                /\ ~(HasTask(s, e.task) /\ StageTask[e.stage] = e.task),
              "UNKNOWN_OR_CROSS_TASK_STAGE")
    \cup When(e.dir # None /\ ~HasDirective(s, e.dir), "UNKNOWN_DIRECTIVE")
    \cup (IF HasDirective(s, e.dir) THEN EventDirectiveErrors(s, e) ELSE {})
    \cup EvidenceErrors(s, e)
    \cup RequiredReferenceErrors(e)

CompletionRejectionEffects(e) ==
    IF e.type \in CompletionEvents THEN <<"COMPLETION_REJECTED">> ELSE <<>>

-----------------------------------------------------------------------------
(* Task helpers. *)

SafeHoldActive(s, t) ==
    \/ s.task[t].status = "SAFE_HOLD"
    \/ s.task[t].blocked
    \/ \E g \in Stages : StageTask[g] = t /\ s.stage[g].status = "SAFE_HOLD"

(* Mutant: a safe hold yields to an ordinary status. *)
OrdinaryTaskStatusUnguarded(s, t, status) == [s EXCEPT !.task[t].status = status]

OrdinaryTaskStatus(s, t, status) ==
    IF SafeHoldActive(s, t) THEN s ELSE [s EXCEPT !.task[t].status = status]

(* The first item submitted under an identity stays. *)
MergeEvidence(existing, submitted) ==
    existing \cup {v \in submitted : \A w \in existing : w.id # v.id}

SafeHoldTask(s, t, x) ==
    [s EXCEPT !.task[t].status = "SAFE_HOLD", !.task[t].holdDirective = x,
              !.task[t].blocked = TRUE, !.task[t].authorized = FALSE]

(* The task, and the stage if the event names one, become disputed. *)
DisputeTarget(s, e) ==
    [s EXCEPT !.task[e.task].status = "DISPUTED",
              !.stage = IF e.stage = None THEN @
                        ELSE [@ EXCEPT ![e.stage].status = "DISPUTED"]]

-----------------------------------------------------------------------------
(* Handlers of the plan day. *)

DayPlanActivated(s, e) ==
    LET status == s.day[e.day].status IN
    IF status = "ACTIVE" THEN Noop(s)
    ELSE IF status \notin {"DRAFT", "ISSUED"}
      THEN Refuse(s, "PLAN_DAY_NOT_ACTIVATABLE")
    ELSE Applied([s EXCEPT !.day[e.day].status = "ACTIVE"],
                 <<"PLAN_DAY_ACTIVATED">>)

StartDelayReported(s, e) ==
    IF e.reason # None /\ e.reason \notin DelayReason
    THEN Refuse(s, "INVALID_DELAY_REASON")
    ELSE Result(s, "REPORTED",
                <<"START_DELAY_RECORDED", "DELAY_IMPACT_EVALUATION_REQUIRED">>, {}, {})

StartExceptionReported(s, e) ==
    IF e.reason \notin StartExceptionReason
    THEN Refuse(s, "INVALID_START_EXCEPTION_REASON")
    ELSE Result(s, "REPORTED",
                IF e.reason = "TRANSPORT_BLOCKED"
                THEN <<"START_EXCEPTION_RECORDED", "TRANSPORT_RESOLUTION_REQUIRED">>
                ELSE <<"START_EXCEPTION_RECORDED">>, {}, {})

UnavailableTodayReported(s, e) ==
    IF e.reason \notin UnavailableReason
    THEN Refuse(s, "INVALID_UNAVAILABLE_REASON")
    ELSE Applied([s EXCEPT !.day[e.day].available = FALSE],
                 <<"UNAVAILABLE_TODAY_RECORDED">>)

DayCloseReported(s, e) ==
    IF s.day[e.day].status = "DAY_CLOSED" THEN Noop(s)
    ELSE Applied([s EXCEPT !.day[e.day].closeReported = TRUE],
                 <<"END_OF_DAY_POLICY_REQUESTED">>)

-----------------------------------------------------------------------------
(* Handlers that hold a task. *)

WorkStartBlocked(s, e) ==
    IF e.reason \notin WorkStartBlockedReason
    THEN Refuse(s, "INVALID_WORK_START_BLOCKED_REASON")
    ELSE Applied(OrdinaryTaskStatus(s, e.task, "BLOCKED"), <<"TASK_HELD">>)

ResourceMissingReported(s, e) ==
    IF e.task = None /\ e.day = None THEN Refuse(s, "TASK_OR_PLAN_DAY_REQUIRED")
    ELSE IF e.reason \notin ResourceKind THEN Refuse(s, "INVALID_RESOURCE_KIND")
    ELSE IF e.task = None THEN Applied(s, <<"RESOURCE_MISSING_RECORDED">>)
    ELSE Applied(OrdinaryTaskStatus(s, e.task, "BLOCKED"),
                 <<"RESOURCE_MISSING_RECORDED", "TASK_HELD">>)

(* Mutant: a completed stage does not contradict the observation. *)
ConflictingCompletionTaskOnly(s, e) == s.task[e.task].status = "DONE"

(* A completion that the observation contradicts. *)
ConflictingCompletion(s, e) ==
    \/ s.task[e.task].status = "DONE"
    \/ e.stage # None /\ s.stage[e.stage].status = "DONE"

SiteProblemReported(s, e, c) ==
    LET t == e.task
        observed == [s EXCEPT
            !.task[t].evidence = MergeEvidence(@, e.attachments),
            !.task[t].observations = @ \cup {e.id}]
        conflict == ConflictingCompletion(s, e)
        held == SafeHoldActive(s, t)
        holds == c.siteProblem \in {"HOLD", "HOLD_AND_ESCALATE"}
        next == IF held THEN observed
                ELSE IF conflict THEN DisputeTarget(observed, e)
                ELSE IF holds THEN OrdinaryTaskStatus(observed, t, "BLOCKED")
                ELSE observed
        first == IF held /\ conflict THEN <<"HUMAN_REVIEW_REQUIRED">>
                 ELSE IF held THEN <<>>
                 ELSE IF conflict THEN <<"TASK_HELD", "HUMAN_REVIEW_REQUIRED">>
                 ELSE IF holds THEN <<"TASK_HELD">> ELSE <<>>
        last == IF c.siteProblem \in {"ESCALATE", "HOLD_AND_ESCALATE"}
                THEN <<"SITE_PROBLEM_ESCALATED">>
                ELSE IF c.siteProblem = "REQUEST_STOP"
                THEN <<"STOP_DIRECTIVE_REQUESTED">> ELSE <<>>
    IN  Applied(next, <<"SITE_PROBLEM_RECORDED">> \o first \o last)

ScopeFactReported(s, e) ==
    IF ~e.text /\ e.attachments = {} THEN Refuse(s, "SCOPE_DESCRIPTION_REQUIRED")
    ELSE Result(s, "REPORTED", <<"NON_BINDING_SCOPE_CHANGE_RECORDED">>, {}, {})

(* Mutant: the assignment is released in place of the worker. *)
TechnicalWaitReportedWrongId(s, e) ==
    IF ~e.wait THEN Refuse(s, "WAIT_CONDITION_REQUIRED")
    ELSE IF SafeHoldActive(s, e.task) THEN Refuse(s, "SAFE_HOLD_HAS_PRECEDENCE")
    ELSE Applied([s EXCEPT !.task[e.task].status = "WAITING",
                           !.released[e.asg] = @ \cup {e.asg}],
                 <<"TECHNICAL_WAIT_RECORDED">>)

TechnicalWaitReported(s, e) ==
    IF ~e.wait THEN Refuse(s, "WAIT_CONDITION_REQUIRED")
    ELSE IF SafeHoldActive(s, e.task) THEN Refuse(s, "SAFE_HOLD_HAS_PRECEDENCE")
    ELSE Applied([s EXCEPT !.task[e.task].status = "WAITING",
                           !.released[e.asg] = @ \cup {e.actor}],
                 <<"TECHNICAL_WAIT_RECORDED">>)

-----------------------------------------------------------------------------
(* Completion of a task, a stage or a visit. *)

ExpectedType == [TASK_COMPLETION_REPORTED |-> "TASK",
                 STAGE_COMPLETION_REPORTED |-> "STAGE",
                 VISIT_COMPLETION_REPORTED |-> "VISIT"]

(* A crew completes through its lead only, anyone else through membership. *)
CompletionAuthorityErrors(e) ==
    LET a == AsgDef[e.asg]
        leadless == a.lead = None \/ a.lead \notin a.members
    IN  When(a.kind # TaskDef[e.task].kind, "ASSIGNMENT_KIND_MISMATCH")
        \cup When(a.kind = "CREW" /\ leadless, "INVALID_OR_MISSING_LEAD")
        \cup When(a.kind = "CREW" /\ ~leadless /\ e.actor # a.lead,
                  "COMPLETION_BY_NON_LEAD")
        \cup When(a.kind # "CREW" /\ e.actor \notin a.members,
                  "COMPLETION_BY_UNASSIGNED_WORKER")

(* The narrowest reference of a STOP decides what it covers. *)
StopCovers(s, x, e) ==
    LET d == DirDef[x] IN
    /\ d.job \in {None, EventScopeJob(s, e)}
    /\ IF d.task # None THEN d.task = e.task
       ELSE IF d.asg # None THEN d.asg = e.asg
       ELSE IF d.day # None THEN d.day = e.day
       ELSE d.worker = e.actor

CompletionBlockedByStop(s, e) ==
    \E x \in s.dirs : /\ DirDef[x].class = "STOP"
                      /\ s.dir[x].stopInForce
                      /\ StopCovers(s, x, e)

UnsafeReportFor(r, e) ==
    /\ r.outcome \in {"APPLIED", "REPORTED"}
    /\ r.event.type = "SITE_PROBLEM_REPORTED"
    /\ r.event.severity = "UNSAFE"
    /\ r.event.job = e.job
    /\ r.event.task = e.task
    /\ e.stage = None \/ r.event.stage = None \/ r.event.stage = e.stage

HasUnresolvedUnsafeReport(s, e) == \E r \in s.receipts : UnsafeReportFor(r, e)

MissingCompletionRequirements(s, e) ==
    LET def == TaskDef[e.task]
        kinds == {v.kind : v \in s.task[e.task].evidence \cup e.attachments}
    IN  {p \in def.postconditions : p \notin e.satisfied}
        \cup {k \in def.evidenceKinds : k \notin kinds}
        \cup When(def.quantity /\ ~e.quantity, "QUANTITY_AND_UNIT")

CompletionGates(s, e) ==
    LET t == e.task IN
    When(~s.task[t].authorized, "EXECUTION_NOT_AUTHORIZED")
    \cup When(s.task[t].blocked, "BLOCKED_PENDING_RESOLUTION")
    \cup When(SafeHoldActive(s, t), "SAFE_HOLD_HAS_PRECEDENCE")
    \cup When(CompletionBlockedByStop(s, e), "STOP_IN_FORCE")
    \cup When(HasUnresolvedUnsafeReport(s, e), "UNRESOLVED_UNSAFE_REPORT")

GatedCompletion(s, e) ==
    LET unsafe == HasUnresolvedUnsafeReport(s, e) IN
    Result(IF unsafe /\ ~SafeHoldActive(s, e.task) THEN DisputeTarget(s, e) ELSE s,
           "REJECTED",
           IF unsafe THEN <<"COMPLETION_REJECTED", "TASK_HELD", "HUMAN_REVIEW_REQUIRED">>
           ELSE <<"COMPLETION_REJECTED">>,
           {}, CompletionGates(s, e))

IsStageCompletion(e) == e.type = "STAGE_COMPLETION_REPORTED"

AlreadyCompleted(s, e) ==
    \/ s.task[e.task].status = "DONE"
    \/ IsStageCompletion(e) /\ s.stage[e.stage].status = "DONE"

TaskNotCompletable(s, e) ==
    s.task[e.task].status \in {"BLOCKED", "WAITING", "DISPUTED", "SAFE_HOLD"}

StageNotCompletable(s, e) ==
    IsStageCompletion(e) /\ s.stage[e.stage].status \in {"DISPUTED", "SAFE_HOLD"}

Complete(s, e) ==
    IF IsStageCompletion(e)
    THEN [s EXCEPT !.stage[e.stage].status = "DONE",
                   !.stage[e.stage].completion = e.id]
    ELSE [s EXCEPT !.task[e.task].status = "DONE",
                   !.task[e.task].completion = e.id]

CompletionReported(s, e) ==
    LET t == e.task
        refuse(effects, reasons) == Result(s, "REJECTED", effects, {}, reasons)
        rejection == <<"COMPLETION_REJECTED">>
        missing == MissingCompletionRequirements(s, e)
        evidenced == [s EXCEPT !.task[t].evidence = MergeEvidence(@, e.attachments)]
    IN  IF CompletionAuthorityErrors(e) # {}
          THEN refuse(<<"ASSIGNMENT_INVALID">> \o rejection, CompletionAuthorityErrors(e))
        ELSE IF TaskDef[t].completion # ExpectedType[e.type]
          THEN refuse(rejection, {"COMPLETION_TYPE_MISMATCH"})
        ELSE IF CompletionGates(s, e) # {} THEN GatedCompletion(s, e)
        ELSE IF AlreadyCompleted(s, e)
          THEN Result(s, "NOOP", <<>>, {}, {"COMPLETION_ALREADY_RECORDED"})
        ELSE IF TaskNotCompletable(s, e)
          THEN refuse(rejection, {"TASK_NOT_COMPLETABLE"})
        ELSE IF StageNotCompletable(s, e)
          THEN refuse(rejection, {"STAGE_NOT_COMPLETABLE"})
        ELSE IF missing # {}
          THEN Result(evidenced, "REPORTED", rejection, missing,
                      {"POSTCONDITIONS_NOT_MET"})
        ELSE Applied(Complete(evidenced, e), <<"COMPLETION_ACCEPTED">>)

(* A dispute names an applied completion of another member of the same     *)
(* assignment.                                                             *)
DisputableBy(s, r, e) ==
    /\ r.event.id = e.against
    /\ r.outcome = "APPLIED"
    /\ r.event.type \in CompletionEvents
    /\ r.event.job = e.job /\ r.event.task = e.task
    /\ r.event.asg = e.asg /\ r.event.stage = e.stage
    /\ r.event.actor # e.actor
    /\ HasAssignment(s, r.event.asg)
    /\ e.actor \in AsgDef[r.event.asg].members

DisputeSuspended(s, e) ==
    \/ s.task[e.task].status = "SAFE_HOLD"
    \/ s.task[e.task].blocked
    \/ \E g \in Stages : /\ StageTask[g] = e.task
                         /\ s.stage[g].status = "SAFE_HOLD"
                         /\ e.stage \in {None, g}

CompletionDisputed(s, e) ==
    IF ~\E r \in s.receipts : DisputableBy(s, r, e)
    THEN Refuse(s, "INVALID_AGAINST_EVENT")
    ELSE Applied(IF DisputeSuspended(s, e) THEN s
                 ELSE IF e.stage # None
                   THEN [s EXCEPT !.stage[e.stage].status = "DISPUTED"]
                 ELSE [s EXCEPT !.task[e.task].status = "DISPUTED"],
                 <<"COMPLETION_DISPUTED", "HUMAN_REVIEW_REQUIRED">>)

-----------------------------------------------------------------------------
(* Handlers of directives. *)

(* Mutant: the last acknowledgement to arrive wins. *)
ConfirmsPlanUngoverned(s, x) ==
    /\ DirDef[x].class = "ACTION"
    /\ DirDef[x].day # None /\ HasDay(s, DirDef[x].day)
    /\ DirDef[x].proposed # None

ConfirmsPlan(s, x) ==
    /\ DirDef[x].class = "ACTION"
    /\ DirDef[x].day # None
    /\ DirDef[x].proposed # None
    /\ ~LaterGoverningDirectiveExists(s, x)
    /\ HasDay(s, DirDef[x].day)

WorkerAcknowledged(s, e) ==
    LET x == e.dir
        acked == [s EXCEPT !.dir[x].delivery = "ACKED", !.dir[x].acked = e.id]
    IN  IF DirectiveWorkerInformed(s, x) THEN Noop(s)
        ELSE Applied(IF ConfirmsPlan(s, x)
                     THEN [acked EXCEPT !.day[DirDef[x].day].confirmed = DirDef[x].proposed]
                     ELSE acked,
                     <<"DIRECTIVE_ACKED">>)

(* Mutant: the exception lifts the STOP it is raised against. *)
WorkerActionExceptionLiftsStop(s, e) ==
    LET t == DirDef[e.dir].task IN
    IF t = None \/ DirDef[e.dir].class # "STOP" \/ e.reason \notin ActionExceptionReason
    THEN Refuse(s, "STOP_TASK_REQUIRED")
    ELSE Applied(SafeHoldTask([s EXCEPT !.dir[e.dir].exception = e.id,
                                        !.dir[e.dir].stopInForce = FALSE], t, e.dir),
                 <<"SAFE_HOLD_ENTERED">>)

WorkerActionException(s, e) ==
    LET x == e.dir
        t == DirDef[x].task
        excepted == [s EXCEPT !.dir[x].exception = e.id]
    IN  IF e.reason \notin ActionExceptionReason
          THEN Refuse(s, "INVALID_ACTION_EXCEPTION_REASON")
        ELSE IF DirDef[x].type \notin {"ACTION_REQUIRED", "STOP_DIRECTIVE"}
          THEN Refuse(s, "DIRECTIVE_NOT_ACTION_OR_STOP")
        ELSE IF DirDef[x].class # "STOP"
          THEN Applied(excepted, <<"ACTION_REEVALUATION_REQUIRED">>)
        ELSE IF t = None THEN Refuse(s, "STOP_TASK_REQUIRED")
        ELSE IF ~HasTask(s, t) THEN Refuse(s, "UNKNOWN_STOP_TASK")
        ELSE Applied(SafeHoldTask([excepted EXCEPT !.dir[x].stopInForce = TRUE], t, x),
                     <<"SAFE_HOLD_ENTERED">>)

-----------------------------------------------------------------------------
(* System signals: they leave no receipt in the ledger. *)

StartWindowElapsed(s, g, c) ==
    IF ~HasDay(s, g.day) THEN Refuse(s, "UNKNOWN_PLAN_DAY")
    ELSE IF \/ ~c.startEscalation
            \/ c.now < DayDef[g.day].startAt
            \/ s.day[g.day].status \in {"ACTIVE", "DAY_CLOSED"}
            \/ s.day[g.day].startEscalated
      THEN Noop(s)
    ELSE Applied([s EXCEPT !.day[g.day].startEscalated = TRUE],
                 <<"START_UNKNOWN_ESCALATED">>)

SignalScopeErrors(s, g) ==
    DirectiveScopeErrors(s, g.dir)
    \cup When(g.day # None /\ g.day # DirDef[g.dir].day, "CROSS_PLAN_DAY_SYSTEM_SIGNAL")
    \cup When(g.task # None /\ g.task # DirDef[g.dir].task, "CROSS_TASK_SYSTEM_SIGNAL")

E1NotDue(s, x, c) ==
    \/ DirectiveWorkerInformed(s, x)
    \/ s.dir[x].escalated
    \/ DirDef[x].dueAt = None
    \/ c.now < DirDef[x].dueAt

DirectiveE1Elapsed(s, g, c) ==
    IF ~HasDirective(s, g.dir) THEN Refuse(s, "UNKNOWN_DIRECTIVE")
    ELSE IF SignalScopeErrors(s, g) # {}
      THEN Result(s, "REJECTED", <<>>, {}, SignalScopeErrors(s, g))
    ELSE IF E1NotDue(s, g.dir, c) \/ DirDef[g.dir].class = "INFO" THEN Noop(s)
    ELSE Applied([s EXCEPT !.dir[g.dir].escalated = TRUE],
                 IF DirDef[g.dir].class = "ACTION" THEN <<"ACK_MISSING_ESCALATED">>
                 ELSE <<"STOP_UNCONFIRMED">>)

EarlyFinishEvaluated(s, g, c) ==
    IF ~HasDay(s, g.day) THEN Refuse(s, "UNKNOWN_PLAN_DAY")
    ELSE IF ~c.earlyFinish THEN Noop(s)
    ELSE Applied(s, <<"EARLY_FINISH_SOFT_OPTIONS">>)

(* Mutant: the system closes a day that its worker has not closed. *)
EndOfDayPolicySatisfiedUnreported(s, g, c) ==
    IF ~HasDay(s, g.day) THEN Refuse(s, "UNKNOWN_PLAN_DAY")
    ELSE IF g.policyResult # c.endOfDay
      THEN Refuse(s, "END_OF_DAY_POLICY_RESULT_MISMATCH")
    ELSE Applied([s EXCEPT !.day[g.day] =
                     [@ EXCEPT !.status = "DAY_CLOSED", !.available = FALSE]],
                 <<"DAY_CLOSED">>)

EndOfDayPolicySatisfied(s, g, c) ==
    IF ~HasDay(s, g.day) THEN Refuse(s, "UNKNOWN_PLAN_DAY")
    ELSE IF ~s.day[g.day].closeReported THEN Refuse(s, "DAY_CLOSE_NOT_REPORTED")
    ELSE IF g.policyResult # c.endOfDay
      THEN Refuse(s, "END_OF_DAY_POLICY_RESULT_MISMATCH")
    ELSE IF s.day[g.day].status = "DAY_CLOSED" THEN Noop(s)
    ELSE Applied([s EXCEPT !.day[g.day] =
                     [@ EXCEPT !.status = "DAY_CLOSED", !.available = FALSE]],
                 <<"DAY_CLOSED">>)

HandleSignal(s, g, c) ==
    CASE g.type \in {"STATE_REHYDRATED", "SYNC_REPLAYED", "DAY_ROLLED_OVER"} -> Noop(s)
      [] g.type = "START_WINDOW_ELAPSED" -> StartWindowElapsed(s, g, c)
      [] g.type = "DIRECTIVE_E1_ELAPSED" -> DirectiveE1Elapsed(s, g, c)
      [] g.type = "EARLY_FINISH_EVALUATED" -> EarlyFinishEvaluated(s, g, c)
      [] g.type = "END_OF_DAY_POLICY_SATISFIED" -> EndOfDayPolicySatisfied(s, g, c)

HandleEvent(s, e, c) ==
    CASE e.type = "DAY_PLAN_ACTIVATED" -> DayPlanActivated(s, e)
      [] e.type = "START_DELAY_REPORTED" -> StartDelayReported(s, e)
      [] e.type = "START_EXCEPTION_REPORTED" -> StartExceptionReported(s, e)
      [] e.type = "UNAVAILABLE_TODAY_REPORTED" -> UnavailableTodayReported(s, e)
      [] e.type = "WORK_START_BLOCKED" -> WorkStartBlocked(s, e)
      [] e.type = "RESOURCE_MISSING_REPORTED" -> ResourceMissingReported(s, e)
      [] e.type = "SITE_PROBLEM_REPORTED" -> SiteProblemReported(s, e, c)
      [] e.type = "SCOPE_FACT_REPORTED" -> ScopeFactReported(s, e)
      [] e.type \in CompletionEvents -> CompletionReported(s, e)
      [] e.type = "TECHNICAL_WAIT_REPORTED" -> TechnicalWaitReported(s, e)
      [] e.type = "DAY_CLOSE_REPORTED" -> DayCloseReported(s, e)
      [] e.type = "COMPLETION_DISPUTED" -> CompletionDisputed(s, e)
      [] e.type = "WORKER_ACKNOWLEDGED" -> WorkerAcknowledged(s, e)
      [] e.type = "WORKER_ACTION_EXCEPTION" -> WorkerActionException(s, e)

-----------------------------------------------------------------------------
(* The reduction: what a caller sees.  "receipts" is the receipt appended  *)
(* to the ledger, or nothing.                                              *)

Reduction(r, receipts, replayed) ==
    [scope |-> [r.scope EXCEPT !.receipts = @ \cup receipts],
     outcome |-> r.outcome, emitted |-> IF replayed THEN <<>> ELSE r.effects,
     response |-> r.effects, missing |-> r.missing, reasons |-> r.reasons,
     receipts |-> receipts, replayed |-> replayed]

(* _finish_event: every handled event leaves a receipt. *)
FinishEvent(r, i) ==
    Reduction(r, {[event |-> i.event, sid |-> i.sid, outcome |-> r.outcome,
                   response |-> r.effects, missing |-> r.missing,
                   reasons |-> r.reasons]}, FALSE)

RejectEvent(s, i, reasons) ==
    FinishEvent(Result(s, "REJECTED", CompletionRejectionEffects(i.event), {}, reasons), i)

(* Mutant: a replay hands its effects out again. *)
ReplayEmits(s, r) ==
    Reduction(Result(s, r.outcome, r.response, r.missing, r.reasons), {}, FALSE)

Replay(s, r) ==
    Reduction(Result(s, r.outcome, r.response, r.missing, r.reasons), {}, TRUE)

ReduceFieldEvent(s, i, c) ==
    LET prior == {r \in s.receipts : r.event.id = i.event.id}
        same == {r \in prior : r.event = i.event}
        errors == ReferenceErrors(s, i.event)
    IN  IF same # {} THEN Replay(s, CHOOSE r \in same : TRUE)
        ELSE IF prior # {} THEN Reduction(Refuse(s, "EVENT_ID_CONFLICT"), {}, FALSE)
        ELSE IF \E r \in s.receipts : r.sid = i.sid
          THEN Reduction(Refuse(s, "SERVER_EVENT_ID_CONFLICT"), {}, FALSE)
        ELSE IF errors # {} THEN RejectEvent(s, i, errors)
        ELSE FinishEvent(HandleEvent(s, i.event, c), i)

(* _finalize_reduction: a changed root advances its revision once. *)
JobChanged(old, new, j) ==
    \/ \E t \in Tasks : TaskDef[t].job = j /\ new.task[t] # old.task[t]
    \/ \E g \in Stages : TaskDef[StageTask[g]].job = j /\ new.stage[g] # old.stage[g]
    \/ \E a \in Assignments : AsgDef[a].job = j /\ new.released[a] # old.released[a]

FinalizeScope(old, new) ==
    LET advanced(root) == [root EXCEPT !.rev = @ + 1] IN
    [new EXCEPT
       !.jobRev = [j \in Jobs |-> IF JobChanged(old, new, j)
                                  THEN new.jobRev[j] + 1 ELSE new.jobRev[j]],
       !.day = [d \in PlanDays |-> IF new.day[d] # old.day[d]
                                   THEN advanced(new.day[d]) ELSE new.day[d]],
       !.dir = [x \in Directives |-> IF new.dir[x] # old.dir[x]
                                     THEN advanced(new.dir[x]) ELSE new.dir[x]]]

RawReduction(s, i, c) ==
    IF ~c.ruleSupported
      THEN Reduction(Refuse(s, "UNSUPPORTED_RULE_VERSION"), {}, FALSE)
    ELSE IF i.kind = "FIELD_EVENT" THEN ReduceFieldEvent(s, i, c)
    ELSE Reduction(HandleSignal(s, i, c), {}, FALSE)

Reduce(s, i, c) ==
    LET r == RawReduction(s, i, c) IN
    [r EXCEPT !.scope = FinalizeScope(s, @)]

-----------------------------------------------------------------------------
(* _normalize_reduction_for_durability: the reducer rejects an unsupported *)
(* rule version without a receipt, the ledger wants one.                   *)
NormalizeReduction(i, r) ==
    IF i.kind = "FIELD_EVENT" /\ r.receipts = {}
         /\ r.reasons = {"UNSUPPORTED_RULE_VERSION"}
    THEN FinishEvent(Refuse(r.scope, "UNSUPPORTED_RULE_VERSION"), i)
    ELSE r

Inputs == FieldInputs \cup Signals
IsEvent(i) == i.kind = "FIELD_EVENT"

(* _input_document: what identifies an input in the inbox and the outbox. *)
Key(i) == IF IsEvent(i) THEN <<i.kind, i.event.id>> ELSE <<i.kind, i.id>>
Keys == {Key(i) : i \in Inputs}

(* _insert_outbox: the effects of one input, in order. *)
Emissions(source, effects) ==
    {[source |-> source, ordinal |-> k, type |-> effects[k]] : k \in 1..Len(effects)}

=============================================================================
