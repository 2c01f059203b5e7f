-------------------------- MODULE EvaluationInput --------------------------
(***************************************************************************)
(* From an unavailability report of M2 to a durable M3 evaluation input    *)
(* (planning/m2_bridge.py, m3_unavailability_impact.py,                    *)
(* evaluation_input.py and evaluation_repository.py), on top of the plan   *)
(* chains.                                                                 *)
(*                                                                         *)
(* record_evaluation_input reads a snapshot of the current plan in one     *)
(* read transaction (ProduceSnapshot) and rebuilds and stores the input in *)
(* a later write transaction (RecordInput); plan imports and field events  *)
(* of other connections commit in between.                                 *)
(***************************************************************************)
EXTENDS PlanChain

G == INSTANCE Graphs

CONSTANT MaxInputs     \* bound: evaluation inputs stored

VARIABLES
    requests,      \* the requests the bridge has built from M2 reports
    trusted,       \* the CurrentPlanSnapshot between the two transactions
    inputs         \* m3_evaluation_inputs

evaluationVars == <<chain, owner, hydrated, status, jobRevision, edits, requests, trusted, inputs>>

(***************************************************************************)
(* The bridge                                                              *)
(***************************************************************************)

\* The assignments of the hydrated jobs that are linked to a plan day.
Linked(d) ==
    {a \in DOMAIN Assignment : /\ d \in Assignment[a].days
                               /\ TaskRoot[Assignment[a].task].job \in hydrated}

JobOf(a) == TaskRoot[Assignment[a].task].job

\* _validate_request: what the evaluator asks of the request again.
RequestOK(q) ==
    /\ \A a \in q.assignments : /\ q.day \in Assignment[a].days
                                /\ PlanDay[q.day].worker \in Assignment[a].members
    /\ \A r, o \in q.roots : r # o => r[1] # o[1]
    /\ {r[1] : r \in q.roots} = {JobOf(a) : a \in q.assignments}

\* A worker reports UNAVAILABLE_TODAY: M2 keeps the roots as they were, and
\* build_request makes the request of the immutable historical context.
ReportUnavailable(d) ==
    /\ edits < MaxEdits
    /\ edits' = edits + 1
    /\ requests' = requests \cup
         {[event |-> Cardinality(requests), day |-> d, assignments |-> Linked(d),
           roots |-> {<<JobOf(a), jobRevision[JobOf(a)]>> : a \in Linked(d)}]}
    /\ UNCHANGED <<chain, owner, hydrated, status, jobRevision, trusted, inputs>>

(***************************************************************************)
(* The direct impact                                                       *)
(***************************************************************************)

\* _scope_from_current, and the same selection in produce_current_snapshot.
Scope(x, q) ==
    {c \in x.commitments :
        /\ status[c.task] # "DONE"
        /\ \/ c.date = PlanDay[q.day].date /\ PlanDay[q.day].worker \in c.planned
           \/ c.sources \cap q.assignments # {}}

\* evaluate_unavailability_impact over a complete scope.
Affected(scope, q) == {c \in scope : PlanDay[q.day].worker \in c.planned}

ImpactOutcome(scope, q) ==
    CASE Affected(scope, q) # {} -> "REPLAN_REQUIRED"
      [] Affected(scope, q) = {} /\ q.assignments = {} /\ scope = {} -> "NO_LINKED_COMMITMENTS"
      [] OTHER -> "NO_REPLAN_REQUIRED"

\* The commitments evaluate_unavailability_impact refuses to judge.
ScopeOK(scope, q) ==
    \A c \in scope :
        /\ \A a \in c.sources \cap q.assignments : JobOf(a) = c.job
        /\ PlanDay[q.day].worker \in c.planned \/ c.sources \cap q.assignments # {}

(***************************************************************************)
(* The dependency impact                                                   *)
(***************************************************************************)

\* _dependency_impacts: pairs (task, direct origin) propagate along the
\* dependencies of the revision through tasks that are not DONE.
DependencyImpacts(edges, active, direct) ==
    LET reached[n \in 0..Cardinality(active)] ==
            IF n = 0 THEN {<<t, t>> : t \in direct}
            ELSE reached[n - 1] \cup
                 {<<f[1][2], f[2][2]>> : f \in {g \in edges \X reached[n - 1] :
                                        g[1][1] = g[2][1] /\ g[1][2] \in active}}
        found == reached[Cardinality(active)]
    IN  {[task |-> t, origins |-> {o \in direct : <<t, o>> \in found}] :
            t \in {p[1] : p \in found} \ direct}

(***************************************************************************)
(* The evaluation input                                                    *)
(***************************************************************************)

\* The task preconditions of _build_input, read in its own transaction.
TaskPreconditions(x) ==
    {[task |-> c.task, version |-> c.version, handoff |-> c.handoff, job |-> c.job,
      jobRevision |-> jobRevision[c.job], status |-> status[c.task]] : c \in x.commitments}

\* _build_input once the snapshot is known to be current.
BuildInput(q, r) ==
    LET x      == r.content
        scope  == Scope(x, q)
        active == {c \in x.commitments : status[c.task] # "DONE"}
        direct == Affected(scope, q)
    IN  [request |-> q, base |-> r, scope |-> scope, days |-> x.days,
         active |-> active, tasks |-> TaskPreconditions(x),
         sources |-> UNION {c.sources : c \in x.commitments},
         direct |-> direct, outcome |-> ImpactOutcome(scope, q), edges |-> x.edges,
         impacts |-> DependencyImpacts(x.edges, {c.task : c \in active},
                                       {c.task : c \in direct})]

\* M3EvaluationInput.__post_init__: the input is checked as a whole.
InputOK(v) ==
    LET directTasks == {c.task : c \in v.direct}
        leadsTo == G!ConnectionsIn([node |-> Tasks, edge |-> v.edges])
    IN
    /\ \E d \in v.days : /\ d.id = v.request.day
                         /\ d.worker = PlanDay[v.request.day].worker
                         /\ d.date = PlanDay[v.request.day].date
    /\ \A c \in v.active :
         /\ \E t \in v.tasks :
              /\ <<t.task, t.job, t.version, t.handoff>> = <<c.task, c.job, c.version, c.handoff>>
              /\ t.status # "DONE"
         /\ \A w \in c.planned : \E d \in v.days : <<d.worker, d.date>> = <<w, c.date>>
         /\ \A a \in c.sources : a \in v.sources /\ Assignment[a].task = c.task
    /\ v.direct \subseteq v.active
    /\ {i.task : i \in v.impacts} \subseteq {c.task : c \in v.active} \ directTasks
    /\ (v.direct # {}) <=> (v.outcome = "REPLAN_REQUIRED")
    /\ \A c \in v.direct : PlanDay[v.request.day].worker \in c.planned
    /\ \A i \in v.impacts :
         /\ i.origins # {} /\ i.origins \subseteq directTasks
         /\ \A o \in i.origins : leadsTo[o, i.task]

\* _validate_revision_evidence: the base revision of an input in its chain.
RevisionEvidenceOK(v) ==
    LET history == chain[v.base.company] IN
    /\ HistoryOK(v.base.company, history)
    /\ v.base.number < Len(history)
    /\ history[v.base.number + 1] = v.base
    /\ v.edges = v.base.content.edges

\* produce_current_snapshot.
ProduceSnapshot(q) ==
    LET company == owner[q.day]
        head    == Last(chain[company])
    IN  /\ trusted = NONE
        /\ Cardinality(inputs) < MaxInputs
        /\ RequestOK(q)
        /\ company # NONE
        /\ Readable(company, Len(chain[company]))
        /\ \E d \in head.content.days : d.id = q.day
        /\ trusted' = [request |-> q, revision |-> head, scope |-> Scope(head.content, q)]
        /\ UNCHANGED <<chain, owner, hydrated, status, jobRevision, edits, requests, inputs>>

\* Mutant: the head is not compared with the snapshot's revision.
StillCurrentButForHead(s) ==
    /\ owner[s.request.day] = s.revision.company
    /\ Scope(s.revision.content, s.request) = s.scope

\* The checks _build_input makes before it trusts the snapshot again: its
\* association, its revision and its scope are those of this transaction.
StillCurrent(s) ==
    /\ owner[s.request.day] = s.revision.company
    /\ chain[s.revision.company] # <<>>
    /\ Last(chain[s.revision.company]) = s.revision
    /\ Readable(s.revision.company, Len(chain[s.revision.company]))
    /\ Scope(s.revision.content, s.request) = s.scope

Recordable(s) ==
    /\ StillCurrent(s)
    /\ ScopeOK(s.scope, s.request)
    /\ InputOK(BuildInput(s.request, s.revision))
    /\ RevisionEvidenceOK(BuildInput(s.request, s.revision))

\* The write transaction of record_evaluation_input: it stores the rebuilt
\* input under its digest (a replay finds it stored), or raises and stores
\* nothing.
RecordInput ==
    /\ trusted # NONE
    /\ trusted' = NONE
    /\ \/ /\ Recordable(trusted)
          /\ inputs' = inputs \cup {BuildInput(trusted.request, trusted.revision)}
       \/ ~Recordable(trusted) /\ inputs' = inputs
    /\ UNCHANGED <<chain, owner, hydrated, status, jobRevision, edits, requests>>

EvaluationInit ==
    /\ PlanInit
    /\ requests = {}
    /\ trusted = NONE
    /\ inputs = {}

EvaluationNext ==
    \/ PlanNext /\ UNCHANGED <<requests, trusted, inputs>>
    \/ \E d \in DOMAIN PlanDay : ReportUnavailable(d)
    \/ \E q \in requests : ProduceSnapshot(q)
    \/ RecordInput

EvaluationSpec == EvaluationInit /\ [][EvaluationNext]_evaluationVars

(***************************************************************************)
(* Properties                                                              *)
(***************************************************************************)

\* An input is stored only with the evidence that is current in the
\* transaction that stores it, however old the snapshot it started from: the
\* head of the plan that owns the day, and the status and job revision of
\* every planned task as M2 has them then.
RecordedInputIsCurrent ==
    [][\A v \in inputs' \ inputs :
          /\ v.base.company = owner'[v.request.day]
          /\ v.base = Last(chain'[v.base.company])
          /\ \A c \in v.base.content.commitments :
               /\ c \in v.active <=> status'[c.task] # "DONE"
               /\ \E t \in v.tasks : /\ t.task = c.task
                                     /\ t.status = status'[c.task]
                                     /\ t.jobRevision = jobRevision'[c.job]]_evaluationVars

\* The tasks of a set that chains of dependencies inside it lead to from one
\* of them: those in every part of the set that holds it and that no
\* dependency leaves.
Follows(edges, tasks, from) ==
    {t \in tasks : \A S \in SUBSET tasks :
        from \in S /\ (\A e \in edges : e[1] \in S /\ e[2] \in tasks => e[2] \in S) => t \in S}

\* The impact of a stored input is what the words of the plan mean: directly
\* affected is every unfinished commitment of that date the worker is planned
\* for, and nothing else (a historical link alone, or a link to another date,
\* affects nothing); affected by dependency is every other unfinished task
\* that a chain of unfinished tasks leads to from one of those, each with all
\* of its origins.
ImpactIsReachability ==
    \A v \in inputs :
        LET day    == PlanDay[v.request.day]
            active == {c.task : c \in v.active}
            direct == {c \in v.active : c.date = day.date /\ day.worker \in c.planned}
            origin == {c.task : c \in direct}
            leads(t) == {o \in origin : t \in Follows(v.edges, active, o)}
        IN  /\ v.direct = direct
            /\ v.impacts = {[task |-> t, origins |-> leads(t)] :
                              t \in {u \in active \ origin : leads(u) # {}}}

=============================================================================
