----------------------------- MODULE PlanChain -----------------------------
(***************************************************************************)
(* The company plans of M3 (planning/current_plan.py and                   *)
(* planning/current_plan_repository.py): append-only chains of immutable   *)
(* plan revisions, imported by a privileged bootstrap writer and bound to  *)
(* the canonical job roots and plan days that M2 keeps in the same         *)
(* database.                                                               *)
(*                                                                         *)
(* A revision is a record [company, number, previous, content]; its        *)
(* revision_id is a digest of all four, so the record stands for its own   *)
(* identifier.  The M2 side is what the plan reads of it: fixed plan days, *)
(* task definitions and assignments, the jobs hydrated so far, the status  *)
(* of every task and the execution revision of every job.                  *)
(***************************************************************************)
EXTENDS Naturals, FiniteSets, Sequences, SequencesExt

CONSTANTS
    Companies,     \* identifiers of company plans
    PlanDay,       \* plan_day_id -> [worker, date], the M2 plan-day roots
    TaskRoot,      \* task_id -> [job, version, handoff], the M2 task definitions
    Assignment,    \* assignment_id -> [task, days, members], the M2 assignments
    Published,     \* the handoffs M1 has published
    InitialJobs,   \* the jobs M2 has hydrated at the start
    Contents,      \* the revision contents a bootstrap import may present
    MaxRevisions,  \* bound: revisions in one chain
    MaxEdits,      \* bound: field events of M2 over a behaviour
    NONE

ASSUME NoneAssumption == NONE \notin Companies

ASSUME TasksAssumption == IsFiniteSet(DOMAIN TaskRoot)

VARIABLES
    chain,         \* m3_plan_revisions: company -> Seq(revision)
    owner,         \* m3_plan_day_associations: plan day -> company or NONE
    hydrated,      \* the jobs with an M2 execution root
    status,        \* task_id -> "ACTIVE" or "DONE" (any status but DONE)
    jobRevision,   \* job_execution_revision of every job
    edits

planVars == <<chain, owner, hydrated, status, jobRevision, edits>>

Tasks == DOMAIN TaskRoot
Jobs == {TaskRoot[t].job : t \in Tasks}

(***************************************************************************)
(* Plan revisions                                                          *)
(***************************************************************************)

\* The loop of PlanRevision.__post_init__ over its dependencies: what is
\* left of the tasks after n rounds of removing those no remaining task
\* precedes.
Unordered(tasks, edges) ==
    LET left[n \in 0..Cardinality(tasks)] ==
            IF n = 0 THEN tasks
            ELSE {t \in left[n - 1] : \E p \in left[n - 1] : <<p, t>> \in edges}
    IN  left[Cardinality(tasks)]

\* PlanRevision.__post_init__ on the collections of a revision.
ContentOK(x) ==
    /\ \A d, e \in x.days : d # e => /\ d.id # e.id
                                     /\ <<d.worker, d.date>> # <<e.worker, e.date>>
    /\ \A c, k \in x.commitments : c # k => c.id # k.id /\ c.task # k.task
    /\ \A c \in x.commitments : \A w \in c.planned :
           \E d \in x.days : <<d.worker, d.date>> = <<w, c.date>>
    /\ LET placed == {c.task : c \in x.commitments} IN
       /\ \A e \in x.edges : e[1] # e[2] /\ {e[1], e[2]} \subseteq placed
       /\ Unordered(placed, x.edges) = {}

\* What may never change about a task or a commitment once it was planned.
CommitmentIdentity(c) == <<c.id, c.job, c.task, c.version, c.handoff, c.date>>

RevisionOK(r) ==
    /\ (r.number = 0) <=> (r.previous = NONE)
    /\ ContentOK(r.content)

(***************************************************************************)
(* Reading a chain back                                                    *)
(***************************************************************************)

SameTaskOrId(c, k) == c.id = k.id \/ c.task = k.task

\* _history: the whole chain is checked on every read.
HistoryOK(company, history) ==
    /\ \A n \in DOMAIN history :
         /\ history[n].company = company
         /\ history[n].number = n - 1
         /\ history[n].previous = IF n = 1 THEN NONE ELSE history[n - 1]
         /\ RevisionOK(history[n])
    /\ \A n, o \in DOMAIN history :
         \A c \in history[n].content.commitments, k \in history[o].content.commitments :
             SameTaskOrId(c, k) => CommitmentIdentity(c) = CommitmentIdentity(k)

\* Mutant: the days of a source assignment are not compared with the
\* commitment's date.
BindingsIgnoreLineageDays(x, jobs) ==
    /\ \A d \in x.days :
         /\ d.id \in DOMAIN PlanDay
         /\ <<d.worker, d.date>> = <<PlanDay[d.id].worker, PlanDay[d.id].date>>
    /\ \A c \in x.commitments :
         /\ c.job \in jobs
         /\ c.task \in Tasks
         /\ <<c.job, c.version, c.handoff>>
              = <<TaskRoot[c.task].job, TaskRoot[c.task].version, TaskRoot[c.task].handoff>>
         /\ c.handoff \in Published
         /\ \A a \in c.sources : a \in DOMAIN Assignment /\ Assignment[a].task = c.task

\* _validate_bindings: the revision against the canonical M2 roots.
BindingsOK(x, jobs) ==
    /\ \A d \in x.days :
         /\ d.id \in DOMAIN PlanDay
         /\ <<d.worker, d.date>> = <<PlanDay[d.id].worker, PlanDay[d.id].date>>
    /\ \A c \in x.commitments :
         /\ c.job \in jobs
         /\ c.task \in Tasks
         /\ <<c.job, c.version, c.handoff>>
              = <<TaskRoot[c.task].job, TaskRoot[c.task].version, TaskRoot[c.task].handoff>>
         /\ c.handoff \in Published
         /\ \A a \in c.sources :
              /\ a \in DOMAIN Assignment
              /\ Assignment[a].task = c.task
              /\ Assignment[a].days # {}
              /\ \A d \in Assignment[a].days :
                   \E e \in x.days : e.id = d /\ e.date = c.date

\* _validate_stored_associations.
AssociationsOK(company, x) == \A d \in x.days : owner[d.id] = company

\* get_revision: a stored revision is returned only when all of it still
\* checks against the chain, the associations and M2 as they are now.
Readable(company, n) ==
    /\ HistoryOK(company, chain[company])
    /\ AssociationsOK(company, chain[company][n].content)
    /\ BindingsOK(chain[company][n].content, hydrated)

(***************************************************************************)
(* The bootstrap writer                                                    *)
(***************************************************************************)

\* Mutant: only the head revisions are searched for earlier owners.
OwnershipOfHeadsOnly(company, x) ==
    \A other \in Companies : chain[other] # <<>> =>
        \A c \in x.commitments, k \in Last(chain[other]).content.commitments :
            SameTaskOrId(c, k) => /\ other = company
                                  /\ CommitmentIdentity(c) = CommitmentIdentity(k)

\* The matches import_revision looks up over all plans and all of history.
OwnershipOK(company, x) ==
    \A other \in Companies : \A n \in DOMAIN chain[other] :
        \A c \in x.commitments, k \in chain[other][n].content.commitments :
            SameTaskOrId(c, k) => /\ other = company
                                  /\ CommitmentIdentity(c) = CommitmentIdentity(k)

ImportAccepted(r) ==
    /\ r.number = Len(chain[r.company])
    /\ r.previous = IF r.number = 0 THEN NONE ELSE Last(chain[r.company])
    /\ HistoryOK(r.company, chain[r.company])
    /\ \A d \in r.content.days : owner[d.id] \in {NONE, r.company}
    /\ BindingsOK(r.content, hydrated)
    /\ OwnershipOK(r.company, r.content)

\* import_revision appends an exact child of the head; an exact replay of a
\* stored revision returns it, and everything else rolls back, so neither
\* changes the database.
ImportRevision(company, number, previous, content) ==
    LET r == [company |-> company, number |-> number,
              previous |-> previous, content |-> content]
    IN  /\ number < MaxRevisions
        /\ ImportAccepted(r)
        /\ RevisionOK(r)
        /\ owner' = [d \in DOMAIN owner |->
                       IF \E e \in content.days : e.id = d THEN company ELSE owner[d]]
        /\ chain' = [chain EXCEPT ![company] = Append(@, r)]
        /\ UNCHANGED <<hydrated, status, jobRevision, edits>>

\* The parents an import may name: none, or any stored revision, stale ones
\* and those of another company included.
StoredRevisions == UNION {Range(chain[c]) : c \in Companies}

(***************************************************************************)
(* M2, as the plan sees it                                                 *)
(***************************************************************************)

\* hydrate_job_execution_root stores a job's first execution root.
HydrateJob(j) ==
    /\ j \notin hydrated
    /\ hydrated' = hydrated \cup {j}
    /\ UNCHANGED <<chain, owner, status, jobRevision, edits>>

\* A field event that completes a task, or changes something else of its job
\* (next = the old status): the job root is stored with its next revision.
FieldEvent(t, next) ==
    /\ TaskRoot[t].job \in hydrated
    /\ status[t] # "DONE"
    /\ edits < MaxEdits
    /\ edits' = edits + 1
    /\ status' = [status EXCEPT ![t] = next]
    /\ jobRevision' = [jobRevision EXCEPT ![TaskRoot[t].job] = @ + 1]
    /\ UNCHANGED <<chain, owner, hydrated>>

PlanInit ==
    /\ chain = [c \in Companies |-> <<>>]
    /\ owner = [d \in DOMAIN PlanDay |-> NONE]
    /\ hydrated = InitialJobs
    /\ status = [t \in Tasks |-> "ACTIVE"]
    /\ jobRevision = [j \in Jobs |-> 0]
    /\ edits = 0

PlanNext ==
    \/ \E c \in Companies, n \in 0..MaxRevisions, p \in StoredRevisions \cup {NONE},
          x \in Contents : ImportRevision(c, n, p, x)
    \/ \E j \in Jobs : HydrateJob(j)
    \/ \E t \in Tasks, next \in {"ACTIVE", "DONE"} : FieldEvent(t, next)

(***************************************************************************)
(* Properties                                                              *)
(***************************************************************************)

\* Whatever import_revision accepts, from whichever parent it was prepared
\* and whatever the field does afterwards, every stored revision of every
\* plan passes the checks of get_revision, and no other company plans one of
\* its tasks or commitments: an import never makes a chain unreadable, and
\* ownership survives the revision that drops the placement.
StoredPlanReadable ==
    \A c \in Companies : \A n \in DOMAIN chain[c] :
        /\ Readable(c, n)
        /\ \A o \in Companies \ {c} : \A m \in DOMAIN chain[o] :
             \A x \in chain[c][n].content.commitments,
                y \in chain[o][m].content.commitments : ~SameTaskOrId(x, y)
=============================================================================
