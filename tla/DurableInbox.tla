----------------------------- MODULE DurableInbox -----------------------------
(***************************************************************************)
(* The durable M2 repository (field/repository.py) over SQLite.  A request *)
(* runs two transactions: accept_input stores the input in the inbox and   *)
(* claims its server event id, process_input loads the roots the input     *)
(* needs, reduces, and commits roots, receipt, evidence, outbox and result *)
(* together.  BEGIN IMMEDIATE makes each transaction one atomic step; the  *)
(* requests of several clients interleave between them, and a process may  *)
(* die after the first.                                                    *)
(***************************************************************************)
EXTENDS M2Reducer

CONSTANTS
    Clients,     \* concurrent requests
    MaxCrashes   \* bound on the requests that die between the transactions

ASSUME CrashAssumption == MaxCrashes \in Nat
ASSUME KeyAssumption == None \notin Keys

VARIABLES
    roots,       \* the canonical root tables: a scope without receipts
    inbox,       \* m2_input_inbox: input key -> row
    identities,  \* m2_evidence_identities: an item and its first owner
    usages,      \* m2_evidence_usages: <<event id, evidence id>>
    conflicts,   \* m2_input_conflicts
    outbox,      \* m2_effect_outbox
    session,     \* client -> key of the input it had accepted, or None
    answers,     \* results returned to clients so far
    crashes

stored == <<roots, inbox, identities, usages, conflicts, outbox>>
vars == <<stored, session, answers, crashes>>

-----------------------------------------------------------------------------
(* The inbox. *)

(* _input_document: the server event id is no part of the payload. *)
Payload(i) == IF IsEvent(i) THEN i.event ELSE i
Presented(i) == IF IsEvent(i) THEN i.sid ELSE None

KnownKeys == DOMAIN inbox
Rows == {inbox[k] : k \in KnownKeys}
CompletedRows == {row \in Rows : row.status = "COMPLETED"}
Claimed(row) == IF row.owner = None THEN Presented(row.input) ELSE None

Ledger == UNION {row.receipts : row \in Rows}

-----------------------------------------------------------------------------
(* _hydrate: the part of the stored state that is loaded for an input. *)

EvidenceIds(i) == IF IsEvent(i) THEN {v.id : v \in i.event.attachments} ELSE {}
OwnersOf(i) == {o \in identities : o.item.id \in EvidenceIds(i)}

Routed(a) == AsgDef[a].job \in roots.jobs

(* An unavailable worker's day brings in every assignment linked to it. *)
LinkedAssignments(i) ==
    IF IsEvent(i) /\ i.event.type = "UNAVAILABLE_TODAY_REPORTED"
    THEN {a \in Assignments : Routed(a) /\ i.event.day \in AsgDef[a].days} ELSE {}

AssignmentRefs(i) ==
    ((IF IsEvent(i) THEN {i.event.asg} ELSE {}) \cup LinkedAssignments(i)
       \cup {o.asg : o \in OwnersOf(i)}) \ {None}

TaskRefs(i) ==
    ({Payload(i).task} \cup {o.task : o \in OwnersOf(i)}
       \cup {AsgDef[a].task : a \in {b \in AssignmentRefs(i) : Routed(b)}}) \ {None}

(* A completion sees every STOP in force that its own references reach. *)
StopsFor(e) ==
    {x \in roots.dirs :
        /\ DirDef[x].class = "STOP" /\ roots.dir[x].stopInForce
        /\ DirDef[x].job \in {None, e.job}
        /\ IF DirDef[x].task # None THEN DirDef[x].task = e.task
           ELSE IF DirDef[x].asg # None THEN DirDef[x].asg = e.asg
           ELSE IF DirDef[x].day # None THEN DirDef[x].day = e.day
           ELSE DirDef[x].worker = e.actor}

(* Mutant: the stream of a directive is not loaded. *)
NeedsStreamNever(i) == FALSE

NeedsStream(i) == Payload(i).type \in {"WORKER_ACKNOWLEDGED", "DIRECTIVE_E1_ELAPSED"}

(* The named directive, the STOPs, the stream of an acknowledged or timed  *)
(* directive, and the predecessors of all these.                           *)
DirectiveRefs(i) ==
    LET target == {Payload(i).dir} \cap roots.dirs
        stops == IF IsEvent(i) /\ i.event.type \in CompletionEvents
                 THEN StopsFor(i.event) ELSE {}
        peers == IF NeedsStream(i)
                 THEN {y \in roots.dirs : \E x \in target : StreamKey(y) = StreamKey(x)}
                 ELSE {}
        base == target \cup stops \cup peers
    IN  base \cup (roots.dirs \cap UNION {Superseded[x] : x \in base})

HydratedJobs(i) ==
    LET dirs == DirectiveRefs(i)
        tasks == (TaskRefs(i) \cup {DirDef[x].task : x \in dirs}) \ {None}
        asgs == (AssignmentRefs(i) \cup {DirDef[x].asg : x \in dirs}) \ {None}
    IN  ((IF IsEvent(i) THEN {i.event.job} ELSE {})
           \cup {o.job : o \in OwnersOf(i)} \cup {DirDef[x].job : x \in dirs}
           \cup {TaskDef[t].job : t \in tasks} \cup {AsgDef[a].job : a \in asgs})
        \cap roots.jobs

HydratedReceipts(i) ==
    LET dirs == DirectiveRefs(i)
        tasks == (TaskRefs(i) \cup {DirDef[x].task : x \in dirs}) \ {None}
    IN  {r \in Ledger :
           \/ IsEvent(i) /\ r.event.id = i.event.against
           \/ \E x \in dirs : r.event.id = roots.dir[x].acked
           \/ r.event.task \in tasks
           \/ \E v \in EvidenceIds(i) : <<r.event.id, v>> \in usages}

Hydrate(i) ==
    [roots EXCEPT
        !.jobs = HydratedJobs(i),
        !.days = ({Payload(i).day} \cup {DirDef[x].day : x \in DirectiveRefs(i)}) \cap @,
        !.dirs = DirectiveRefs(i),
        !.receipts = HydratedReceipts(i)]

-----------------------------------------------------------------------------
(* What makes process_input raise and roll back. *)

(* Mutant: an acknowledgement may not touch the plan day. *)
AcknowledgedPlanNone(s, x) == {}

(* The day whose confirmed plan an acknowledgement may change. *)
AcknowledgedPlan(s, x) ==
    IF /\ DirDef[x].class = "ACTION" /\ DirDef[x].proposed # None
       /\ HasDay(s, DirDef[x].day)
    THEN {<<"PLAN_DAY", DirDef[x].day>>} ELSE {}

(* _allowed_mutation_roots: the roots an input may change, by its type. *)
AllowedMutations(i, s) ==
    LET p == Payload(i)
        plan(d) == IF HasDay(s, d) THEN {<<"PLAN_DAY", d>>} ELSE {}
        job(t) == IF HasTask(s, t) THEN {<<"JOB_EXECUTION", TaskDef[t].job>>} ELSE {}
        directive == IF HasDirective(s, p.dir) THEN {<<"DIRECTIVE", p.dir>>} ELSE {}
    IN  CASE p.type \in {"DAY_PLAN_ACTIVATED", "UNAVAILABLE_TODAY_REPORTED",
                         "DAY_CLOSE_REPORTED", "START_WINDOW_ELAPSED",
                         "END_OF_DAY_POLICY_SATISFIED"} -> plan(p.day)
          [] p.type \in CompletionEvents \cup {"WORK_START_BLOCKED",
                "SITE_PROBLEM_REPORTED", "TECHNICAL_WAIT_REPORTED",
                "COMPLETION_DISPUTED", "RESOURCE_MISSING_REPORTED"} -> job(p.task)
          [] p.type = "WORKER_ACKNOWLEDGED" -> directive \cup
                (IF directive # {} THEN AcknowledgedPlan(s, p.dir) ELSE {})
          [] p.type = "WORKER_ACTION_EXCEPTION" -> directive \cup
                (IF directive # {} /\ DirDef[p.dir].class = "STOP"
                 THEN job(DirDef[p.dir].task) ELSE {})
          [] p.type = "DIRECTIVE_E1_ELAPSED" -> directive
          [] OTHER -> {}

ChangedRoots(old, new) ==
    {<<"JOB_EXECUTION", j>> : j \in {k \in Jobs : new.jobRev[k] # old.jobRev[k]}}
    \cup {<<"PLAN_DAY", d>> : d \in {k \in PlanDays : new.day[k] # old.day[k]}}
    \cup {<<"DIRECTIVE", x>> : x \in {k \in Directives : new.dir[k] # old.dir[k]}}

(* _evidence_projection_scope_is_canonical *)
EvidenceScopeCanonical(s, e) ==
    e.attachments # {} =>
        /\ e.job # None => e.job \in s.jobs
        /\ e.task # None => HasTask(s, e.task) /\ e.job = TaskDef[e.task].job
        /\ e.asg # None => /\ HasAssignment(s, e.asg) /\ HasTask(s, e.task)
                           /\ AsgDef[e.asg].job = e.job /\ AsgDef[e.asg].task = e.task
        /\ e.day # None => /\ HasDay(s, e.day)
                           /\ HasAssignment(s, e.asg) => e.day \in AsgDef[e.asg].days
        /\ e.stage # None => HasTask(s, e.task) /\ StageTask[e.stage] = e.task

(* An attachment whose identity is already taken, with another content or  *)
(* by another owner.                                                       *)
EvidenceTaken(v, e) ==
    \E o \in identities :
        /\ o.item.id = v.id
        /\ \/ o.item # v
           \/ o.job # e.job
           \/ o.task # e.task
           \/ o.asg # None /\ e.asg # None /\ o.asg # e.asg
           \/ o.stage # None /\ e.stage # None /\ o.stage # e.stage

(* _validate_reduction_proof_version: the stored preimage of an unavailable *)
(* report is read back only if it holds the day and linked jobs alone.     *)
ProofReadable(i, s) ==
    IsEvent(i) /\ i.event.type = "UNAVAILABLE_TODAY_REPORTED" /\ i.event.day # None =>
        /\ HasDay(s, i.event.day)
        /\ \A j \in s.jobs : \E a \in Assignments :
              AsgDef[a].job = j /\ i.event.day \in AsgDef[a].days

(* A linked assignment must include the worker of the day. *)
LinksDisagree(i, s) ==
    \E a \in LinkedAssignments(i) :
        HasDay(s, i.event.day) /\ DayDef[i.event.day].worker \notin AsgDef[a].members

(* Completed inputs with the same evidence are read back first. *)
PriorEvidenceUnreadable(i) ==
    \E row \in CompletedRows :
        EvidenceIds(row.input) \cap EvidenceIds(i) # {} /\ ~row.readable

StorageError(i, s, r) ==
    \/ PriorEvidenceUnreadable(i)
    \/ LinksDisagree(i, s)
    \/ ~(ChangedRoots(s, r.scope) \subseteq AllowedMutations(i, s))
    \/ /\ r.receipts # {} /\ r.outcome # "REJECTED"
       /\ \/ ~EvidenceScopeCanonical(s, i.event)
          \/ \E v \in i.event.attachments : EvidenceTaken(v, i.event)

-----------------------------------------------------------------------------
(* The transactions. *)

ResultOf(r) == [outcome |-> r.outcome, response |-> r.response,
                missing |-> r.missing, reasons |-> r.reasons]

(* Mutant: nobody looks who claimed the server id. *)
ClaimOwnerUnchecked(i) == None

(* The key whose row already claims the server id presented with an input. *)
ClaimOwner(i) ==
    IF \E k \in KnownKeys : Presented(i) # None /\ Claimed(inbox[k]) = Presented(i)
    THEN CHOOSE k \in KnownKeys : Claimed(inbox[k]) = Presented(i)
    ELSE None

Conflict(i, kind, owner) ==
    [key |-> Key(i), kind |-> kind, payload |-> Payload(i), owner |-> owner]

(* accept_input, a first submission: the row is stored with its context,   *)
(* whether or not its server id is free.                                   *)
AcceptNew(c, i, x) ==
    LET owner == ClaimOwner(i)
        row == [input |-> i, ctx |-> x, owner |-> owner, status |-> "RECEIVED",
                result |-> None, receipts |-> {}, readable |-> TRUE]
    IN  /\ session[c] = None /\ Key(i) \notin KnownKeys
        /\ inbox' = [k \in KnownKeys \cup {Key(i)} |-> IF k = Key(i) THEN row ELSE inbox[k]]
        /\ conflicts' = IF owner = None THEN conflicts
                        ELSE conflicts \cup {Conflict(i, "SERVER_EVENT_ID_COLLISION", owner)}
        /\ session' = [session EXCEPT ![c] = Key(i)]
        /\ UNCHANGED <<roots, identities, usages, outbox, answers, crashes>>

(* Mutants: a resubmission replaces the stored input, or is told to wait   *)
(* and not processed.                                                      *)
AcceptPendingRefreshes(c, i) ==
    /\ session[c] = None /\ Key(i) \in KnownKeys
    /\ Payload(i) = Payload(inbox[Key(i)].input)
    /\ inbox[Key(i)].status = "RECEIVED"
    /\ session' = [session EXCEPT ![c] = Key(i)]
    /\ inbox' = [inbox EXCEPT ![Key(i)].input = i]
    /\ UNCHANGED <<roots, identities, usages, conflicts, outbox, answers, crashes>>
AcceptPendingWaits(c, i) ==
    /\ session[c] = None /\ Key(i) \in KnownKeys
    /\ Payload(i) = Payload(inbox[Key(i)].input)
    /\ inbox[Key(i)].status = "RECEIVED"
    /\ UNCHANGED vars

(* accept_input, a resubmission of an input that is still RECEIVED. *)
AcceptPending(c, i) ==
    /\ session[c] = None /\ Key(i) \in KnownKeys
    /\ Payload(i) = Payload(inbox[Key(i)].input)
    /\ inbox[Key(i)].status = "RECEIVED"
    /\ session' = [session EXCEPT ![c] = Key(i)]
    /\ UNCHANGED <<stored, answers, crashes>>

(* accept_input, the id of a stored input with another payload: recorded   *)
(* once, and refused.                                                      *)
AcceptConflict(c, i) ==
    /\ session[c] = None /\ Key(i) \in KnownKeys
    /\ Payload(i) # Payload(inbox[Key(i)].input)
    /\ conflicts' = conflicts \cup {Conflict(i, "INPUT_ID_PAYLOAD_MISMATCH", Key(i))}
    /\ UNCHANGED <<roots, inbox, identities, usages, outbox, session, answers, crashes>>

(* The stored result, or an error if its proof cannot be read back. *)
Answer(k) ==
    answers' = IF inbox[k].readable
               THEN answers \cup {[key |-> k, result |-> inbox[k].result]}
               ELSE answers

(* accept_input, a retry of a completed input. *)
AcceptCompleted(c, i) ==
    /\ session[c] = None /\ Key(i) \in KnownKeys
    /\ Payload(i) = Payload(inbox[Key(i)].input)
    /\ inbox[Key(i)].status = "COMPLETED"
    /\ Answer(Key(i))
    /\ UNCHANGED <<stored, session, crashes>>

(* process_input, the input was completed by another request meanwhile. *)
ProcessCompleted(c) ==
    /\ session[c] # None /\ inbox[session[c]].status = "COMPLETED"
    /\ Answer(session[c])
    /\ session' = [session EXCEPT ![c] = None]
    /\ UNCHANGED <<stored, crashes>>

(* Rows and answer of a completed input. *)
CompleteInbox(c, r, receipts, readable) ==
    LET k == session[c] IN
    /\ inbox' = [inbox EXCEPT ![k].status = "COMPLETED", ![k].result = ResultOf(r),
                              ![k].receipts = receipts, ![k].readable = readable]
    /\ answers' = answers \cup {[key |-> k, result |-> ResultOf(r)]}
    /\ session' = [session EXCEPT ![c] = None]

(* Mutant: an accepted input is processed whatever became of it. *)
PendingAnyStatus(c) == session[c] # None

Pending(c) ==
    session[c] # None /\ inbox[session[c]].status = "RECEIVED"

(* process_input, the server id belongs to another input: rejected without *)
(* a receipt, since the ledger holds a server id once.                     *)
ProcessCollision(c) ==
    /\ Pending(c) /\ inbox[session[c]].owner # None
    /\ CompleteInbox(c, Reduction(Refuse(roots, "SERVER_EVENT_ID_CONFLICT"), {}, FALSE),
                     {}, TRUE)
    /\ UNCHANGED <<roots, identities, usages, conflicts, outbox, crashes>>

DurableReduction(row) ==
    NormalizeReduction(row.input, Reduce(Hydrate(row.input), row.input, row.ctx))

(* Mutant: only what an applied event carried is registered. *)
PersistEvidenceApplied(s, receipts) ==
    /\ identities' = identities \cup UNION
          {{[item |-> v, job |-> r.event.job, task |-> r.event.task,
             asg |-> r.event.asg, stage |-> r.event.stage] : v \in r.event.attachments}
             : r \in {q \in receipts : q.outcome = "APPLIED"}}
    /\ usages' = usages

(* _persist_evidence: an item keeps its first content and owner, and a     *)
(* receipt that does not clash with them is one more use of the item.      *)
PersistEvidence(s, receipts) ==
    LET canonical == {r \in receipts : EvidenceScopeCanonical(s, r.event)} IN
    /\ identities' = identities \cup UNION
          {{[item |-> v, job |-> r.event.job, task |-> r.event.task,
             asg |-> r.event.asg, stage |-> r.event.stage]
               : v \in {w \in r.event.attachments :
                           \A o \in identities : o.item.id # w.id}} : r \in canonical}
    /\ usages' = usages \cup UNION
          {{<<r.event.id, v.id>> : v \in {w \in r.event.attachments :
                                            ~EvidenceTaken(w, r.event)}} : r \in canonical}

(* Everything that a reduction r of the hydrated scope s implies. *)
CommitReduction(c, i, s, r) ==
    /\ ~StorageError(i, s, r)
    /\ roots' = [r.scope EXCEPT !.jobs = roots.jobs, !.days = roots.days,
                                !.dirs = roots.dirs, !.receipts = {}]
    /\ PersistEvidence(s, r.receipts)
    /\ outbox' = outbox \cup Emissions(Key(i), r.emitted)
    /\ CompleteInbox(c, r, r.receipts, ProofReadable(i, s))
    /\ UNCHANGED <<conflicts, crashes>>

(* process_input: reduce what is hydrated with the stored context, and     *)
(* commit.                                                                 *)
ProcessReduction(c) ==
    LET row == inbox[session[c]] IN
    /\ Pending(c) /\ row.owner = None
    /\ CommitReduction(c, row.input, Hydrate(row.input), DurableReduction(row))

(* Mutant: the effects survive the rollback. *)
ProcessRolledBackPartly(c) ==
    LET row == inbox[session[c]] IN
    /\ Pending(c) /\ row.owner = None
    /\ StorageError(row.input, Hydrate(row.input), DurableReduction(row))
    /\ session' = [session EXCEPT ![c] = None]
    /\ outbox' = outbox \cup Emissions(session[c], DurableReduction(row).emitted)
    /\ UNCHANGED <<roots, inbox, identities, usages, conflicts, answers, crashes>>

(* process_input raises: everything is rolled back, the input stays. *)
ProcessRolledBack(c) ==
    LET row == inbox[session[c]] IN
    /\ Pending(c) /\ row.owner = None
    /\ StorageError(row.input, Hydrate(row.input), DurableReduction(row))
    /\ session' = [session EXCEPT ![c] = None]
    /\ UNCHANGED <<stored, answers, crashes>>

(* The request dies after its first transaction. *)
Crash(c) ==
    /\ session[c] # None /\ crashes < MaxCrashes
    /\ session' = [session EXCEPT ![c] = None]
    /\ crashes' = crashes + 1
    /\ UNCHANGED <<stored, answers>>

-----------------------------------------------------------------------------
(* Materialisation of roots. *)

CreatePlanDayRoot(d) ==
    /\ d \notin roots.days
    /\ roots' = [roots EXCEPT !.days = @ \cup {d}]
    /\ UNCHANGED <<inbox, identities, usages, conflicts, outbox, session, answers, crashes>>

CreateJobExecutionRoot(j) ==
    /\ j \notin roots.jobs
    /\ \A a \in Assignments : AsgDef[a].job = j => AsgDef[a].days \subseteq roots.days
    /\ roots' = [roots EXCEPT !.jobs = @ \cup {j}]
    /\ UNCHANGED <<inbox, identities, usages, conflicts, outbox, session, answers, crashes>>

CreateDirectiveRoot(x) ==
    /\ x \notin roots.dirs
    /\ ValidNewDirective(roots, x)
    /\ roots' = [roots EXCEPT !.dirs = @ \cup {x}]
    /\ UNCHANGED <<inbox, identities, usages, conflicts, outbox, session, answers, crashes>>

-----------------------------------------------------------------------------
Init ==
    /\ roots = EmptyScope
    /\ inbox = [k \in {} |-> None]
    /\ identities = {} /\ usages = {} /\ conflicts = {} /\ outbox = {}
    /\ session = [c \in Clients |-> None]
    /\ answers = {} /\ crashes = 0

ProcessInput(c) ==
    \/ ProcessCompleted(c)
    \/ ProcessCollision(c)
    \/ ProcessReduction(c)
    \/ ProcessRolledBack(c)

Next ==
    \/ \E d \in PlanDays : CreatePlanDayRoot(d)
    \/ \E j \in Jobs : CreateJobExecutionRoot(j)
    \/ \E x \in Directives : CreateDirectiveRoot(x)
    \/ \E c \in Clients, i \in Inputs :
          \/ \E x \in Contexts : AcceptNew(c, i, x)
          \/ AcceptPending(c, i)
          \/ AcceptConflict(c, i)
          \/ AcceptCompleted(c, i)
    \/ \E c \in Clients : ProcessInput(c) \/ Crash(c)

Spec == Init /\ [][Next]_vars

(* The server finishes a request it has begun: of the steps of Next, those *)
(* of ProcessInput(c) and no other end the session of c without a crash.   *)
(* A device repeats the inputs for which it has no result.                 *)
Served(c) ==
    /\ session[c] # None
    /\ session' = [session EXCEPT ![c] = None]
    /\ crashes' = crashes

Fairness ==
    \A c \in Clients : /\ WF_<<session, crashes>>(Served(c))
                       /\ WF_vars(\E i \in Inputs : AcceptPending(c, i))

FairSpec == Spec /\ Fairness

-----------------------------------------------------------------------------
(* Correctness. *)

ResultType(r) ==
    /\ r.outcome \in ReductionOutcome
    /\ r.response \in Seq(EffectType)
    /\ r.missing \subseteq Requirements

(* The rows keep the shapes of the M2 tables (migration 0006): foreign     *)
(* keys between rows, requests and answers point at stored inputs, and a   *)
(* stored outcome is one of the reducer's.                                 *)
TypeOK ==
    /\ roots \in Scopes({})
    /\ KnownKeys \subseteq Keys
    /\ \A k \in KnownKeys :
          /\ inbox[k].input \in Inputs /\ Key(inbox[k].input) = k
          /\ inbox[k].ctx \in Contexts
          /\ inbox[k].owner \in KnownKeys \cup {None}
          /\ inbox[k].status \in {"RECEIVED", "COMPLETED"}
          /\ inbox[k].result = None \/ ResultType(inbox[k].result)
          /\ \A r \in inbox[k].receipts : ReceiptType(r)
          /\ inbox[k].readable \in BOOLEAN
    /\ session \in [Clients -> KnownKeys \cup {None}]
    /\ \A a \in answers : a.key \in KnownKeys /\ ResultType(a.result)
    /\ crashes \in 0..MaxCrashes

(* The inbox triggers: a stored input keeps the payload, server id, owner  *)
(* and policy context of its first acceptance, whatever a retry presents,  *)
(* and a completed one its result.                                         *)
FirstAcceptanceStands ==
    [][\A k \in KnownKeys :
          /\ k \in DOMAIN inbox'
          /\ inbox'[k].input = inbox[k].input /\ inbox'[k].ctx = inbox[k].ctx
          /\ inbox'[k].owner = inbox[k].owner
          /\ inbox[k].status = "COMPLETED" => inbox'[k] = inbox[k]]_vars

(* S7: an input has one result, whichever of several concurrent, repeated  *)
(* or crashed requests carried it out and whichever it is told to.         *)
OneAnswerPerInput ==
    \A a, b \in answers : a.key = b.key => a.result = b.result

(* An input is all there or not at all: before completion it has neither   *)
(* receipt nor effect; after it, an event that owns its server id has      *)
(* exactly the receipt that the result reports.                            *)
CompletionIsAtomic ==
    \A k \in KnownKeys :
        LET row == inbox[k] IN
        /\ row.status = "RECEIVED" =>
              /\ row.receipts = {} /\ row.result = None
              /\ \A f \in outbox : f.source # k
              /\ \A u \in usages : <<"FIELD_EVENT", u[1]>> # k
        /\ row.status = "COMPLETED" =>
              IF IsEvent(row.input) /\ row.owner = None
              THEN /\ row.receipts # {}
                   /\ \A r \in row.receipts : /\ r.event = row.input.event
                                              /\ r.sid = row.input.sid
                                              /\ ResultOf(r) = row.result
              ELSE row.receipts = {}

(* The ledger accepts a server event id once: two inputs that presented    *)
(* the same one, in whatever order they arrive and are processed, do not   *)
(* both get a receipt, and the loser of the claim never does.              *)
ServerIdOwnedOnce ==
    /\ \A q, r \in Ledger : q.sid = r.sid => q = r
    /\ \A k \in KnownKeys : LET owner == inbox[k].owner IN
          owner # None => /\ Presented(inbox[owner].input) = Presented(inbox[k].input)
                          /\ inbox[owner].owner = None

(* Evidence that counts for a task is the registered item, owned by that   *)
(* task: the root tables and the evidence tables are written by different  *)
(* code in the same transaction.                                           *)
EvidenceRegistered ==
    \A t \in Tasks : \A v \in roots.task[t].evidence :
        \E o \in identities : o.item = v /\ o.task = t /\ o.job = TaskDef[t].job

(* The comment in _persist_evidence, and the errors of process_input: what *)
(* the reducer accepts, the repository can store, so an accepted input     *)
(* never fails for good.                                                   *)
AcceptedIsProcessable ==
    \A k \in KnownKeys :
        LET row == inbox[k] IN
        row.status = "RECEIVED" /\ row.owner = None =>
            ~StorageError(row.input, Hydrate(row.input), DurableReduction(row))

(* Every accepted input is eventually completed, crashes notwithstanding,  *)
(* if its device keeps retrying: nothing else drives a RECEIVED input.     *)
AcceptedIsCompleted ==
    \A k \in Keys :
        (k \in KnownKeys) ~> (k \in KnownKeys /\ inbox[k].status = "COMPLETED")

(* Everything that is stored. *)
Whole == [roots EXCEPT !.receipts = Ledger]

(* The earlier reports of an attachment of i that _hydrate does not load,  *)
(* or loads without the directive or the assignment that tells their job.  *)
Overlooked(i) ==
    {r \in Ledger :
        /\ \E v \in r.event.attachments : v.id \in EvidenceIds(i)
        /\ r \in HydratedReceipts(i) =>
               EventScopeJob(Hydrate(i), r.event) # EventScopeJob(Whole, r.event)}

(* The reducer judges the evidence of i otherwise than by everything that  *)
(* is stored, and the reason is an earlier report of the same evidence id: *)
(* a rejected one, which stays in the ledger but leaves no row in the      *)
(* usage table, or one that named a directive and no job, task or          *)
(* assignment, for the directive of an earlier report is not loaded.       *)
MisjudgesEvidence(i) ==
    /\ IsEvent(i)
    /\ EvidenceErrors(Hydrate(i), i.event) # EvidenceErrors(Whole, i.event)
    /\ \E r \in Overlooked(i) :
          \/ r.outcome = "REJECTED"
          \/ /\ r.event.dir # None
             /\ {r.event.job, r.event.task, r.event.asg} = {None}

Service == INSTANCE FieldState
               WITH scope <- Whole, emitted <- outbox

(* The durable repository implements the atomic service of FieldState for  *)
(* every input: a reduction of the hydrated part alone has the effect of a *)
(* reduction of everything that is stored.  The one exception is a report  *)
(* whose evidence is misjudged because of such an earlier report; evidence *)
(* that an accepted report brought for a job, a task or an assignment is   *)
(* always found, whoever brings it again (_hydrate).                       *)
ImplementsFieldState ==
    /\ Service!Init
    /\ [][\/ Service!Next
          \/ \E c \in Clients : /\ ProcessReduction(c)
                                /\ MisjudgesEvidence(inbox[session[c]].input)]_(Service!vars)

=============================================================================
