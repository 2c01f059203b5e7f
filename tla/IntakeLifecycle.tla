--------------------------- MODULE IntakeLifecycle ---------------------------
(***************************************************************************)
(* M1: the canonical job and the ledger of the operations that change it   *)
(* (src/src/werkcrew_ai/intake/lifecycle.py, repository.py, models.py,     *)
(* normalization.py).                                                      *)
(*                                                                         *)
(* Every operation is one SQLite transaction, so every action is one step; *)
(* a crash before the commit is a step that did not happen.  The rows of   *)
(* the database are the record db, the handlers are functions from db and  *)
(* a request to the new db and the result, as in the code.                 *)
(*                                                                         *)
(* A request is an operation and the time received_at it arrives.  The     *)
(* fingerprint of an operation is a hash of everything but received_at:    *)
(* the operation itself stands for it, and its field body for the texts,   *)
(* actors and reasons that nothing but the fingerprint looks at.  An       *)
(* evidence id is a fresh uuid stored under the key of its operation; the  *)
(* key stands for it.                                                      *)
(***************************************************************************)
EXTENDS Naturals, Sequences, FiniteSets

CONSTANTS
    Jobs, FactNames, Values, Sources,
    Namespaces, Conversations, EventIds,
    Requests,     \* operations and the times adapters may send them at
    Direct,       \* the calls of the repository that bypass the ledger
    None

VARIABLES
    db,        \* the rows
    returned   \* the results handed out, with the operation and the key

ivars == <<db, returned>>

-----------------------------------------------------------------------------
(* Values.                                                                 *)

(* CanonicalFactInput: what is known has a value, the unknown has none and *)
(* cannot be verified.                                                     *)
FactInput ==
    { c \in [value : Values \cup {None}, knowledge : {"KNOWN", "UNKNOWN"},
             verification : {"UNVERIFIED", "VERIFIED"}, source : Sources] :
        /\ c.knowledge = "KNOWN" <=> c.value # None
        /\ c.knowledge = "UNKNOWN" => c.verification = "UNVERIFIED" }

(* normalize_job_intake: facts for the values given and for the names said *)
(* to be unknown, nothing inferred; a name cannot be both, and only known  *)
(* facts can be verified.                                                  *)
NormalizeJobIntake(values, unknown, verified, source) ==
    [ n \in DOMAIN values \cup unknown |->
        [value        |-> IF n \in DOMAIN values THEN values[n] ELSE None,
         knowledge    |-> IF n \in DOMAIN values THEN "KNOWN" ELSE "UNKNOWN",
         verification |-> IF n \in verified THEN "VERIFIED" ELSE "UNVERIFIED",
         source       |-> source] ]

Kinds == {"CREATE_JOB", "RECORD_FOLLOW_UP", "MARK_DORMANT", "WAKE_JOB",
          "BIND_CONVERSATION"}

Key(op) == <<op.ns, op.event>>

(* The constructors of the operations; a follow-up may name a job, a       *)
(* conversation, both or none, and carries at most one fact per name with  *)
(* the revision it was read at.                                            *)
OperationOK(op) ==
    /\ op.kind \in Kinds /\ op.ns \in Namespaces /\ op.event \in EventIds \cup {None}
    /\ op.job \in Jobs \cup {None} /\ op.conv \in Conversations \cup {None}
    /\ op.kind # "RECORD_FOLLOW_UP" => op.job # None
    /\ op.kind = "BIND_CONVERSATION" => op.conv # None
    /\ DOMAIN op.facts \subseteq FactNames
    /\ \A n \in DOMAIN op.facts : /\ op.facts[n] \in FactInput
                                  /\ n \in DOMAIN op.base => op.base[n] \in Nat
    /\ op.kind = "RECORD_FOLLOW_UP" => DOMAIN op.base = DOMAIN op.facts
    /\ op.evidence = None \/ op.evidence \in Namespaces \X EventIds

(* What a repository call passes: CanonicalFactInputs by name.             *)
DirectOK(c) ==
    /\ c.job \in Jobs /\ c.at \in Nat /\ c.kind \in {"create_job", "record_fact"}
    /\ c.kind = "create_job" =>
          DOMAIN c.facts \subseteq FactNames /\ \A n \in DOMAIN c.facts : c.facts[n] \in FactInput
    /\ c.kind = "record_fact" => c.name \in FactNames /\ c.content \in FactInput

ASSUME RequestAssumption ==
    /\ \A q \in Requests : OperationOK(q.op) /\ q.at \in Nat
    /\ \A c \in Direct : DirectOK(c)

(* None is no job, no key and no reason to refuse.                         *)
ASSUME NoneAssumption ==
    /\ None \notin Jobs /\ None \notin Namespaces \X EventIds
    /\ None \notin {"TARGET_NOT_FOUND", "CORRELATION_CONFLICT", "CORRELATION_REQUIRED",
                    "AMBIGUOUS_CORRELATION"}

(* The result of an operation, before its handler adds to it.              *)
Result(op, at, outcome) ==
    [outcome |-> outcome, kind |-> op.kind, key |-> Key(op), at |-> at,
     job |-> None, activity |-> None, evidence |-> None, events |-> <<>>,
     revisions |-> {}, added |-> None]

-----------------------------------------------------------------------------
(* The rows.  A fact revision is the index of its row.                     *)

NoRow == [exists |-> FALSE, activity |-> "ACTIVE", rev |-> 0, updated |-> 0]

EmptyDb ==
    [job       |-> [j \in Jobs |-> NoRow],
     facts     |-> [j \in Jobs |-> [n \in FactNames |-> <<>>]],
     conv      |-> {},
     history   |-> [j \in Jobs |-> <<>>],
     evidence  |-> {},
     ops       |-> {},
     conflicts |-> {},
     receipts  |-> {}]

Exists(d, j) == d.job[j].exists

CurrentRevision(d, j, n) == Len(d.facts[j][n])

(* get_job: the newest row of every fact that has one.                     *)
CurrentFacts(d, j) ==
    [ n \in {m \in FactNames : d.facts[j][m] # <<>>} |->
        d.facts[j][n][CurrentRevision(d, j, n)] ]

(* _insert_fact, for a batch of facts that each take the next revision.    *)
InsertFacts(d, j, batch, names, evidence) ==
    [d EXCEPT !.facts[j] =
        [n \in FactNames |->
            IF n \in names
            THEN Append(@[n], [content |-> batch[n], evidence |-> evidence])
            ELSE @[n]]]

FactMatchesInput(d, j, n, content) ==
    /\ d.facts[j][n] # <<>>
    /\ d.facts[j][n][CurrentRevision(d, j, n)].content = content

(* _append_lifecycle_event: the sequence number is the index.              *)
AppendLifecycleEvent(d, j, type, op, evidence) ==
    [d EXCEPT !.history[j] =
        Append(@, [type |-> type, key |-> Key(op), evidence |-> evidence])]

(* _touch_job: updated_at never goes back.                                 *)
TouchJob(d, j, at) ==
    [d EXCEPT !.job[j].updated = IF at > @ THEN at ELSE @]

AdvanceSourceRevision(d, j) == [d EXCEPT !.job[j].rev = @ + 1]

InsertAssociation(d, op, j) ==
    [d EXCEPT !.conv = @ \cup {<<op.ns, op.conv, j>>}]

AssociationAdded(d, op, j) ==
    IF <<op.ns, op.conv, j>> \in d.conv THEN "PRESENT" ELSE "ADDED"

-----------------------------------------------------------------------------
(* The handlers of _apply_first_seen.                                      *)

Done(d, r) == [db |-> d, result |-> r]

InsertJob(d, j, at) ==
    [d EXCEPT !.job[j] = [exists |-> TRUE, activity |-> "ACTIVE", rev |-> 1,
                          updated |-> at]]

(* _create_job_operation *)
CreateJobOperation(d, op, at) ==
    IF Exists(d, op.job)
    THEN Done(d, [Result(op, at, "JOB_ID_CONFLICT") EXCEPT !.job = op.job])
    ELSE LET new == InsertFacts(InsertJob(d, op.job, at), op.job, op.facts,
                                DOMAIN op.facts, None)
         IN  Done(IF op.conv = None THEN new ELSE InsertAssociation(new, op, op.job),
                  [Result(op, at, "JOB_CREATED") EXCEPT
                      !.job = op.job, !.activity = "ACTIVE",
                      !.added = IF op.conv = None THEN None
                                ELSE AssociationAdded(d, op, op.job)])

(* _correlate_follow_up: the job a follow-up is about, or why there is none *)
Associated(d, op) ==
    IF op.conv = None THEN {} ELSE {j \in Jobs : <<op.ns, op.conv, j>> \in d.conv}

CorrelationRejected(d, op) ==
    CASE op.job # None /\ ~ Exists(d, op.job) -> "TARGET_NOT_FOUND"
      [] op.job # None /\ Exists(d, op.job) ->
           IF Associated(d, op) # {} /\ op.job \notin Associated(d, op)
           THEN "CORRELATION_CONFLICT" ELSE None
      [] op.job = None ->
           IF Associated(d, op) = {} THEN "CORRELATION_REQUIRED"
           ELSE IF Cardinality(Associated(d, op)) > 1 THEN "AMBIGUOUS_CORRELATION"
           ELSE None

CorrelatedJob(d, op) ==
    IF op.job # None THEN op.job ELSE CHOOSE j \in Jobs : j \in Associated(d, op)

(* _record_follow_up: the evidence and its event are always stored and a   *)
(* dormant job is woken; the facts follow all together or, if one base is  *)
(* stale, not at all; a fact that says what is known already adds no row.  *)
StaleBase(d, op, j) ==
    \E n \in DOMAIN op.facts : CurrentRevision(d, j, n) # op.base[n]

(* Mutant: the fresh facts of a stale batch are written one by one.        *)
ChangedNamesSingly(d, op, j) ==
    {n \in DOMAIN op.facts : /\ CurrentRevision(d, j, n) = op.base[n]
                             /\ ~ FactMatchesInput(d, j, n, op.facts[n])}

ChangedNames(d, op, j) ==
    IF StaleBase(d, op, j) THEN {}
    ELSE {n \in DOMAIN op.facts : ~ FactMatchesInput(d, j, n, op.facts[n])}

FollowUpEvidenceStored(d, op, j) ==
    LET e == AppendLifecycleEvent(
                [d EXCEPT !.evidence = @ \cup {[id |-> Key(op), job |-> j]}],
                j, "FOLLOW_UP_RECORDED", op, Key(op))
    IN  IF d.job[j].activity = "DORMANT"
        THEN AppendLifecycleEvent([e EXCEPT !.job[j].activity = "ACTIVE"],
                                  j, "JOB_WOKEN", op, Key(op))
        ELSE e

(* Mutant: only changed facts advance the revision, waking does not.       *)
FollowUpAppliedQuietWake(d, op, j, at) ==
    LET e == InsertFacts(FollowUpEvidenceStored(d, op, j), j, op.facts,
                         ChangedNames(d, op, j), Key(op))
    IN  TouchJob(IF ChangedNames(d, op, j) # {} THEN AdvanceSourceRevision(e, j)
                 ELSE e, j, at)

FollowUpApplied(d, op, j, at) ==
    LET e == InsertFacts(FollowUpEvidenceStored(d, op, j), j, op.facts,
                         ChangedNames(d, op, j), Key(op))
    IN  TouchJob(IF \/ d.job[j].activity = "DORMANT"
                    \/ ChangedNames(d, op, j) # {}
                 THEN AdvanceSourceRevision(e, j) ELSE e, j, at)

RecordFollowUp(d, op, at) ==
    IF CorrelationRejected(d, op) # None
    THEN Done(d, [Result(op, at, CorrelationRejected(d, op)) EXCEPT !.job = op.job])
    ELSE LET j == CorrelatedJob(d, op)
         IN  Done(FollowUpApplied(d, op, j, at),
                  [Result(op, at, IF StaleBase(d, op, j) THEN "FACT_REVISION_CONFLICT"
                                  ELSE "FOLLOW_UP_RECORDED") EXCEPT
                      !.job = j, !.activity = "ACTIVE", !.evidence = Key(op),
                      !.events = IF d.job[j].activity = "DORMANT"
                                 THEN <<"FOLLOW_UP_RECORDED", "JOB_WOKEN">>
                                 ELSE <<"FOLLOW_UP_RECORDED">>,
                      !.revisions = {<<n, CurrentRevision(d, j, n) + 1>> :
                                        n \in ChangedNames(d, op, j)}])

(* _mark_dormant *)
MarkDormant(d, op, at) ==
    LET row == d.job[op.job]
        known == [Result(op, at, "EVIDENCE_NOT_FOUND") EXCEPT
                     !.job = op.job, !.activity = row.activity]
    IN  IF ~ row.exists
        THEN Done(d, [Result(op, at, "TARGET_NOT_FOUND") EXCEPT !.job = op.job])
        ELSE IF /\ op.evidence # None
                /\ [id |-> op.evidence, job |-> op.job] \notin d.evidence
        THEN Done(d, known)
        ELSE IF row.activity = "DORMANT"
        THEN Done(d, [known EXCEPT !.outcome = "ALREADY_DORMANT"])
        ELSE Done(AppendLifecycleEvent(
                      TouchJob(AdvanceSourceRevision(
                          [d EXCEPT !.job[op.job].activity = "DORMANT"], op.job),
                          op.job, at),
                      op.job, "JOB_MARKED_DORMANT", op, op.evidence),
                  [known EXCEPT !.outcome = "JOB_MARKED_DORMANT",
                                !.activity = "DORMANT",
                                !.events = <<"JOB_MARKED_DORMANT">>])

(* _wake_job *)
WakeJob(d, op, at) ==
    LET row == d.job[op.job]
        known == [Result(op, at, "ALREADY_ACTIVE") EXCEPT
                     !.job = op.job, !.activity = "ACTIVE"]
    IN  IF ~ row.exists
        THEN Done(d, [Result(op, at, "TARGET_NOT_FOUND") EXCEPT !.job = op.job])
        ELSE IF row.activity = "ACTIVE" THEN Done(d, known)
        ELSE Done(AppendLifecycleEvent(
                      TouchJob(AdvanceSourceRevision(
                          [d EXCEPT !.job[op.job].activity = "ACTIVE"], op.job),
                          op.job, at),
                      op.job, "JOB_WOKEN", op, None),
                  [known EXCEPT !.outcome = "JOB_WOKEN", !.events = <<"JOB_WOKEN">>])

(* _bind_conversation *)
BindConversation(d, op, at) ==
    IF ~ Exists(d, op.job)
    THEN Done(d, [Result(op, at, "TARGET_NOT_FOUND") EXCEPT !.job = op.job])
    ELSE Done(InsertAssociation(d, op, op.job),
              [Result(op, at, "CONVERSATION_BOUND") EXCEPT
                  !.job = op.job, !.activity = d.job[op.job].activity,
                  !.added = AssociationAdded(d, op, op.job)])

ApplyFirstSeen(d, op, at) ==
    CASE op.kind = "CREATE_JOB"        -> CreateJobOperation(d, op, at)
      [] op.kind = "RECORD_FOLLOW_UP"  -> RecordFollowUp(d, op, at)
      [] op.kind = "MARK_DORMANT"      -> MarkDormant(d, op, at)
      [] op.kind = "WAKE_JOB"          -> WakeJob(d, op, at)
      [] op.kind = "BIND_CONVERSATION" -> BindConversation(d, op, at)

-----------------------------------------------------------------------------
(* execute: a key is applied once; its repetition gets the first result, a *)
(* different operation under the key gets a conflict that is stored too.   *)

(* Mutant: received_at belongs to the fingerprint.                         *)
OperationFingerprintTimed(q) == q

(* operation_fingerprint: everything of the request but received_at.       *)
OperationFingerprint(q) == q.op

Replayed(d, q) ==
    LET first == CHOOSE o \in d.ops : o.key = Key(q.op)
        same == {o \in d.conflicts : /\ o.key = Key(q.op)
                                     /\ o.fingerprint = OperationFingerprint(q)}
        conflict == Result(q.op, q.at, "EVENT_CONFLICT")
    IN  IF first.fingerprint = OperationFingerprint(q) THEN Done(d, first.result)
        ELSE IF same # {} THEN Done(d, (CHOOSE o \in same : TRUE).result)
        ELSE Done([d EXCEPT !.conflicts =
                      @ \cup {[key |-> Key(q.op), result |-> conflict,
                               fingerprint |-> OperationFingerprint(q)]}],
                  conflict)

FirstSeen(d, q, a) ==
    Done([a.db EXCEPT !.ops =
             @ \cup {[key |-> Key(q.op), result |-> a.result,
                      fingerprint |-> OperationFingerprint(q)]}],
         a.result)

Executed(d, q) ==
    IF q.op.event = None THEN Done(d, Result(q.op, q.at, "IDEMPOTENCY_KEY_REQUIRED"))
    ELSE IF \E o \in d.ops : o.key = Key(q.op) THEN Replayed(d, q)
    ELSE FirstSeen(d, q, ApplyFirstSeen(d, q.op, q.at))

Execute(q) ==
    LET x == Executed(db, q)
    IN  /\ db' = x.db
        /\ returned' = IF q.op.event = None THEN returned
                       ELSE returned \cup {[op |-> q.op, result |-> x.result]}

-----------------------------------------------------------------------------
(* The repository's own calls, which no ledger records.                    *)

(* CanonicalJobRepository.create_job raises on a job that exists.          *)
CreateJob(c) ==
    /\ c.kind = "create_job"
    /\ ~ Exists(db, c.job)
    /\ db' = InsertFacts(InsertJob(db, c.job, c.at), c.job, c.facts,
                         DOMAIN c.facts, None)
    /\ UNCHANGED returned

(* record_fact raises unless the caller names the current revision, and    *)
(* changes nothing when the fact is the one that is stored.                *)
RecordFact(c) ==
    /\ c.kind = "record_fact"
    /\ Exists(db, c.job)
    /\ c.at >= db.job[c.job].updated
    /\ CurrentRevision(db, c.job, c.name) = c.expected
    /\ ~ FactMatchesInput(db, c.job, c.name, c.content)
    /\ db' = AdvanceSourceRevision(
                 InsertFacts([db EXCEPT !.job[c.job].updated = c.at], c.job,
                             [n \in {c.name} |-> c.content], {c.name}, None),
                 c.job)
    /\ UNCHANGED returned

(* mint_adapter_receipt: a fresh uuid as event id for an adapter without.  *)
MintAdapterReceipt(ns, e) ==
    /\ <<ns, e>> \notin db.receipts
    /\ \A q \in Requests : Key(q.op) # <<ns, e>>
    /\ db' = [db EXCEPT !.receipts = @ \cup {<<ns, e>>}]
    /\ UNCHANGED returned

-----------------------------------------------------------------------------
IntakeInit == db = EmptyDb /\ returned = {}

IntakeNext ==
    \/ \E q \in Requests : Execute(q)
    \/ \E c \in Direct : CreateJob(c) \/ RecordFact(c)
    \/ \E ns \in Namespaces, e \in EventIds : MintAdapterReceipt(ns, e)

IntakeSpec == IntakeInit /\ [][IntakeNext]_ivars

-----------------------------------------------------------------------------
(* follow_up_evidence joins the evidence with its event; the rows are the  *)
(* job_sequence numbers that order them.                                   *)
FollowUpEvidence(d, j) ==
    { i \in DOMAIN d.history[j] :
        /\ d.history[j][i].type = "FOLLOW_UP_RECORDED"
        /\ [id |-> d.history[j][i].evidence, job |-> j] \in d.evidence }

(***************************************************************************)
(* A request has one result for ever: however often an adapter repeats an  *)
(* operation, at whatever time and whatever happened in between, execute   *)
(* returns what it returned first; this holds for conflicting reuses of a  *)
(* key as well, each with its own stored conflict.                         *)
(***************************************************************************)
OneResultPerRequest ==
    \A x, y \in returned : x.op = y.op => x.result = y.result

(***************************************************************************)
(* Facts and results agree: a fact row written by a follow-up is reported  *)
(* by the result of exactly that follow-up, every reported revision is a   *)
(* row of that follow-up, and a result that reports a conflict reports no  *)
(* revision though its evidence is kept and listed.                        *)
(***************************************************************************)
FactsAnswerForEvidence ==
    /\ \A j \in Jobs, n \in FactNames : \A r \in 1..CurrentRevision(db, j, n) :
          LET k == db.facts[j][n][r].evidence
          IN  k # None =>
                \E o \in db.ops : /\ o.key = k /\ o.result.job = j
                                  /\ o.result.outcome = "FOLLOW_UP_RECORDED"
                                  /\ <<n, r>> \in o.result.revisions
                                  /\ o.fingerprint.base[n] = r - 1
    /\ \A o \in db.ops : o.result.evidence # None =>
          /\ \E i \in FollowUpEvidence(db, o.result.job) :
                db.history[o.result.job][i].key = o.key
          /\ \A x \in o.result.revisions :
                /\ x[2] <= CurrentRevision(db, o.result.job, x[1])
                /\ db.facts[o.result.job][x[1]][x[2]].evidence = o.key
          /\ o.result.outcome = "FACT_REVISION_CONFLICT" => o.result.revisions = {}
=============================================================================
