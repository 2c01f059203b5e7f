--------------------------- MODULE PolicyEvidence ---------------------------
(***************************************************************************)
(* AUTH-0 and M3-E0: who may speak for a company, and the ledger of what   *)
(* owners and workers said (authority/repository.py,                       *)
(* authority/policy_evidence.py, authority/policy_evidence_repository.py). *)
(*                                                                         *)
(* Every public method is one transaction or one read snapshot, so one     *)
(* step.  Records are immutable and content-addressed: a record is its own *)
(* identity and its fingerprint, a company plan names its authority root.  *)
(* A signature verifies exactly what was signed under the key of the       *)
(* capture root.  A refused request changes nothing.                       *)
(***************************************************************************)
EXTENDS Naturals, Sequences, FiniteSets

CONSTANTS
    None,
    Companies,      \* company plans
    Workers,
    FirstWorkers,   \* the worker registry at revision 0
    Subjects,       \* principal_subject_id
    Keys,           \* capture keys, one per recorder
    References,     \* human_action_reference
    Scopes,         \* AuthorityEvidenceScope: [kind, subject, worker]
    Times,          \* occurred_at
    Statuses        \* the RecordedConsentStatus values in use

(* CompanyAuthorityRoot, with the worker registry it is bound to.          *)
Roots == [owner : Subjects, revision : Nat, workers : SUBSET Workers]

ASSUME RegistryAssumption == FirstWorkers \subseteq Workers

ASSUME NoneAssumption == None \notin Roots /\ None \notin Keys

VARIABLES
    registry,       \* the M2 worker registry: [revision, workers]
    roots,          \* company -> its authority root or None
    principals,     \* [company, subject, type, worker]
    capture,        \* company -> the key of its capture root or None
    profiles,       \* the companies with a recorded policy profile
    issuances,      \* [company, owner]
    consumptions,   \* [key, reference, evidence]
    evidence,       \* owner approvals and worker consents
    said,           \* history: the accepted actions in the order of ingestion
    answers         \* history: [request, evidence] as returned to recorders

vars == <<registry, roots, principals, capture, profiles, issuances,
          consumptions, evidence, said, answers>>

authority == <<registry, roots, principals, capture, profiles, issuances>>

PolicyInit ==
    /\ registry = [revision |-> 0, workers |-> FirstWorkers]
    /\ roots = [c \in Companies |-> None]
    /\ principals = {}
    /\ capture = [c \in Companies |-> None]
    /\ profiles = {} /\ issuances = {}
    /\ consumptions = {} /\ evidence = {}
    /\ said = <<>> /\ answers = {}

-----------------------------------------------------------------------------
(* Reading authority back.                                                 *)

(* The registry the root froze is compared with the one of today.          *)
RegistryBindingExact(r) == r.workers = registry.workers

(* _worker_registry_binding.                                               *)
RegistryBinding(r) == r.workers \subseteq registry.workers

(* _principal_binding.                                                     *)
PrincipalBinding(p) ==
    LET r == roots[p.company] IN
    IF p.type = "OWNER" THEN p.subject = r.owner /\ p.worker = None
    ELSE p.worker \in r.workers /\ p.worker \in registry.workers

(* _load_root: bound to its plan and registry, with exactly one owner.     *)
RootLoads(c) ==
    /\ roots[c] # None
    /\ RegistryBinding(roots[c])
    /\ LET owners == { p \in principals : p.company = c /\ p.type = "OWNER" }
       IN  Cardinality(owners) = 1 /\ \A p \in owners : PrincipalBinding(p)

PrincipalLoads(p) == p \in principals /\ RootLoads(p.company) /\ PrincipalBinding(p)

-----------------------------------------------------------------------------
(* Deployment: roots, principals, capture keys, the policy.                *)

(* External: M2's registry gains a worker.                                 *)
RegistryAdvances(w) ==
    /\ w \notin registry.workers
    /\ registry' = [revision |-> registry.revision + 1, workers |-> registry.workers \cup {w}]
    /\ UNCHANGED <<roots, principals, capture, profiles, issuances,
                   consumptions, evidence, said, answers>>

NewRoot(subject) ==
    [owner |-> subject, revision |-> registry.revision, workers |-> registry.workers]

OwnerPrincipal(c, subject) ==
    [company |-> c, subject |-> subject, type |-> "OWNER", worker |-> None]

WorkerPrincipal(c, subject, w) ==
    [company |-> c, subject |-> subject, type |-> "WORKER", worker |-> w]

(* One root and its sole owner; a repeated call finds both.                *)
ProvisionCompanyAuthority(c, subject) ==
    /\ roots[c] = None
    /\ roots' = [roots EXCEPT ![c] = NewRoot(subject)]
    /\ principals' = principals \cup {OwnerPrincipal(c, subject)}
    /\ UNCHANGED <<registry, capture, profiles, issuances, consumptions, evidence, said, answers>>

(* A worker of the frozen registry, one subject each way.                  *)
ProvisionWorkerPrincipal(c, subject, w) ==
    /\ RootLoads(c)
    /\ w \in roots[c].workers
    /\ ~ \E p \in principals : p.company = c /\ (p.subject = subject \/ p.worker = w)
    /\ principals' = principals \cup {WorkerPrincipal(c, subject, w)}
    /\ UNCHANGED <<registry, roots, capture, profiles, issuances, consumptions, evidence, said, answers>>

(* provision_human_action_capture_from_deployment.                         *)
ProvisionCapture(k, c) ==
    /\ RootLoads(c) /\ capture[c] = None
    /\ capture' = [capture EXCEPT ![c] = k]
    /\ UNCHANGED <<registry, roots, principals, profiles, issuances, consumptions, evidence, said, answers>>

RecordCompanyPolicyProfile(c) ==
    /\ RootLoads(c) /\ c \notin profiles
    /\ profiles' = profiles \cup {c}
    /\ UNCHANGED <<registry, roots, principals, capture, issuances, consumptions, evidence, said, answers>>

IssueCompanyPolicyProfile(c, p) ==
    /\ c \in profiles /\ RootLoads(c)
    /\ PrincipalLoads(p) /\ p.type = "OWNER" /\ p.company = c
    /\ ~ \E i \in issuances : i.company = c
    /\ issuances' = issuances \cup {[company |-> c, owner |-> p]}
    /\ UNCHANGED <<registry, roots, principals, capture, profiles, consumptions, evidence, said, answers>>

-----------------------------------------------------------------------------
(* Human actions.                                                          *)

(* AuthorityEvidenceScope.__post_init__.                                   *)
ScopeOK(x) == x.kind = "PRIVATE_VEHICLE_USE" => x.subject = "PRIVATE_VEHICLE" /\ x.worker # None

(* What a recorder asks to be recorded, with the key it holds.             *)
Requests ==
    [kind : {"OWNER_APPROVAL"}, value : {"APPROVED"}, company : Companies,
     principal : principals, scope : { x \in Scopes : ScopeOK(x) }, at : Times, key : Keys,
     reference : References]
    \cup
    [kind : {"WORKER_CONSENT"}, value : Statuses, company : Companies,
     principal : principals, scope : { x \in Scopes : ScopeOK(x) }, at : Times, key : Keys,
     reference : References]

(* The checks of record_owner_approval before its replay.                  *)
ApproverIsOwner(q) ==
    /\ q.principal.type = "OWNER" /\ q.principal.company = q.company
    /\ q.scope.worker # None => q.scope.worker \in roots[q.company].workers

(* The checks of record_worker_consent, and of WorkerConsentEvidence.      *)
ConsenterIsWorker(q) ==
    /\ q.principal.type = "WORKER" /\ q.principal.company = q.company
    /\ q.scope.worker = q.principal.worker
    /\ q.scope.kind = "PRIVATE_VEHICLE_USE"

Admitted(q) ==
    /\ RootLoads(q.company)
    /\ capture[q.company] = q.key
    /\ PrincipalLoads(q.principal)
    /\ IF q.kind = "OWNER_APPROVAL" THEN ApproverIsOwner(q) ELSE ConsenterIsWorker(q)

Consumed(q) == { u \in consumptions : u.key = q.key /\ u.reference = q.reference }

SameActionButValue(q, e) ==
    /\ e.kind = q.kind /\ e.company = q.company
    /\ e.principal = q.principal /\ e.scope = q.scope /\ e.at = q.at

(* _find_capture_replay: everything but the place in the lineage.          *)
SameAction(q, e) ==
    /\ e.kind = q.kind /\ e.value = q.value /\ e.company = q.company
    /\ e.principal = q.principal /\ e.scope = q.scope /\ e.at = q.at

(* _load_consent_lineage, in the order of its sequence numbers.            *)
InLineage(q, e) ==
    /\ e.kind = "WORKER_CONSENT"
    /\ e.company = q.company /\ e.principal = q.principal /\ e.scope = q.scope

Lineage(q) == { e \in evidence : InLineage(q, e) }

HeadOf(lineage) ==
    IF lineage = {} THEN None
    ELSE CHOOSE e \in lineage : \A f \in lineage : f.seq <= e.seq

(* _sign_human_action_provenance: a consent signs its predecessor.         *)
Signed(q) ==
    LET before == IF q.kind = "WORKER_CONSENT" THEN Lineage(q) ELSE {}
    IN  [kind |-> q.kind, value |-> q.value, company |-> q.company,
         principal |-> q.principal, scope |-> q.scope, at |-> q.at, key |-> q.key,
         reference |-> q.reference, seq |-> Cardinality(before) + 1,
         previous |-> HeadOf(before)]

(* An approval is one per root and scope; another one is refused.          *)
ApprovalTaken(q) ==
    q.kind = "OWNER_APPROVAL" /\
    \E e \in evidence : e.kind = q.kind /\ e.company = q.company /\ e.scope = q.scope

ConsumptionOf(e) == [key |-> e.key, reference |-> e.reference, evidence |-> e]

Answer(q, e) == answers' = answers \cup {[request |-> q, evidence |-> e]}

(* record_owner_approval and record_worker_consent.                        *)
RecordNew(q) ==
    /\ Admitted(q) /\ Consumed(q) = {} /\ ~ ApprovalTaken(q)
    /\ LET e == Signed(q) IN
       /\ consumptions' = consumptions \cup {ConsumptionOf(e)}
       /\ evidence' = evidence \cup {e}
       /\ said' = Append(said, e)
       /\ Answer(q, e)
    /\ UNCHANGED authority

(* An exact retry is answered with what the first call recorded, wherever  *)
(* the lineage has gone since.                                             *)
RecordReplay(q) ==
    /\ Admitted(q)
    /\ \E u \in Consumed(q) : SameAction(q, u.evidence) /\ Answer(q, u.evidence)
    /\ UNCHANGED <<authority, consumptions, evidence, said>>

-----------------------------------------------------------------------------
(* Reading evidence back.                                                  *)

(* _verify_human_action with _verify_capture_consumption.                  *)
Verified(e) ==
    /\ capture[e.company] = e.key
    /\ { u \in consumptions : u.key = e.key /\ u.reference = e.reference } = {ConsumptionOf(e)}

(* _load_approval and _load_consent.                                       *)
EvidenceLoads(e) ==
    /\ RootLoads(e.company) /\ PrincipalLoads(e.principal)
    /\ IF e.kind = "OWNER_APPROVAL" THEN ApproverIsOwner(e) ELSE ConsenterIsWorker(e)
    /\ Verified(e)

(* Gap-free from 1, each signing the one before it.                        *)
LineageLoads(lineage) ==
    \A e \in lineage :
        /\ EvidenceLoads(e)
        /\ IF e.seq = 1 THEN e.previous = None
           ELSE e.previous \in lineage /\ e.previous.seq = e.seq - 1

AffirmativeOnce(e) == e.value = "FREELY_GIVEN"

(* resolve_worker_consent: usable only as the affirmative head.            *)
UsableConsent(e) == e.value = "FREELY_GIVEN" /\ e = HeadOf(Lineage(e))

(* resolve_policy_issuance.                                                *)
PolicyIssued(c) ==
    /\ RootLoads(c) /\ c \in profiles
    /\ \E i \in issuances : i.company = c /\ PrincipalLoads(i.owner)

-----------------------------------------------------------------------------

PolicyNext ==
    \/ \E w \in Workers : RegistryAdvances(w)
    \/ \E c \in Companies :
          \/ RecordCompanyPolicyProfile(c)
          \/ \E k \in Keys : ProvisionCapture(k, c)
          \/ \E p \in principals : IssueCompanyPolicyProfile(c, p)
          \/ \E x \in Subjects : ProvisionCompanyAuthority(c, x)
          \/ \E x \in Subjects, w \in Workers : ProvisionWorkerPrincipal(c, x, w)
    \/ \E q \in Requests : RecordNew(q) \/ RecordReplay(q)

PolicySpec == PolicyInit /\ [][PolicyNext]_vars

-----------------------------------------------------------------------------
(* Properties.                                                             *)

LastSaid(e) ==
    LET mine == { i \in DOMAIN said : InLineage(e, said[i]) }
    IN  said[CHOOSE i \in mine : \A j \in mine : j <= i]

(* A consent counts exactly when it is the last thing its worker was       *)
(* recorded to say about the scope, in the order of ingestion, and it was  *)
(* given freely: neither a retry of an older yes nor an action of another  *)
(* worker, company or scope brings a withdrawn consent back.               *)
ConsentIsLastWord ==
    \A e \in evidence : e.kind = "WORKER_CONSENT" =>
        (UsableConsent(e) <=> e = LastSaid(e) /\ e.value = "FREELY_GIVEN")

(* A capture reference stands for one human action: whoever retries it, in *)
(* whatever later state, is told of that action and of no other, and the   *)
(* ledger holds it once.                                                   *)
OneActionPerCapture ==
    \A a, b \in answers :
        /\ a.evidence.value = a.request.value /\ a.evidence.scope = a.request.scope
        /\ a.request.key = b.request.key /\ a.request.reference = b.request.reference
             => a.evidence = b.evidence

(* What was recorded can be read back in every later state: with the roots *)
(* and principals it names, whatever the registry has become, with its     *)
(* consumption, and in a lineage without gaps; an issued policy stays      *)
(* issued.                                                                 *)
EvidenceStaysReadable ==
    /\ \A e \in evidence : EvidenceLoads(e) /\ LineageLoads(Lineage(e))
    /\ \A i \in issuances : PolicyIssued(i.company)
=============================================================================
