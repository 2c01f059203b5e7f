----------------------------- MODULE ReplanGate -----------------------------
(***************************************************************************)
(* M7: replanning proposals, the owner's gate on them and the calendar     *)
(* they change (persistence.py, dispatch/service.py, agent/m7_tools.py,    *)
(* agent/m7_orchestrator.py).                                              *)
(*                                                                         *)
(* The rows of SQLite are variables; every transaction is one step.  A     *)
(* process is an HTTP request with its agent turn: what it keeps in memory *)
(* between two transactions is pc[p], and an exception or a crash loses    *)
(* it.  Which tool a turn calls, and with which arguments, is the model's  *)
(* choice and therefore free.  The content of a proposal stands for its    *)
(* fingerprint and its id; a proposal has at most one gate, so it stands   *)
(* for the gate too.  The id of an interrupt is the number of the tool     *)
(* call that raised it.  Of the trace only the rows a decision writes in   *)
(* its own transaction are kept; they are ordered by a random id, so they  *)
(* are a bag.                                                              *)
(***************************************************************************)
EXTENDS DispatchPlanner, Bags

CONSTANTS
    Processes,
    Worlds,         \* the facts M7 does not change, with the first placements
    Requests,       \* the initiating and the affected jobs a caller may name
    ArrivalTimes,   \* the times a delayed delivery may be announced for
    MaxEdits,       \* bound on the direct changes of workflows and readiness
    MaxProposals,   \* bound on the proposals that are saved
    MaxCalls        \* bound on the calls of request_replan_approval

ASSUME WorldAssumption == \A w \in Worlds : WorldOK(w)

ASSUME ArrivalAssumption == ArrivalTimes \subseteq Nat

VARIABLES
    world,
    rev,         \* workflow_instances.revision, by job
    cal,         \* calendar_assignments: start, end, revision
    mat,         \* material_readiness, None where there is no row
    proposals,   \* replan_proposals: the status of every saved proposal
    gates,       \* pending_gates, by proposal
    decisions,   \* owner_decisions
    done,        \* idempotency_records
    trace,       \* agent_trace_events
    edits,       \* direct changes so far
    calls,       \* interrupts raised so far
    pc,
    lost         \* the gates whose claimant failed before it applied

rows == <<rev, cal, mat, proposals, gates, decisions, done, trace>>
vars == <<world, rows, edits, calls, pc, lost>>

Actions == {"APPROVE_REPLAN", "REJECT_REPLAN"}

Jobs == DOMAIN rev

Idle == [at |-> "idle"]

(* seed_m7_demo and the fixtures of the tests: a world's assignments are   *)
(* confirmed, every workflow and every placement is at revision 0.         *)
ReplanInit ==
    /\ world \in Worlds
    /\ rev = [ j \in { world.assign[a].job : a \in DOMAIN world.assign } |-> 0 ]
    /\ cal = [ a \in DOMAIN world.assign |->
                 [start |-> world.assign[a].start, end |-> world.assign[a].end, rev |-> 0] ]
    /\ mat = world.materials
    /\ proposals = <<>> /\ gates = <<>> /\ decisions = {} /\ done = {}
    /\ trace = EmptyBag /\ edits = 0 /\ calls = 0 /\ lost = {}
    /\ pc = [ p \in Processes |-> Idle ]

(* A table with the row of key x inserted or replaced.                     *)
Inserted(f, x, v) == [ y \in DOMAIN f \cup {x} |-> IF y = x THEN v ELSE f[y] ]

Goto(p, s) == pc' = [pc EXCEPT ![p] = s]

Row(j, what, q) == [job |-> j, what |-> what, proposal |-> q]

(* _insert_trace_rows: one row for every affected job of the proposal.     *)
DecisionRows(q, what) == SetToBag({ Row(j, what, q) : j \in q.jobs })

-----------------------------------------------------------------------------
(* Facts that move under a proposal.                                       *)

(* update_workflow_cas, called with the current revision.                  *)
UpdateWorkflowCas(j) ==
    /\ edits < MaxEdits
    /\ edits' = edits + 1
    /\ rev' = [rev EXCEPT ![j] = @ + 1]
    /\ UNCHANGED <<world, cal, mat, proposals, gates, decisions, done, trace, calls, pc, lost>>

Expected(a, t) == [status |-> "EXPECTED", at |-> t, blocking |-> TRUE, rev |-> mat[a].rev + 1]

(* record_material_delay: the compare-and-swap on the readiness, called    *)
(* with the current revision.                                              *)
RecordMaterialDelay(a, t) ==
    /\ mat[a] # None
    /\ edits < MaxEdits
    /\ edits' = edits + 1
    /\ mat' = [mat EXCEPT ![a] = Expected(a, t)]
    /\ UNCHANGED <<world, rev, cal, proposals, gates, decisions, done, trace, calls, pc, lost>>

-----------------------------------------------------------------------------
(* propose_dispatch_replan: three reads, each of its own transaction, the  *)
(* planner, the insert.                                                    *)

ReadWorkflows(p, r) ==
    /\ pc[p] = Idle
    /\ r.initiating \in r.jobs /\ r.jobs \subseteq Jobs
    /\ Goto(p, [at |-> "calendar", initiating |-> r.initiating, jobs |-> r.jobs, rev |-> rev])
    /\ UNCHANGED <<world, rows, edits, calls, lost>>

ReadCalendar(p) ==
    /\ pc[p].at = "calendar"
    /\ Goto(p, [at |-> "plan", initiating |-> pc[p].initiating, jobs |-> pc[p].jobs,
                rev |-> pc[p].rev, cal |-> cal])
    /\ UNCHANGED <<world, rows, edits, calls, lost>>

PlanReplan(p) ==
    /\ pc[p].at = "plan"
    /\ LET answer == Plan(world, pc[p].cal, mat, pc[p].rev, pc[p].initiating, pc[p].jobs)
       IN  Goto(p, IF answer.status = "PROPOSAL_CREATED"
                   THEN [at |-> "save", proposal |-> answer.proposal] ELSE Idle)
    /\ UNCHANGED <<world, rows, edits, calls, lost>>

(* save_proposal: the same fingerprint is the proposal already saved.      *)
SaveProposal(p) ==
    /\ pc[p].at = "save"
    /\ LET q == pc[p].proposal
       IN  /\ q \in DOMAIN proposals \/ Cardinality(DOMAIN proposals) < MaxProposals
           /\ proposals' = IF q \in DOMAIN proposals THEN proposals
                           ELSE Inserted(proposals, q, "PENDING_OWNER_APPROVAL")
    /\ Goto(p, Idle)
    /\ UNCHANGED <<world, rev, cal, mat, gates, decisions, done, trace, edits, calls, lost>>

-----------------------------------------------------------------------------
(* request_replan_approval, until the interrupt stops the turn.            *)

(* create_replan_gate reads the status before its transaction begins.      *)
RequestReplanApproval(p, q) ==
    /\ pc[p] = Idle
    /\ proposals[q] = "PENDING_OWNER_APPROVAL"
    /\ calls < MaxCalls
    /\ calls' = calls + 1
    /\ Goto(p, [at |-> "gate", proposal |-> q, interrupt |-> calls + 1])
    /\ UNCHANGED <<world, rows, edits, lost>>

NewGate == [status |-> "PENDING", interrupt |-> None, action |-> None]

CreateReplanGateAfresh(p) ==
    /\ pc[p].at = "gate"
    /\ gates' = Inserted(gates, pc[p].proposal, NewGate)
    /\ Goto(p, [pc[p] EXCEPT !.at = "interrupted"])
    /\ UNCHANGED <<world, rev, cal, mat, proposals, decisions, done, trace, edits, calls, lost>>

CreateReplanGate(p) ==
    /\ pc[p].at = "gate"
    /\ gates' = IF pc[p].proposal \in DOMAIN gates THEN gates
                ELSE Inserted(gates, pc[p].proposal, NewGate)
    /\ Goto(p, [pc[p] EXCEPT !.at = "interrupted"])
    /\ UNCHANGED <<world, rev, cal, mat, proposals, decisions, done, trace, edits, calls, lost>>

(* bind_gate_interrupt, in _finish_interrupt_or_turn: a gate that is       *)
(* claimed or bound to another interrupt refuses, and the turn is an error.*)
BindGateInterrupt(p) ==
    /\ pc[p].at = "interrupted"
    /\ LET g == gates[pc[p].proposal]
       IN  gates' = IF g.status = "PENDING" /\ g.interrupt = None
                    THEN [gates EXCEPT ![pc[p].proposal].interrupt = pc[p].interrupt]
                    ELSE gates
    /\ Goto(p, Idle)
    /\ UNCHANGED <<world, rev, cal, mat, proposals, decisions, done, trace, edits, calls, lost>>

-----------------------------------------------------------------------------
(* resume_replan_decision: claim, then the tool again from its start.      *)

ClaimAllowedTwice(q) ==
    /\ gates[q].status \in {"PENDING", "RESUMING"}
    /\ gates[q].interrupt # None
    /\ proposals[q] = "PENDING_OWNER_APPROVAL"

ClaimAllowed(q) ==
    /\ gates[q].status = "PENDING"
    /\ gates[q].interrupt # None
    /\ proposals[q] = "PENDING_OWNER_APPROVAL"

(* claim_replan_response.  A refused claim changes nothing: the INVALIDATED*)
(* it may write is rolled back by the error it raises.  The answer a       *)
(* resolved gate already has is returned, without another resume.          *)
ClaimReplanResponse(p, q, action) ==
    /\ pc[p] = Idle
    /\ ClaimAllowed(q)
    /\ gates' = [gates EXCEPT ![q].status = "RESUMING", ![q].action = action]
    /\ Goto(p, [at |-> "resumed", proposal |-> q, action |-> action])
    /\ UNCHANGED <<world, rev, cal, mat, proposals, decisions, done, trace, edits, calls, lost>>

(* The resumed tool reads the proposal and finds the gate it created.      *)
ResumeTool(p) ==
    /\ pc[p].at = "resumed"
    /\ proposals[pc[p].proposal] = "PENDING_OWNER_APPROVAL"
    /\ Goto(p, [pc[p] EXCEPT !.at = "apply"])
    /\ UNCHANGED <<world, rows, edits, calls, lost>>

StillFreshUnchecked(q) == q \in DOMAIN proposals

(* Every revision the proposal is bound to is the current one.             *)
StillFresh(q) ==
    /\ \A j \in DOMAIN q.jobRev : rev[j] = q.jobRev[j]
    /\ \A a \in DOMAIN q.calRev : cal[a].rev = q.calRev[a]

Response(s) == [proposal |-> s.proposal, action |-> s.action]

RejectStaleRolledBack(q) ==
    UNCHANGED <<rev, cal, proposals, gates, decisions, done, trace>>

(* A stale proposal is remembered as such and its gate is invalidated.     *)
RejectStale(q) ==
    /\ proposals' = [proposals EXCEPT ![q] = "STALE"]
    /\ gates' = [gates EXCEPT ![q].status = "INVALIDATED"]
    /\ trace' = trace (+) DecisionRows(q, "REPLAN_STALE")
    /\ UNCHANGED <<rev, cal, decisions, done>>

Decide(q, action) ==
    /\ decisions' = decisions \cup {[proposal |-> q, action |-> action]}
    /\ IF action = "APPROVE_REPLAN"
       THEN /\ cal' = [ a \in DOMAIN cal |->
                          IF a \in DOMAIN q.calRev
                          THEN [start |-> q.after[a].start, end |-> q.after[a].end,
                                rev |-> cal[a].rev + 1]
                          ELSE cal[a] ]
            /\ rev' = [ j \in Jobs |-> IF j \in DOMAIN q.jobRev THEN rev[j] + 1 ELSE rev[j] ]
            /\ proposals' = [proposals EXCEPT ![q] = "APPLIED"]
            /\ trace' = trace (+) DecisionRows(q, "REPLAN_APPLIED")
       ELSE /\ proposals' = [proposals EXCEPT ![q] = "REJECTED"]
            /\ trace' = trace (+) DecisionRows(q, "REPLAN_REJECTED")
            /\ UNCHANGED <<cal, rev>>
    /\ gates' = [gates EXCEPT ![q].status = "RESOLVED"]
    /\ done' = done \cup {[proposal |-> q, action |-> action]}

(* apply_replan_response, one transaction.                                 *)
ApplyReplanResponse(p) ==
    /\ pc[p].at = "apply"
    /\ LET q == pc[p].proposal
       IN  IF \/ Response(pc[p]) \in done
              \/ gates[q].status # "RESUMING"
              \/ gates[q].action # pc[p].action
              \/ proposals[q] # "PENDING_OWNER_APPROVAL"
           THEN UNCHANGED <<rev, cal, proposals, gates, decisions, done, trace>>
           ELSE IF ~ StillFresh(q) THEN RejectStale(q)
           ELSE Decide(q, pc[p].action)
    /\ Goto(p, Idle)
    /\ UNCHANGED <<world, mat, edits, calls, lost>>

(* An exception or a crash ends a turn anywhere between two transactions;  *)
(* nothing takes a claimed gate back.                                      *)
Fail(p) ==
    /\ pc[p] # Idle
    /\ lost' = IF pc[p].at \in {"resumed", "apply"} THEN lost \cup {pc[p].proposal} ELSE lost
    /\ Goto(p, Idle)
    /\ UNCHANGED <<world, rows, edits, calls>>

-----------------------------------------------------------------------------

(* The resume of a claimed answer runs on by itself.                       *)
Resume(p) == ResumeTool(p) \/ ApplyReplanResponse(p)

(* The steps a running process takes without anybody's input.              *)
Work(p) ==
    \/ ReadCalendar(p) \/ PlanReplan(p) \/ SaveProposal(p)
    \/ CreateReplanGate(p) \/ BindGateInterrupt(p)
    \/ Resume(p)

Begin(p) ==
    \/ \E r \in Requests : ReadWorkflows(p, r)
    \/ \E q \in DOMAIN proposals : RequestReplanApproval(p, q)
    \/ \E q \in DOMAIN gates, x \in Actions : ClaimReplanResponse(p, q, x)

ReplanNext ==
    \/ \E j \in Jobs : UpdateWorkflowCas(j)
    \/ \E a \in DOMAIN cal, t \in ArrivalTimes : RecordMaterialDelay(a, t)
    \/ \E p \in Processes : Begin(p) \/ Work(p) \/ Fail(p)

ReplanSpec == ReplanInit /\ [][ReplanNext]_vars /\ \A p \in Processes : WF_vars(Resume(p))

-----------------------------------------------------------------------------
(* Properties.                                                             *)

Outcome == [REPLAN_APPLIED |-> "APPLIED", REPLAN_REJECTED |-> "REJECTED", REPLAN_STALE |-> "STALE"]

RowsIn(bag, row) == IF BagIn(row, bag) THEN bag[row] ELSE 0

(* Every affected job can read from its trace what happened to a proposal: *)
(* one row for the outcome, for no outcome that did not happen.            *)
OutcomeTracedOnce ==
    \A q \in DOMAIN proposals : \A j \in q.jobs : \A what \in DOMAIN Outcome :
        RowsIn(trace, Row(j, what, q)) = (IF proposals[q] = Outcome[what] THEN 1 ELSE 0)

(* create_replan_gate checks the proposal before its transaction, and a    *)
(* claim that meets a settled proposal rolls its own mark back.  Both are  *)
(* harmless because a gate that can still be answered is on a proposal     *)
(* that is still open, and a settled gate on one settled the same way, as  *)
(* the traces of the affected jobs say.                                    *)
GateAgreesWithProposal ==
    /\ \A q \in DOMAIN gates :
        /\ gates[q].status \in {"PENDING", "RESUMING"} <=> proposals[q] = "PENDING_OWNER_APPROVAL"
        /\ gates[q].status = "INVALIDATED" <=> proposals[q] = "STALE"
        /\ gates[q].status = "RESOLVED" =>
              { d \in decisions : d.proposal = q } = {[proposal |-> q, action |-> gates[q].action]}
    /\ OutcomeTracedOnce

(* The calendar is what the approved proposals made of it, in the order of *)
(* the revisions they were planned against: every revision of a placement  *)
(* comes from exactly one APPLIED proposal planned from the revision       *)
(* before, no update is lost, and the last one's placement stands.  Two    *)
(* approvals planned from the same placement never both move it.           *)
CalendarIsAppliedHistory ==
    \A a \in DOMAIN cal :
        LET by(r) == { q \in DOMAIN proposals :
                         proposals[q] = "APPLIED" /\ a \in q.moved /\ q.calRev[a] = r }
        IN  /\ \A r \in 0 .. cal[a].rev - 1 : Cardinality(by(r)) = 1
            /\ by(cal[a].rev) = {}
            /\ cal[a].rev > 0 =>
                  \A q \in by(cal[a].rev - 1) :
                      q.after[a] = [start |-> cal[a].start, end |-> cal[a].end]

(* What a proposal promises in its reason codes, judged by the facts that  *)
(* do not change: the tasks of the new order do not overlap, travel fits   *)
(* between two sites, hard deadlines and the working day are kept, and no  *)
(* task is made longer or shorter.                                         *)
ProposalIsFeasible ==
    \A q \in DOMAIN proposals :
        /\ q.moved # {}
        /\ \A a \in DOMAIN q.after :
              /\ q.after[a].end - q.after[a].start = q.before[a].end - q.before[a].start
              /\ q.after[a].start >= world.now /\ q.after[a].start >= world.day[1]
              /\ q.after[a].end <= world.day[2]
              /\ world.assign[a].deadline # None => q.after[a].end <= world.assign[a].deadline
              /\ \A b \in DOMAIN q.after \ {a} :
                    LET next  == q.after[b].start >= q.after[a].end
                        first == ~ \E c \in DOMAIN q.after \ {a, b} :
                                     /\ q.after[c].start >= q.after[a].end
                                     /\ q.after[c].end <= q.after[b].start
                        legs  == RoutesBetween(world, world.assign[a].job, world.assign[b].job)
                    IN  /\ next \/ q.after[a].start >= q.after[b].end
                        /\ next /\ first /\ world.assign[a].job # world.assign[b].job =>
                              \E r \in legs : q.after[b].start >= q.after[a].end + r.time

(* The gate keeps the promise every owner gate makes.                      *)
GatesAt(status) == { q \in DOMAIN gates : gates[q].status = status }
ClaimedAnswers == { <<q, gates[q].action>> : q \in GatesAt("RESUMING") }
RecordedAnswers == { <<d.proposal, d.action>> : d \in decisions }

Gate == INSTANCE DecisionGate WITH
    open <- GatesAt("PENDING"), claimed <- ClaimedAnswers,
    decided <- RecordedAnswers, void <- GatesAt("INVALIDATED")

(* pending_gates and owner_decisions together implement the abstract gate: *)
(* the decision is the claimed answer, it is recorded once and stays.      *)
ReplanGateDecidesOnce == Gate!GateSpec

(* A claimed answer is applied or found stale, unless the process that     *)
(* claimed it failed on the way.                                           *)
ClaimsSettle ==
    []<>(\A q \in DOMAIN gates : gates[q].status = "RESUMING" => q \in lost)
=============================================================================
