------------------------------ MODULE FieldState ------------------------------
(***************************************************************************)
(* M2 as one atomic service: the canonical roots and the ledger form one   *)
(* scope, roots appear one at a time, and every submitted input is reduced *)
(* against the whole scope in one step.  Events may arrive in any order,   *)
(* and any number of times: a device works offline and retries.            *)
(*                                                                         *)
(* This is both the model in which the behavioural contract is checked and *)
(* the abstract specification that DurableInbox implements.                *)
(***************************************************************************)
EXTENDS M2Reducer

VARIABLES
    scope,     \* every canonical root and the whole processed-event ledger
    emitted    \* effects handed out so far: [source, ordinal, type]

vars == <<scope, emitted>>

-----------------------------------------------------------------------------
Init == scope = EmptyScope /\ emitted = {}

-----------------------------------------------------------------------------
(* Materialisation of roots. *)

CreatePlanDayRoot(d) ==
    /\ d \notin scope.days
    /\ scope' = [scope EXCEPT !.days = @ \cup {d}]
    /\ UNCHANGED emitted

(* Assignment links are foreign keys to plan days that exist. *)
CreateJobExecutionRoot(j) ==
    /\ j \notin scope.jobs
    /\ \A a \in Assignments : AsgDef[a].job = j => AsgDef[a].days \subseteq scope.days
    /\ scope' = [scope EXCEPT !.jobs = @ \cup {j}]
    /\ UNCHANGED emitted

CreateDirectiveRoot(x) ==
    /\ x \notin scope.dirs
    /\ ValidNewDirective(scope, x)
    /\ scope' = [scope EXCEPT !.dirs = @ \cup {x}]
    /\ UNCHANGED emitted

-----------------------------------------------------------------------------
(* Inputs. *)

(* The inbox answers an event id or a server id that it knows before the   *)
(* rule version is looked at; only what is new to it needs a receipt.      *)
KnownToLedger(i) == \E r \in scope.receipts : r.event.id = i.event.id \/ r.sid = i.sid

Submitted(i, c) ==
    IF KnownToLedger(i) THEN Reduce(scope, i, c)
    ELSE NormalizeReduction(i, Reduce(scope, i, c))

SubmitEvent(i, c) ==
    /\ KnownToLedger(i) => c.ruleSupported
    /\ \E r \in {Submitted(i, c)} :
          /\ scope' = r.scope
          /\ emitted' = emitted \cup Emissions(Key(i), r.emitted)

SubmitSignal(g, c) ==
    \E r \in {Reduce(scope, g, c)} :
       /\ scope' = r.scope
       /\ emitted' = emitted \cup Emissions(Key(g), r.emitted)

Next ==
    \/ \E d \in PlanDays : CreatePlanDayRoot(d)
    \/ \E j \in Jobs : CreateJobExecutionRoot(j)
    \/ \E x \in Directives : CreateDirectiveRoot(x)
    \/ \E i \in FieldInputs, c \in Contexts : SubmitEvent(i, c)
    \/ \E g \in Signals, c \in Contexts : SubmitSignal(g, c)

Spec == Init /\ [][Next]_vars

-----------------------------------------------------------------------------
(* Correctness. *)

(* The roots, the ledger and the effects keep the shapes of models.py: a   *)
(* completion, hold or exception names an event, a hold a known directive. *)
TypeOK ==
    /\ ScopeType(scope)
    /\ emitted \subseteq [source : Keys, ordinal : Nat, type : EffectType]

Held(s, t) == s.task[t].blocked

StagesOf(t) == {g \in Stages : StageTask[g] = t}

(* S31 of the contract: no event, signal, retry or new day lets a task out *)
(* of SAFE_HOLD, gives back its right of execution or completes one of its *)
(* stages (every handler goes through the safe-hold guards).               *)
SafeHoldPersists ==
    [][\A t \in Tasks : Held(scope, t) =>
          /\ Held(scope', t)
          /\ scope'.task[t].status = "SAFE_HOLD"
          /\ ~scope'.task[t].authorized
          /\ \A g \in StagesOf(t) : scope'.stage[g].status = "DONE"
                                       => scope.stage[g].status = "DONE"]_vars

(* S17: an exception against a STOP leaves the STOP in force and holds the *)
(* task, in two roots changed by one event (_worker_action_exception).     *)
StopExceptionHolds ==
    \A x \in Directives :
        DirDef[x].class = "STOP" /\ scope.dir[x].exception # None =>
            /\ scope.dir[x].stopInForce
            /\ Held(scope, DirDef[x].task)
            /\ scope.task[DirDef[x].task].holdDirective # None

(* TaskState.__post_init__: SAFE_HOLD blocks and withdraws execution. *)
SafeHoldBlocks ==
    \A t \in Tasks :
        /\ Held(scope, t) <=> scope.task[t].status = "SAFE_HOLD"
        /\ Held(scope, t) => ~scope.task[t].authorized

Unsafe(r) == /\ r.event.type = "SITE_PROBLEM_REPORTED"
             /\ r.event.severity = "UNSAFE"
             /\ r.outcome = "APPLIED"

(* S30, in either order of arrival: a stage with an unsafe report of its   *)
(* own is not DONE unless its task is held; a task with an unsafe report   *)
(* is DONE only by a completion that named another stage.                  *)
UnsafeNeverDone ==
    \A r \in scope.receipts : Unsafe(r) =>
        LET t == r.event.task IN
        /\ r.event.stage # None /\ scope.stage[r.event.stage].status = "DONE"
              => Held(scope, t)
        /\ scope.task[t].status = "DONE" =>
              \E q \in scope.receipts : /\ q.event.id = scope.task[t].completion
                                        /\ q.event.stage \notin {None, r.event.stage}

(* S11, conflict rule 3: once a completion is disputed its target never    *)
(* shows as DONE again, except for a stage of a task already held.         *)
DisputeFailsClosed ==
    \A r \in scope.receipts :
        r.event.type = "COMPLETION_DISPUTED" /\ r.outcome = "APPLIED" =>
            IF r.event.stage = None THEN scope.task[r.event.task].status # "DONE"
            ELSE scope.stage[r.event.stage].status = "DONE" => Held(scope, r.event.task)

MayComplete(w, a, t) ==
    /\ AsgDef[a].task = t /\ w \in AsgDef[a].members
    /\ AsgDef[a].kind = TaskDef[t].kind
    /\ AsgDef[a].kind = "CREW" => AsgDef[a].lead = w

(* S9, S10, S12: behind every DONE stands the applied completion receipt   *)
(* it names, of the right type, by the lead of the crew or a member, with  *)
(* the postconditions met and the required evidence on the task.           *)
CompletionBacked ==
    /\ \A t \in Tasks : scope.task[t].status = "DONE" =>
          \E r \in scope.receipts :
             /\ r.event.id = scope.task[t].completion /\ r.outcome = "APPLIED"
             /\ r.event.task = t /\ ExpectedType[r.event.type] = TaskDef[t].completion
             /\ MayComplete(r.event.actor, r.event.asg, t)
             /\ TaskDef[t].postconditions \subseteq r.event.satisfied
             /\ TaskDef[t].evidenceKinds \subseteq {v.kind : v \in scope.task[t].evidence}
    /\ \A g \in Stages : scope.stage[g].status = "DONE" =>
          \E r \in scope.receipts :
             /\ r.event.id = scope.stage[g].completion /\ r.outcome = "APPLIED"
             /\ r.event.stage = g /\ r.event.type = "STAGE_COMPLETION_REPORTED"
             /\ MayComplete(r.event.actor, r.event.asg, StageTask[g])

AppliedAcks(x) ==
    {r \in scope.receipts : r.outcome = "APPLIED" /\ r.event.dir = x
                               /\ r.event.type = "WORKER_ACKNOWLEDGED"}

(* S27: delivery evidence ACKED means that the addressed worker really     *)
(* acknowledged, and it took exactly one applied acknowledgement.          *)
InformedByOneAck ==
    \A x \in Directives :
        /\ Cardinality(AppliedAcks(x)) <= 1
        /\ scope.dir[x].delivery = "ACKED" <=> AppliedAcks(x) # {}
        /\ scope.dir[x].delivery = "ACKED" => DirectiveWorkerInformed(scope, x)

(* S15, conflict rule 4: an acknowledgement that arrives late does not     *)
(* roll the confirmed plan back behind a newer acknowledged directive that *)
(* proposes another plan.                                                  *)
LateAckNeverRollsBack ==
    \A x, y \in scope.dirs :
        /\ DirDef[x].proposed # None
        /\ DirDef[x].day # None /\ scope.day[DirDef[x].day].confirmed = DirDef[x].proposed
        /\ StreamKey(y) = StreamKey(x) /\ DirDef[y].seq > DirDef[x].seq
        /\ DirDef[y].class = "ACTION"
        /\ DirDef[y].proposed \notin {None, DirDef[x].proposed}
        /\ DirectiveWorkerInformed(scope, y)
        => LaterGoverningDirectiveExists(scope, y)

EscalationsOf(x) ==
    {f \in emitted : /\ f.type \in {"ACK_MISSING_ESCALATED", "STOP_UNCONFIRMED"}
                     /\ \E g \in Signals : Key(g) = f.source /\ g.dir = x}

(* Table 2: one directive is escalated at most once, however many E1       *)
(* signals fire for it and whatever is acknowledged in between.            *)
EscalatedOnce == \A x \in Directives : Cardinality(EscalationsOf(x)) <= 1

(* A directive is answered once: the three rules above together, for every *)
(* order of acknowledgements, exceptions and E1 timers.                    *)
DirectiveAnsweredOnce == InformedByOneAck /\ LateAckNeverRollsBack /\ EscalatedOnce

ReportedFor(d, type) ==
    \E r \in scope.receipts : /\ r.event.type = type /\ r.event.day = d
                              /\ r.outcome = "APPLIED"
                              /\ r.event.actor = DayDef[d].worker

(* S1, S4, S6, S22: a worker loses availability by an own explicit report  *)
(* or by a closed day, and a day closes only after its worker reported it. *)
AvailabilityByGesture ==
    \A d \in PlanDays :
        /\ scope.day[d].status = "DAY_CLOSED" =>
              ~scope.day[d].available /\ ReportedFor(d, "DAY_CLOSE_REPORTED")
        /\ ~scope.day[d].available =>
              \/ scope.day[d].status = "DAY_CLOSED"
              \/ ReportedFor(d, "UNAVAILABLE_TODAY_REPORTED")

(* S7: whatever happened since, a retry of a processed event answers the   *)
(* first result, emits nothing and changes nothing.                        *)
RetryIsSilent ==
    \A q \in scope.receipts :
        \A i \in {j \in FieldInputs : j.event = q.event},
           c \in {x \in Contexts : x.ruleSupported} :
          \A r \in {Reduce(scope, i, c)} :
            /\ r.scope = scope /\ r.emitted = <<>>
            /\ r.outcome = q.outcome /\ r.response = q.response
            /\ r.reasons = q.reasons /\ r.missing = q.missing

(* Conflict rule 5: an evidence identity keeps one content and one task. *)
EvidenceImmutable ==
    \A t, u \in Tasks : \A v \in scope.task[t].evidence, w \in scope.task[u].evidence :
        v.id = w.id => v = w /\ t = u

(* What DONE stands on, however completions, disputes, unsafe reports and  *)
(* photographs were ordered: no unsafe report or dispute speaks against    *)
(* it, a completion that was allowed backs it, and the evidence it needed  *)
(* is still what was delivered for that task.                              *)
DoneIsEarned ==
    UnsafeNeverDone /\ DisputeFailsClosed /\ CompletionBacked /\ EvidenceImmutable

(* Conflict rule 3 of the contract for ACTION against ACTION_EXCEPTION:    *)
(* the proposal of an action that its worker excepted is not confirmed     *)
(* afterwards.                                                             *)
ExceptedActionNotConfirmed ==
    [][\A x \in Directives :
          /\ DirDef[x].day # None /\ DirDef[x].proposed # None
          /\ scope.dir[x].exception # None
          /\ scope.day[DirDef[x].day].confirmed # DirDef[x].proposed
          => scope'.day[DirDef[x].day].confirmed # DirDef[x].proposed]_vars

=============================================================================
