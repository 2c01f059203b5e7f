--------------------------- MODULE FieldStateProofs ---------------------------
(***************************************************************************)
(* Theorems about the atomic service of FieldState, for every company,     *)
(* every set of inputs and every policy context.  The inductive invariant  *)
(* is Inv: types, guarded holds, and one receipt for each event id.        *)
(*                                                                         *)
(* The contract proper needs more of the history.  Base adds what every    *)
(* applied receipt has passed; on it stand three independent inductive     *)
(* invariants: DaysReported (plan days), Answers with Escalated            *)
(* (directives) and EvidenceOwned, DisputesHalt, DoneBacked with           *)
(* UnsafeNeverDone (work).  Each is shown over the few kinds of step that  *)
(* the moves of M2ReducerProofs leave.                                     *)
(***************************************************************************)
EXTENDS FieldState, M2ReducerProofs, FiniteSetTheorems

(* The ledger answers an event id with one receipt. *)
LedgerOnce(s) ==
    \A q, r \in s.receipts : q.event.id = r.event.id => q = r

Inv == TypeOK /\ Guarded(scope) /\ LedgerOnce(scope)

-----------------------------------------------------------------------------
(* The outbox rows of an input. *)
LEMMA EmissionsType ==
    ASSUME NEW source \in Keys, NEW f \in Seq(EffectType)
    PROVE  Emissions(source, f) \subseteq
              [source : Keys, ordinal : Nat, type : EffectType]
  <1>1. \A k \in 1..Len(f) : k \in Nat /\ f[k] \in EffectType
    OBVIOUS
  <1> QED
    BY <1>1 DEF Emissions

(* The invariant holds before any root or input exists. *)
LEMMA InitInv == Init => Inv
  <1> SUFFICES ASSUME Init PROVE Inv
    OBVIOUS
  <1>1. scope = EmptyScope /\ emitted = {} /\ scope.receipts = {}
    BY DEF Init, EmptyScope
  <1> QED
    BY <1>1, EmptyScopeGood DEF Inv, TypeOK, ScopeType, LedgerOnce

-----------------------------------------------------------------------------
(* The receipt that a submission appends. *)

(* Only an event id that the ledger s does not know gets a receipt. *)
Appends(s, i, r) ==
    r.receipts # {} =>
        /\ \E q : r.receipts = {q} /\ q.event = i.event
        /\ \A q \in s.receipts : q.event.id # i.event.id

(* reduce appends a receipt only for an event id that is new to the ledger. *)
LEMMA ReduceAppends ==
    ASSUME NEW s, NEW i, NEW c, i.kind = "FIELD_EVENT"
    PROVE  Appends(s, i, Reduce(s, i, c))
  <1> DEFINE r == RawReduction(s, i, c)
  <1>1. Appends(s, i, r)
    <2>1. \A v : Appends(s, i, Reduction(v, {}, FALSE)) /\ Appends(s, i, Reduction(v, {}, TRUE))
      BY DEF Appends, Reduction
    <2>2. ASSUME NEW v, \A q \in s.receipts : q.event.id # i.event.id
          PROVE  Appends(s, i, FinishEvent(v, i))
      BY <2>2 DEF Appends, FinishEvent, Reduction
    <2>3. Appends(s, i, ReduceFieldEvent(s, i, c))
      BY <2>1, <2>2 DEF ReduceFieldEvent, Replay, RejectEvent
    <2> QED
      BY <2>1, <2>3 DEF RawReduction
  <1>2. Reduce(s, i, c).receipts = r.receipts
    <2>1. /\ "receipts" \in DOMAIN r /\ "scope" \in DOMAIN r
      BY DEF RawReduction, ReduceFieldEvent, Replay, RejectEvent, FinishEvent, Reduction
    <2> HIDE DEF r
    <2> QED
      BY <2>1 DEF Reduce, r
  <1> QED
    BY <1>1, <1>2 DEF Appends

(* A submission, whichever way it goes. *)
LEMMA SubmittedGood ==
    ASSUME Inv, NEW i \in FieldInputs, NEW c
    PROVE  /\ GoodReduction(scope.receipts, scope, Submitted(i, c))
           /\ Appends(scope, i, Submitted(i, c))
  <1> DEFINE r == Reduce(scope, i, c)
             n == NormalizeReduction(i, r)
  <1>1. scope \in Scopes(scope.receipts) /\ \A q \in scope.receipts : ReceiptType(q)
    BY DEF Inv, TypeOK, ScopeType
  <1>2. GoodReduction(scope.receipts, scope, r)
    BY <1>1, ReduceGood
  <1>3. GoodReduction(scope.receipts, scope, n)
    BY <1>1, <1>2, NormalizeGood
  <1>4. i.kind = "FIELD_EVENT"
    BY InputAssumption DEF InputAssumption
  <1>5. Appends(scope, i, r)
    BY <1>4, ReduceAppends
  <1>6. ASSUME ~KnownToLedger(i)
        PROVE  Appends(scope, i, n)
    <2>1. \A q \in scope.receipts : q.event.id # i.event.id
      BY <1>6 DEF KnownToLedger
    <2> HIDE DEF r
    <2> QED
      BY <1>5, <2>1 DEF NormalizeReduction, FinishEvent, Reduction, Appends
  <1> HIDE DEF r, n
  <1> QED
    BY <1>2, <1>3, <1>5, <1>6 DEF Submitted, r, n

(* The invariant of the scope after a legal reduction. *)
LEMMA GoodScopes ==
    ASSUME Inv, NEW r, GoodReduction(scope.receipts, scope, r)
    PROVE  ScopeType(r.scope) /\ Guarded(r.scope)
  <1>1. r.scope.receipts = scope.receipts \cup r.receipts
    BY ScopeParts DEF GoodReduction
  <1> QED
    BY <1>1 DEF Inv, TypeOK, ScopeType, GoodReduction, HoldStep

(* Materialising a root keeps the invariant. *)
LEMMA CreateGood ==
    ASSUME Inv,
           \/ \E d \in PlanDays : CreatePlanDayRoot(d)
           \/ \E j \in Jobs : CreateJobExecutionRoot(j)
           \/ \E x \in Directives : CreateDirectiveRoot(x)
    PROVE  /\ Inv'
           /\ scope'.task = scope.task /\ scope'.stage = scope.stage
  <1>1. scope \in Scopes(scope.receipts) /\ \A q \in scope.receipts : ReceiptType(q)
    BY DEF Inv, TypeOK, ScopeType
  <1>2. /\ scope' \in Scopes(scope.receipts)
        /\ scope'.receipts = scope.receipts /\ scope'.dir = scope.dir
        /\ scope'.task = scope.task /\ scope'.stage = scope.stage
        /\ emitted' = emitted
    <2>1. CASE \E d \in PlanDays : CreatePlanDayRoot(d)
      BY <1>1, <2>1 DEF CreatePlanDayRoot, Scopes
    <2>2. CASE \E j \in Jobs : CreateJobExecutionRoot(j)
      BY <1>1, <2>2 DEF CreateJobExecutionRoot, Scopes
    <2>3. CASE \E x \in Directives : CreateDirectiveRoot(x)
      BY <1>1, <2>3 DEF CreateDirectiveRoot, Scopes
    <2> QED
      BY <2>1, <2>2, <2>3
  <1>3. TypeOK'
    BY <1>1, <1>2 DEF Inv, TypeOK, ScopeType
  <1>4. Guarded(scope)'
    BY <1>2 DEF Inv, Guarded, StopHeld
  <1>5. LedgerOnce(scope)'
    BY <1>2 DEF Inv, LedgerOnce
  <1> QED
    BY <1>2, <1>3, <1>4, <1>5 DEF Inv

(* What a submitted input does to the holds. *)
LEMMA SubmitGood ==
    ASSUME Inv,
           \/ \E i \in FieldInputs, c \in Contexts : SubmitEvent(i, c)
           \/ \E g \in Signals, c \in Contexts : SubmitSignal(g, c)
    PROVE  Inv' /\ HoldStep(scope, scope')
  <1>1. CASE \E i \in FieldInputs, c \in Contexts : SubmitEvent(i, c)
    <2>1. PICK i \in FieldInputs, c \in Contexts : SubmitEvent(i, c)
      BY <1>1
    <2> DEFINE r == Submitted(i, c)
    <2>2. GoodReduction(scope.receipts, scope, r) /\ Appends(scope, i, r)
      BY SubmittedGood
    <2>3. scope' = r.scope /\ emitted' = emitted \cup Emissions(Key(i), r.emitted)
      BY <2>1 DEF SubmitEvent
    <2> HIDE DEF r
    <2>4. ScopeType(scope)' /\ Guarded(scope)'
      BY <2>2, <2>3, GoodScopes
    <2>5. Key(i) \in Keys /\ r.emitted \in Seq(EffectType)
      BY <2>2 DEF Keys, Inputs, GoodReduction
    <2>6. TypeOK'
      BY <2>3, <2>4, <2>5, EmissionsType DEF Inv, TypeOK
    <2>7. scope'.receipts = scope.receipts \cup r.receipts
      BY <2>2, <2>3, ScopeParts DEF GoodReduction
    <2>8. LedgerOnce(scope)'
      BY <2>2, <2>7 DEF Inv, LedgerOnce, Appends
    <2>9. HoldStep(scope, scope')
      BY <2>2, <2>3 DEF GoodReduction
    <2> QED
      BY <2>4, <2>6, <2>8, <2>9 DEF Inv
  <1>2. CASE \E g \in Signals, c \in Contexts : SubmitSignal(g, c)
    <2>1. PICK g \in Signals, c \in Contexts : SubmitSignal(g, c)
      BY <1>2
    <2> DEFINE r == Reduce(scope, g, c)
    <2>2. GoodReduction(scope.receipts, scope, r)
      BY ReduceGood DEF Inv, TypeOK, ScopeType
    <2>3. scope' = r.scope /\ emitted' = emitted \cup Emissions(Key(g), r.emitted)
      BY <2>1 DEF SubmitSignal
    <2>4. r.receipts = {}
      <3>1. g.kind # "FIELD_EVENT"
        BY InputAssumption DEF InputAssumption
      <3> DEFINE w == RawReduction(scope, g, c)
      <3>2. w.receipts = {} /\ "scope" \in DOMAIN w /\ "receipts" \in DOMAIN w
        BY <3>1 DEF RawReduction, Reduction
      <3> HIDE DEF w
      <3> QED
        BY <3>2 DEF Reduce, w
    <2> HIDE DEF r
    <2>5. ScopeType(scope)' /\ Guarded(scope)'
      BY <2>2, <2>3, GoodScopes
    <2>6. Key(g) \in Keys /\ r.emitted \in Seq(EffectType)
      BY <2>2 DEF Keys, Inputs, GoodReduction
    <2>7. TypeOK'
      BY <2>3, <2>5, <2>6, EmissionsType DEF Inv, TypeOK
    <2>8. scope'.receipts = scope.receipts
      BY <2>2, <2>3, <2>4, ScopeParts DEF GoodReduction
    <2>9. LedgerOnce(scope)' /\ HoldStep(scope, scope')
      BY <2>2, <2>3, <2>8 DEF Inv, LedgerOnce, GoodReduction
    <2> QED
      BY <2>5, <2>7, <2>9 DEF Inv
  <1> QED
    BY <1>1, <1>2

(* The invariant is inductive. *)
LEMMA NextInv == Inv /\ [Next]_vars => Inv'
  <1> SUFFICES ASSUME Inv, [Next]_vars PROVE Inv'
    OBVIOUS
  <1>1. CASE Next
    BY <1>1, CreateGood, SubmitGood DEF Next
  <1>2. CASE UNCHANGED vars
    BY <1>2 DEF vars, Inv, TypeOK, Guarded, HeldProperly, StopHeld, LedgerOnce
  <1> QED
    BY <1>1, <1>2

-----------------------------------------------------------------------------
(* Types, holds and retries. *)

(* The service never leaves its types, whatever the order of creations,    *)
(* events, retries and signals.                                            *)
THEOREM TypeCorrect == Spec => []TypeOK
  <1>1. Inv => TypeOK
    BY DEF Inv
  <1> QED
    BY <1>1, InitInv, NextInv, PTL DEF Spec

(* TaskState.__post_init__ never fires: SAFE_HOLD, the block and the       *)
(* withdrawn right of execution always come together.                      *)
THEOREM SafeHoldAlwaysBlocks == Spec => []SafeHoldBlocks
  <1>1. Inv => SafeHoldBlocks
    BY DEF Inv, Guarded, HeldProperly, SafeHoldBlocks, Held
  <1> QED
    BY <1>1, InitInv, NextInv, PTL DEF Spec

(* An exception against a STOP leaves the STOP in force over a held task,  *)
(* forever (_worker_action_exception and every later handler).             *)
THEOREM StopExceptionAlwaysHolds == Spec => []StopExceptionHolds
  <1>1. Inv => StopExceptionHolds
    BY DEF Inv, Guarded, StopHeld, StopExceptionHolds, Held
  <1> QED
    BY <1>1, InitInv, NextInv, PTL DEF Spec

(* Nothing that M2 offers releases a safe hold: S31 of the contract. *)
THEOREM SafeHoldIsForever == Spec => SafeHoldPersists
  <1> DEFINE Kept == \A t \in Tasks : Held(scope, t) =>
                        /\ Held(scope', t)
                        /\ scope'.task[t].status = "SAFE_HOLD"
                        /\ ~scope'.task[t].authorized
                        /\ \A g \in StagesOf(t) : scope'.stage[g].status = "DONE"
                                                     => scope.stage[g].status = "DONE"
  <1>1. Inv /\ [Next]_vars => [Kept]_vars
    <2> SUFFICES ASSUME Inv, [Next]_vars PROVE [Kept]_vars
      OBVIOUS
    <2>1. Inv'
      BY NextInv
    <2>2. CASE Next
      <3>1. HoldStep(scope, scope') \/ (scope'.task = scope.task /\ scope'.stage = scope.stage)
        BY <2>2, CreateGood, SubmitGood DEF Next
      <3>2. \A t \in Tasks : Held(scope, t) => Held(scope', t)
        BY <3>1 DEF Inv, HoldStep, Held
      <3>3. \A t \in Tasks : Held(scope', t) => /\ scope'.task[t].status = "SAFE_HOLD"
                                                /\ ~scope'.task[t].authorized
        BY <2>1 DEF Inv, Guarded, HeldProperly, Held
      <3>4. \A t \in Tasks : Held(scope, t) =>
              \A g \in StagesOf(t) : scope'.stage[g].status = "DONE"
                                        => scope.stage[g].status = "DONE"
        BY <3>1 DEF Inv, HoldStep, Held, StagesOf
      <3> QED
        BY <3>2, <3>3, <3>4
    <2>3. CASE UNCHANGED vars
      BY <2>3
    <2> QED
      BY <2>2, <2>3
  <1>2. Inv /\ [Next]_vars => Inv'
    BY NextInv
  <1>3. Spec => [][Kept]_vars
    BY <1>1, <1>2, InitInv, PTL DEF Spec
  <1> QED
    BY <1>3 DEF SafeHoldPersists

(* A reduction that changes nothing advances no revision. *)
LEMMA FinalizeUnchanged ==
    ASSUME NEW R, NEW s \in Scopes(R)
    PROVE  FinalizeScope(s, s) = s
  <1>1. \A j \in Jobs : ~JobChanged(s, s, j)
    BY DEF JobChanged
  <1>2. [j \in Jobs |-> IF JobChanged(s, s, j)
                        THEN s.jobRev[j] + 1 ELSE s.jobRev[j]] = s.jobRev
    BY <1>1 DEF Scopes
  <1>3. [d \in PlanDays |-> s.day[d]] = s.day /\ [x \in Directives |-> s.dir[x]] = s.dir
    BY DEF Scopes
  <1> QED
    BY <1>2, <1>3 DEF FinalizeScope, Scopes

(* S7: whatever happened since, a retry under a supported rule version is  *)
(* answered with the first result, emits nothing and changes nothing.      *)
THEOREM RetryAlwaysSilent == Spec => []RetryIsSilent
  <1>1. Inv => RetryIsSilent
    <2> SUFFICES ASSUME Inv, NEW i \in FieldInputs, NEW c \in Contexts,
                        NEW q \in scope.receipts, c.ruleSupported, q.event = i.event
                 PROVE  LET r == Reduce(scope, i, c) IN
                        /\ r.scope = scope /\ r.emitted = <<>>
                        /\ r.outcome = q.outcome /\ r.response = q.response
                        /\ r.reasons = q.reasons /\ r.missing = q.missing
      BY DEF RetryIsSilent
    <2> DEFINE same == {r \in {p \in scope.receipts : p.event.id = i.event.id} :
                          r.event = i.event}
    <2>1. q \in same
      OBVIOUS
    <2>2. \A r \in same : r = q
      BY DEF Inv, LedgerOnce
    <2>3. (CHOOSE r \in same : TRUE) = q
      BY <2>1, <2>2
    <2>4. i.kind = "FIELD_EVENT"
      BY InputAssumption DEF InputAssumption
    <2>5. RawReduction(scope, i, c) = Replay(scope, q)
      BY <2>1, <2>3, <2>4 DEF RawReduction, ReduceFieldEvent
    <2>6. scope \in Scopes(scope.receipts)
      BY DEF Inv, TypeOK, ScopeType
    <2>7. [scope EXCEPT !.receipts = @ \cup {}] = scope
      BY <2>6 DEF Scopes
    <2>8. Replay(scope, q) =
            [scope |-> scope, outcome |-> q.outcome, emitted |-> <<>>,
             response |-> q.response, missing |-> q.missing, reasons |-> q.reasons,
             receipts |-> {}, replayed |-> TRUE]
      BY <2>7 DEF Replay, Reduction, Result
    <2>9. FinalizeScope(scope, scope) = scope
      BY <2>6, FinalizeUnchanged
    <2> QED
      BY <2>5, <2>8, <2>9 DEF Reduce
  <1> QED
    BY <1>1, InitInv, NextInv, PTL DEF Spec

-----------------------------------------------------------------------------
(* The four kinds of step, as the moves of M2ReducerProofs describe them.  *)

GrowStep ==
    /\ scope.jobs \subseteq scope'.jobs /\ scope.days \subseteq scope'.days
    /\ scope'.receipts = scope.receipts /\ scope'.task = scope.task
    /\ scope'.stage = scope.stage /\ scope'.day = scope.day /\ scope'.dir = scope.dir
    /\ emitted' = emitted
    /\ \/ scope'.dirs = scope.dirs
       \/ \E x \in Directives : /\ scope'.dirs = scope.dirs \cup {x}
                                /\ ValidNewDirective(scope, x)

HandledStep(i, r) ==
    /\ Handled(scope, i, r) /\ scope' = r.scope
    /\ scope'.receipts = scope.receipts \cup r.receipts
    /\ \A q \in scope.receipts : q.event.id # i.event.id
    /\ emitted' = emitted \cup Emissions(Key(i), r.emitted)

QuietStep(i, r) ==
    /\ Quiet(scope, i, r) /\ scope' = r.scope
    /\ scope'.receipts = scope.receipts \cup r.receipts
    /\ emitted' = emitted \cup Emissions(Key(i), r.emitted)

SignalStep(g, r) ==
    /\ SignalMove(scope, g, [scope |-> r.scope, effects |-> r.emitted])
    /\ scope' = r.scope /\ scope'.receipts = scope.receipts
    /\ r.emitted \in Seq(EffectType)
    /\ emitted' = emitted \cup Emissions(Key(g), r.emitted)

(* A submitted event is handled, or it is quiet. *)
LEMMA SubmittedMove ==
    ASSUME Inv, StagesFree(scope), NEW i \in FieldInputs, NEW c
    PROVE  Handled(scope, i, Submitted(i, c)) \/ Quiet(scope, i, Submitted(i, c))
  <1> DEFINE r == Reduce(scope, i, c)
             n == NormalizeReduction(i, r)
  <1>1. scope \in Scopes(scope.receipts) /\ \A q \in scope.receipts : ReceiptType(q)
    BY DEF Inv, TypeOK, ScopeType
  <1>2. GoodReduction(scope.receipts, scope, r)
    BY <1>1, ReduceGood
  <1>3. Handled(scope, i, r) \/ Quiet(scope, i, r)
    BY <1>1, ReduceMove DEF Inv
  <1>4. r.scope \in Scopes(scope.receipts \cup r.receipts)
    BY <1>2 DEF GoodReduction
  <1> HIDE DEF r
  <1>5. Handled(scope, i, n) \/ Quiet(scope, i, n)
    BY <1>3, <1>4, NormalizeMove
  <1> HIDE DEF n
  <1> QED
    BY <1>3, <1>5 DEF Submitted, r, n

(* Every step of the service is of one of the four kinds. *)
LEMMA StepKinds ==
    ASSUME Inv, StagesFree(scope), Next
    PROVE  \/ GrowStep
           \/ \E i \in FieldInputs : \E r : HandledStep(i, r) \/ QuietStep(i, r)
           \/ \E g \in Signals : \E r : SignalStep(g, r)
  <1>1. scope \in Scopes(scope.receipts) /\ \A q \in scope.receipts : ReceiptType(q)
    BY DEF Inv, TypeOK, ScopeType
  <1>2. CASE \E d \in PlanDays : CreatePlanDayRoot(d)
    BY <1>1, <1>2 DEF CreatePlanDayRoot, GrowStep, Scopes
  <1>3. CASE \E j \in Jobs : CreateJobExecutionRoot(j)
    BY <1>1, <1>3 DEF CreateJobExecutionRoot, GrowStep, Scopes
  <1>4. CASE \E x \in Directives : CreateDirectiveRoot(x)
    BY <1>1, <1>4 DEF CreateDirectiveRoot, GrowStep, Scopes
  <1>5. ASSUME NEW i \in FieldInputs, NEW c \in Contexts, SubmitEvent(i, c)
        PROVE  \E r : HandledStep(i, r) \/ QuietStep(i, r)
    <2> DEFINE r == Submitted(i, c)
    <2>1. GoodReduction(scope.receipts, scope, r) /\ Appends(scope, i, r)
      BY SubmittedGood
    <2>2. scope' = r.scope /\ emitted' = emitted \cup Emissions(Key(i), r.emitted)
      BY <1>5 DEF SubmitEvent
    <2>3. Handled(scope, i, r) \/ Quiet(scope, i, r)
      BY SubmittedMove
    <2> HIDE DEF r
    <2>4. scope'.receipts = scope.receipts \cup r.receipts
      BY <2>1, <2>2, ScopeParts DEF GoodReduction
    <2>5. Handled(scope, i, r) => HandledStep(i, r)
      BY <2>1, <2>2, <2>4 DEF HandledStep, Handled, Appends
    <2>6. Quiet(scope, i, r) => QuietStep(i, r)
      BY <2>2, <2>4 DEF QuietStep
    <2> QED
      BY <2>3, <2>5, <2>6
  <1>6. ASSUME NEW g \in Signals, NEW c \in Contexts, SubmitSignal(g, c)
        PROVE  \E r : SignalStep(g, r)
    <2> DEFINE r == Reduce(scope, g, c)
    <2>1. GoodReduction(scope.receipts, scope, r)
      BY <1>1, ReduceGood
    <2>2. scope' = r.scope /\ emitted' = emitted \cup Emissions(Key(g), r.emitted)
      BY <1>6 DEF SubmitSignal
    <2>3. r.receipts = {} /\ SignalMove(scope, g, [scope |-> r.scope, effects |-> r.emitted])
      BY <1>1, ReduceSignalMove
    <2> HIDE DEF r
    <2>4. scope'.receipts = scope.receipts /\ r.emitted \in Seq(EffectType)
      BY <2>1, <2>2, <2>3, ScopeParts DEF GoodReduction
    <2>5. SignalStep(g, r)
      BY <2>2, <2>3, <2>4 DEF SignalStep
    <2> QED
      BY <2>5
  <1> QED
    BY <1>2, <1>3, <1>4, <1>5, <1>6 DEF Next

(* The receipt of a handled event. *)
LEMMA HandledReceipt ==
    ASSUME NEW i \in FieldInputs, NEW r, HandledStep(i, r)
    PROVE  \E q : /\ scope'.receipts = scope.receipts \cup {q}
                  /\ q.event = i.event /\ q.outcome = r.outcome
  BY DEF HandledStep, Handled

-----------------------------------------------------------------------------
(* What an applied receipt has passed. *)

Passed(s, r) ==
    LET e == r.event IN
    /\ e.type \in PlanEvents \cup TaskAssignmentEvents =>
          e.day \in PlanDays /\ DayDef[e.day].worker = e.actor
    /\ e.type \in TaskAssignmentEvents =>
          /\ e.task \in Tasks /\ e.job = TaskDef[e.task].job /\ HasTask(s, e.task)
          /\ AsgDef[e.asg].task = e.task /\ e.actor \in AsgDef[e.asg].members
    /\ e.stage # None => e.stage \in Stages /\ StageTask[e.stage] = e.task
    /\ e.type = "WORKER_ACKNOWLEDGED" => e.dir \in s.dirs

AllPassed(s) == \A r \in s.receipts : r.outcome = "APPLIED" => Passed(s, r)

LEMMA ReferencesPassed ==
    ASSUME NEW R, NEW s \in Scopes(R), NEW r, r.event \in FieldEvents,
           ReferenceErrors(s, r.event) = {}
    PROVE  Passed(s, r)
  <1> DEFINE e == r.event
  <1>1. /\ e.day \in PlanDays \cup {None} /\ e.task \in Tasks \cup {None}
        /\ e.asg \in Assignments \cup {None} /\ e.dir \in Directives \cup {None}
        /\ e.stage \in Stages \cup {None}
    BY InputAssumption DEF InputAssumption
  <1>2. /\ e.day # None => HasDay(s, e.day)
        /\ HasDay(s, e.day) => DayDef[e.day].worker = e.actor
        /\ e.task # None => HasTask(s, e.task)
        /\ HasTask(s, e.task) /\ e.job # None => TaskDef[e.task].job = e.job
        /\ e.asg # None => HasAssignment(s, e.asg)
        /\ HasAssignment(s, e.asg) => EventAssignmentErrors(e) = {}
        /\ e.stage # None => HasTask(s, e.task) /\ StageTask[e.stage] = e.task
        /\ e.dir # None => HasDirective(s, e.dir)
        /\ RequiredReferenceErrors(e) = {}
    BY DEF ReferenceErrors, When
  <1>3. /\ e.type \in PlanEvents \cup TaskAssignmentEvents => e.day # None
        /\ e.type \in TaskAssignmentEvents => e.task # None /\ e.asg # None /\ e.job # None
        /\ e.type = "WORKER_ACKNOWLEDGED" => e.dir # None
    BY <1>2 DEF RequiredReferenceErrors, When
  <1>4. e.type \in TaskAssignmentEvents =>
          AsgDef[e.asg].task = e.task /\ e.actor \in AsgDef[e.asg].members
    BY <1>2, <1>3 DEF EventAssignmentErrors, When
  <1> QED
    BY <1>1, <1>2, <1>3, <1>4 DEF Passed, HasDay, HasTask, HasDirective

-----------------------------------------------------------------------------
(* What every later argument starts from. *)

Base == Inv /\ StagesFree(scope) /\ AllPassed(scope)

LEMMA InitBase == Init => Base
  <1> SUFFICES ASSUME Init PROVE Base
    OBVIOUS
  <1>1. scope = EmptyScope
    BY DEF Init
  <1>2. scope.receipts = {} /\ \A g \in Stages : scope.stage[g].status = "OPEN"
    BY <1>1 DEF EmptyScope
  <1> QED
    BY <1>2, InitInv DEF Base, StagesFree, AllPassed

(* Roots and receipts are never withdrawn. *)
Grown ==
    /\ scope.jobs \subseteq scope'.jobs /\ scope.days \subseteq scope'.days
    /\ scope.dirs \subseteq scope'.dirs /\ scope.receipts \subseteq scope'.receipts

LEMMA KindsGrow ==
    /\ GrowStep => Grown
    /\ \A i \in FieldInputs : \A r : HandledStep(i, r) \/ QuietStep(i, r) => Grown
    /\ \A g \in Signals : \A r : SignalStep(g, r) => Grown
  <1>1. GrowStep => Grown
    BY DEF GrowStep, Grown
  <1>2. ASSUME NEW i \in FieldInputs, NEW r, HandledStep(i, r) PROVE Grown
    BY <1>2 DEF HandledStep, Handled, EventMove, RootsKept, Grown
  <1>3. ASSUME NEW i \in FieldInputs, NEW r, QuietStep(i, r) PROVE Grown
    BY <1>3 DEF QuietStep, Quiet, SameButRevs, RootsKept, Grown
  <1>4. ASSUME NEW g \in Signals, NEW r, SignalStep(g, r) PROVE Grown
    <2>1. RootsKept(scope, r.scope)
      BY <1>4 DEF SignalStep, SignalMove
    <2> QED
      BY <1>4, <2>1 DEF SignalStep, RootsKept, Grown
  <1> QED
    BY <1>1, <1>2, <1>3, <1>4

(* A reference that resolved keeps resolving. *)
LEMMA PassedStays ==
    ASSUME Grown, NEW r, Passed(scope, r)
    PROVE  Passed(scope', r)
  BY DEF Grown, Passed, HasTask

LEMMA NextBase == Base /\ [Next]_vars => Base'
  <1> SUFFICES ASSUME Base, [Next]_vars PROVE Base'
    OBVIOUS
  <1>1. Inv'
    BY NextInv DEF Base
  <1>2. CASE UNCHANGED vars
    BY <1>1, <1>2 DEF vars, Base, StagesFree, AllPassed, Passed, HasTask
  <1>3. CASE GrowStep
    <2>1. Grown
      BY <1>3, KindsGrow
    <2>2. AllPassed(scope')
      BY <1>3, <2>1, PassedStays DEF Base, AllPassed, GrowStep
    <2>3. StagesFree(scope')
      BY <1>3 DEF Base, StagesFree, GrowStep
    <2> QED
      BY <1>1, <2>2, <2>3 DEF Base
  <1>4. ASSUME NEW i \in FieldInputs, NEW r, HandledStep(i, r) PROVE Base'
    <2>1. Grown
      BY <1>4, KindsGrow
    <2>2. PICK q : /\ scope'.receipts = scope.receipts \cup {q}
                   /\ q.event = i.event /\ q.outcome = r.outcome
      BY <1>4, HandledReceipt
    <2>3. scope \in Scopes(scope.receipts) /\ q.event \in FieldEvents
      BY <2>2 DEF Base, Inv, TypeOK, ScopeType, FieldEvents
    <2>4. Passed(scope, q)
      BY <1>4, <2>2, <2>3, ReferencesPassed DEF HandledStep, Handled
    <2>5. AllPassed(scope')
      BY <2>1, <2>2, <2>4, PassedStays DEF Base, AllPassed
    <2>6. StagesFree(scope')
      BY <1>4 DEF HandledStep, Handled, EventMove, StagesMove, Base, StagesFree
    <2> QED
      BY <1>1, <2>5, <2>6 DEF Base
  <1>5. ASSUME NEW i \in FieldInputs, NEW r, QuietStep(i, r) PROVE Base'
    <2>1. Grown
      BY <1>5, KindsGrow
    <2>2. AllPassed(scope')
      BY <1>5, <2>1, PassedStays DEF Base, AllPassed, QuietStep, Quiet
    <2>3. StagesFree(scope')
      BY <1>5 DEF Base, StagesFree, QuietStep, Quiet, SameButRevs
    <2> QED
      BY <1>1, <2>2, <2>3 DEF Base
  <1>6. ASSUME NEW g \in Signals, NEW r, SignalStep(g, r) PROVE Base'
    <2>1. Grown
      BY <1>6, KindsGrow
    <2>2. scope'.receipts = scope.receipts /\ scope'.stage = scope.stage
      <3>1. r.scope.stage = scope.stage
        BY <1>6 DEF SignalStep, SignalMove
      <3> QED
        BY <1>6, <3>1 DEF SignalStep
    <2>3. AllPassed(scope') /\ StagesFree(scope')
      BY <2>1, <2>2, PassedStays DEF Base, AllPassed, StagesFree
    <2> QED
      BY <1>1, <2>3 DEF Base
  <1> QED
    BY <1>2, <1>3, <1>4, <1>5, <1>6, StepKinds DEF Base

-----------------------------------------------------------------------------
(* Plan days: behind every closed or unavailable day stands the report of  *)
(* its worker.                                                             *)

DaysReported ==
    \A d \in PlanDays :
        /\ scope.day[d].closeReported => ReportedFor(d, "DAY_CLOSE_REPORTED")
        /\ scope.day[d].status = "DAY_CLOSED" =>
              ~scope.day[d].available /\ scope.day[d].closeReported
        /\ ~scope.day[d].available =>
              \/ scope.day[d].status = "DAY_CLOSED"
              \/ ReportedFor(d, "UNAVAILABLE_TODAY_REPORTED")

LEMMA InitDaysReported == Init => DaysReported
  <1> SUFFICES ASSUME Init, NEW d \in PlanDays
               PROVE  /\ ~scope.day[d].closeReported /\ scope.day[d].available
                      /\ scope.day[d].status # "DAY_CLOSED"
    BY DEF DaysReported
  <1>1. scope.day[d] = InitialDay(d)
    BY DEF Init, EmptyScope
  <1> QED
    BY <1>1, DefinitionAssumption DEF InitialDay, DefinitionAssumption

(* A report stays in the ledger. *)
LEMMA ReportStays ==
    ASSUME Grown, NEW d, NEW type, ReportedFor(d, type)
    PROVE  ReportedFor(d, type)'
  BY DEF Grown, ReportedFor

(* Days that did not change. *)
LEMMA DaysStay ==
    ASSUME DaysReported, Grown,
           \A d \in PlanDays : /\ scope'.day[d].status = scope.day[d].status
                               /\ scope'.day[d].available = scope.day[d].available
                               /\ scope'.day[d].closeReported = scope.day[d].closeReported
    PROVE  DaysReported'
  BY ReportStays DEF DaysReported

LEMMA NextDaysReported == Base /\ DaysReported /\ [Next]_vars => DaysReported'
  <1> SUFFICES ASSUME Base, DaysReported, [Next]_vars PROVE DaysReported'
    OBVIOUS
  <1>0. Base'
    BY NextBase
  <1>1. CASE UNCHANGED vars
    BY <1>1, DaysStay DEF vars, Grown
  <1>2. CASE GrowStep
    BY <1>2, KindsGrow, DaysStay DEF GrowStep
  <1>3. ASSUME NEW i \in FieldInputs, NEW r, HandledStep(i, r) PROVE DaysReported'
    <2>1. Grown
      BY <1>3, KindsGrow
    <2>2. PICK q : /\ scope'.receipts = scope.receipts \cup {q}
                   /\ q.event = i.event /\ q.outcome = r.outcome
      BY <1>3, HandledReceipt
    <2>3. DaysMove(scope, i.event, r) /\ scope' = r.scope
      BY <1>3 DEF HandledStep, Handled, EventMove
    <2>4. q.outcome = "APPLIED" => Passed(scope', q)
      BY <1>0, <2>2 DEF Base, AllPassed
    <2> SUFFICES ASSUME NEW d \in PlanDays
                 PROVE  /\ scope'.day[d].closeReported => ReportedFor(d, "DAY_CLOSE_REPORTED")'
                        /\ scope'.day[d].status = "DAY_CLOSED" =>
                              ~scope'.day[d].available /\ scope'.day[d].closeReported
                        /\ ~scope'.day[d].available =>
                              \/ scope'.day[d].status = "DAY_CLOSED"
                              \/ ReportedFor(d, "UNAVAILABLE_TODAY_REPORTED")'
      BY DEF DaysReported
    <2> DEFINE v == scope.day[d]
               w == scope'.day[d]
    <2>5. /\ v.closeReported => ReportedFor(d, "DAY_CLOSE_REPORTED")
          /\ v.status = "DAY_CLOSED" => ~v.available /\ v.closeReported
          /\ ~v.available => v.status = "DAY_CLOSED"
                                \/ ReportedFor(d, "UNAVAILABLE_TODAY_REPORTED")
          /\ v.available \in BOOLEAN /\ w.available \in BOOLEAN
          /\ v.closeReported \in BOOLEAN /\ w.closeReported \in BOOLEAN
      BY <1>0 DEF DaysReported, Base, Inv, TypeOK, ScopeType, Scopes, DayState
    <2>6. /\ w.status = "DAY_CLOSED" <=> v.status = "DAY_CLOSED"
          /\ \/ w.available = v.available
             \/ /\ i.event.type = "UNAVAILABLE_TODAY_REPORTED" /\ r.outcome = "APPLIED"
                /\ i.event.day = d /\ ~w.available
          /\ \/ w.closeReported = v.closeReported
             \/ /\ i.event.type = "DAY_CLOSE_REPORTED" /\ r.outcome = "APPLIED"
                /\ i.event.day = d /\ w.closeReported
      BY <2>3 DEF DaysMove
    <2>7. ASSUME NEW type \in PlanEvents, i.event.type = type, r.outcome = "APPLIED",
                 i.event.day = d
          PROVE  ReportedFor(d, type)'
      BY <2>2, <2>4, <2>7 DEF Passed, ReportedFor
    <2>8. w.closeReported => ReportedFor(d, "DAY_CLOSE_REPORTED")'
      BY <2>1, <2>5, <2>6, <2>7, ReportStays DEF PlanEvents
    <2>9. w.status = "DAY_CLOSED" => ~w.available /\ w.closeReported
      BY <2>5, <2>6
    <2>10. ~w.available => \/ w.status = "DAY_CLOSED"
                           \/ ReportedFor(d, "UNAVAILABLE_TODAY_REPORTED")'
      BY <2>1, <2>5, <2>6, <2>7, ReportStays DEF PlanEvents
    <2> QED
      BY <2>8, <2>9, <2>10
  <1>4. ASSUME NEW i \in FieldInputs, NEW r, QuietStep(i, r) PROVE DaysReported'
    BY <1>4, KindsGrow, DaysStay DEF QuietStep, Quiet, SameButRevs
  <1>5. ASSUME NEW g \in Signals, NEW r, SignalStep(g, r) PROVE DaysReported'
    <2>1. Grown
      BY <1>5, KindsGrow
    <2>2. \A d \in PlanDays :
             /\ scope'.day[d].closeReported = scope.day[d].closeReported
             /\ \/ /\ scope'.day[d].status = scope.day[d].status
                   /\ scope'.day[d].available = scope.day[d].available
                \/ /\ scope'.day[d].status = "DAY_CLOSED" /\ ~scope'.day[d].available
                   /\ scope.day[d].closeReported
      BY <1>5 DEF SignalStep, SignalMove
    <2> QED
      BY <2>1, <2>2, ReportStays DEF DaysReported
  <1> QED
    BY <1>1, <1>2, <1>3, <1>4, <1>5, StepKinds DEF Base

(* S1, S4, S6, S22: nobody but the worker of a day makes it unavailable,   *)
(* and the system closes a day only after its worker reported it closed,   *)
(* in every order of events, retries and end-of-day signals.               *)
THEOREM AvailabilityAlwaysByGesture == Spec => []AvailabilityByGesture
  <1>1. DaysReported => AvailabilityByGesture
    BY DEF DaysReported, AvailabilityByGesture
  <1> QED
    BY <1>1, InitBase, NextBase, InitDaysReported, NextDaysReported, PTL DEF Spec

-----------------------------------------------------------------------------
(* Directives: what a step can do to the answers they have got. *)

(* Every answer stays, and at most one directive is issued. *)
AnswersKept ==
    /\ \A x \in Directives : /\ scope'.dir[x].delivery = scope.dir[x].delivery
                             /\ scope'.dir[x].acked = scope.dir[x].acked
                             /\ scope.dir[x].stopInForce => scope'.dir[x].stopInForce
    /\ \A d \in PlanDays : scope'.day[d].confirmed = scope.day[d].confirmed
    /\ \A r \in scope'.receipts : \/ r \in scope.receipts
                                  \/ r.outcome # "APPLIED"
                                  \/ r.event.type # "WORKER_ACKNOWLEDGED"
    /\ \/ scope'.dirs = scope.dirs
       \/ \E x \in Directives : /\ scope'.dirs = scope.dirs \cup {x}
                                /\ ValidNewDirective(scope, x)

(* The receipt q acknowledges the directive x. *)
AckStep(q, x) ==
    /\ scope'.receipts = scope.receipts \cup {q}
    /\ \A r \in scope.receipts : r.event.id # q.event.id
    /\ x \in scope.dirs /\ AckInforms(q, x) /\ ~DirectiveWorkerInformed(scope, x)
    /\ scope'.dirs = scope.dirs
    /\ \A y \in Directives :
          /\ scope.dir[y].stopInForce => scope'.dir[y].stopInForce
          /\ y = x => scope'.dir[y].delivery = "ACKED" /\ scope'.dir[y].acked = q.event.id
          /\ y # x => /\ scope'.dir[y].delivery = scope.dir[y].delivery
                      /\ scope'.dir[y].acked = scope.dir[y].acked
    /\ \A d \in PlanDays :
          scope'.day[d].confirmed =
             IF DirDef[x].day = d /\ ConfirmsPlan(scope, x)
             THEN DirDef[x].proposed ELSE scope.day[d].confirmed

(* An acknowledgement that passed the reference checks informs. *)
LEMMA CheckedAckInforms ==
    ASSUME NEW s, NEW r, r.event \in FieldEvents, ReferenceErrors(s, r.event) = {},
           r.outcome = "APPLIED", r.event.type = "WORKER_ACKNOWLEDGED"
    PROVE  r.event.dir \in s.dirs /\ AckInforms(r, r.event.dir)
  <1> DEFINE e == r.event
  <1>1. /\ e.dir # None => HasDirective(s, e.dir)
        /\ HasDirective(s, e.dir) => EventDirectiveErrors(s, e) = {}
        /\ RequiredReferenceErrors(e) = {}
    BY DEF ReferenceErrors, When
  <1>2. e.dir # None
    BY <1>1 DEF RequiredReferenceErrors, When
  <1>3. EventDirectiveErrors(s, e) = {}
    BY <1>1, <1>2
  <1>4. /\ DirDef[e.dir].worker = e.actor
        /\ e.job # None => DirDef[e.dir].job = e.job
        /\ e.task # None => DirDef[e.dir].task = e.task
        /\ e.asg # None => DirDef[e.dir].asg = e.asg
        /\ e.day # None => DirDef[e.dir].day = e.day
    BY <1>3 DEF EventDirectiveErrors, When
  <1> QED
    BY <1>1, <1>2, <1>4 DEF AckInforms, HasDirective

LEMMA AnswerKinds ==
    ASSUME Base, [Next]_vars
    PROVE  Grown /\ (AnswersKept \/ \E x \in Directives : \E q : AckStep(q, x))
  <1>1. CASE UNCHANGED vars
    BY <1>1 DEF vars, AnswersKept, Grown
  <1>2. CASE GrowStep
    BY <1>2, KindsGrow DEF GrowStep, AnswersKept
  <1>3. ASSUME NEW i \in FieldInputs, NEW r, HandledStep(i, r)
        PROVE  Grown /\ (AnswersKept \/ \E x \in Directives : \E q : AckStep(q, x))
    <2>1. Grown
      BY <1>3, KindsGrow
    <2>2. PICK q : /\ scope'.receipts = scope.receipts \cup {q}
                   /\ q.event = i.event /\ q.outcome = r.outcome
      BY <1>3, HandledReceipt
    <2>3. /\ DirectivesMove(scope, i.event, r) /\ scope' = r.scope
          /\ scope'.dirs = scope.dirs /\ ReferenceErrors(scope, i.event) = {}
          /\ \A p \in scope.receipts : p.event.id # i.event.id
      BY <1>3 DEF HandledStep, Handled, EventMove, RootsKept
    <2>4. CASE Acks(i.event, r)
      <3>1. q.event \in FieldEvents /\ q.outcome = "APPLIED"
                /\ q.event.type = "WORKER_ACKNOWLEDGED"
        BY <2>2, <2>4 DEF FieldEvents, Acks
      <3>2. q.event.dir \in scope.dirs /\ AckInforms(q, q.event.dir)
        BY <2>2, <2>3, <3>1, CheckedAckInforms
      <3>3. q.event.dir \in Directives
        BY <3>2 DEF Base, Inv, TypeOK, ScopeType, Scopes
      <3>4. AckStep(q, q.event.dir)
        BY <2>2, <2>3, <2>4, <3>2, <3>3 DEF AckStep, DirectivesMove
      <3> QED
        BY <2>1, <3>3, <3>4
    <2>5. CASE ~Acks(i.event, r)
      <3>1. AnswersKept
        BY <2>2, <2>3, <2>5 DEF AnswersKept, DirectivesMove, Acks
      <3> QED
        BY <2>1, <3>1
    <2> QED
      BY <2>4, <2>5
  <1>4. ASSUME NEW i \in FieldInputs, NEW r, QuietStep(i, r)
        PROVE  Grown /\ AnswersKept
    BY <1>4, KindsGrow DEF QuietStep, Quiet, SameButRevs, RootsKept, AnswersKept
  <1>5. ASSUME NEW g \in Signals, NEW r, SignalStep(g, r)
        PROVE  Grown /\ AnswersKept
    <2>1. /\ RootsKept(scope, scope')
          /\ \A d \in PlanDays : scope'.day[d].confirmed = scope.day[d].confirmed
          /\ \A x \in Directives : /\ scope'.dir[x].delivery = scope.dir[x].delivery
                                   /\ scope'.dir[x].acked = scope.dir[x].acked
                                   /\ scope.dir[x].stopInForce => scope'.dir[x].stopInForce
      BY <1>5 DEF SignalStep, SignalMove
    <2> QED
      BY <1>5, <2>1, KindsGrow DEF SignalStep, RootsKept, AnswersKept
  <1> QED
    BY <1>1, <1>2, <1>3, <1>4, <1>5, StepKinds DEF Base

(* A directive that is consistent stays so when roots are added: all that  *)
(* it names is there already, and its execution context is of its own job. *)
LEMMA ScopeErrorsStay ==
    ASSUME NEW s, NEW n, NEW x \in Directives, DirectiveScopeErrors(s, x) = {},
           s.jobs \subseteq n.jobs, s.days \subseteq n.days, n.days \subseteq PlanDays
    PROVE  DirectiveScopeErrors(n, x) = {}
  <1> DEFINE d == DirDef[x]
             needs(m) == /\ ~HasAssignment(m, d.asg)
                         /\ HasTask(m, d.task) \/ (d.job # None /\ d.day # None)
  <1>1. None \notin Tasks /\ None \notin Assignments /\ None \notin PlanDays
    BY DefinitionAssumption DEF DefinitionAssumption
  <1>2. /\ d.job # None => d.job \in s.jobs
        /\ d.worker \in Workers
        /\ d.task # None => HasTask(s, d.task)
        /\ HasTask(s, d.task) /\ d.job # None => TaskDef[d.task].job = d.job
        /\ d.asg # None => HasAssignment(s, d.asg)
        /\ HasAssignment(s, d.asg) => AssignmentScopeErrors(x) = {}
        /\ d.day # None => HasDay(s, d.day)
        /\ HasDay(s, d.day) => DayScopeErrors(s, x) = {}
        /\ needs(s) => ContextMatches(s, x) # {} /\ ~(Cardinality(ContextMatches(s, x)) > 1)
    BY DEF DirectiveScopeErrors, When
  <1>3. /\ HasTask(n, d.task) <=> HasTask(s, d.task)
        /\ HasAssignment(n, d.asg) <=> HasAssignment(s, d.asg)
        /\ HasDay(n, d.day) <=> HasDay(s, d.day)
    BY <1>1, <1>2 DEF HasTask, HasAssignment, HasDay
  <1>4. DayScopeErrors(n, x) = DayScopeErrors(s, x)
    BY <1>3 DEF DayScopeErrors
  <1>5. needs(n) => needs(s) /\ ContextMatches(n, x) = ContextMatches(s, x)
    <2> SUFFICES ASSUME needs(n)
                 PROVE  needs(s) /\ ContextMatches(n, x) = ContextMatches(s, x)
      OBVIOUS
    <2>1. needs(s)
      BY <1>3
    <2> DEFINE j == IF HasTask(s, d.task) THEN TaskDef[d.task].job ELSE d.job
    <2>2. j \in s.jobs /\ j \in n.jobs
      BY <1>2, <2>1 DEF HasTask
    <2>3. \A a \in Assignments : AsgDef[a].job = j => HasAssignment(s, a) /\ HasAssignment(n, a)
      BY <2>2 DEF HasAssignment
    <2> HIDE DEF j
    <2>4. ContextMatches(s, x) = {a \in Assignments :
              /\ AsgDef[a].job = j /\ (HasTask(s, d.task) => AsgDef[a].task = d.task)
              /\ d.worker \in AsgDef[a].members /\ (d.day = None \/ d.day \in AsgDef[a].days)}
      BY <2>3 DEF ContextMatches, j
    <2>5. ContextMatches(n, x) = {a \in Assignments :
              /\ AsgDef[a].job = j /\ (HasTask(s, d.task) => AsgDef[a].task = d.task)
              /\ d.worker \in AsgDef[a].members /\ (d.day = None \/ d.day \in AsgDef[a].days)}
      BY <1>3, <2>3 DEF ContextMatches, j
    <2> QED
      BY <2>1, <2>4, <2>5
  <1>6. /\ d.job # None => d.job \in n.jobs
        /\ d.task # None => HasTask(n, d.task)
        /\ HasTask(n, d.task) /\ d.job # None => TaskDef[d.task].job = d.job
        /\ d.asg # None => HasAssignment(n, d.asg)
        /\ HasAssignment(n, d.asg) => AssignmentScopeErrors(x) = {}
        /\ d.day # None => HasDay(n, d.day)
        /\ HasDay(n, d.day) => DayScopeErrors(n, x) = {}
        /\ needs(n) => ContextMatches(n, x) # {} /\ ~(Cardinality(ContextMatches(n, x)) > 1)
    BY <1>2, <1>3, <1>4, <1>5
  <1> QED
    BY <1>2, <1>6 DEF DirectiveScopeErrors, When

(* Every issued directive is consistent and has its number for itself. *)
Issued ==
    /\ \A x \in scope.dirs : DirectiveScopeErrors(scope, x) = {}
    /\ \A x, y \in scope.dirs :
          StreamKey(x) = StreamKey(y) /\ DirDef[x].seq = DirDef[y].seq => x = y

(* A directive is acknowledged exactly when the ledger holds the           *)
(* acknowledgement it names, and the ledger holds no other.                *)
Answered ==
    /\ \A r \in scope.receipts :
          r.outcome = "APPLIED" /\ r.event.type = "WORKER_ACKNOWLEDGED" =>
             /\ scope.dir[r.event.dir].delivery = "ACKED"
             /\ scope.dir[r.event.dir].acked = r.event.id
    /\ \A x \in Directives : scope.dir[x].delivery = "ACKED" =>
          x \in scope.dirs /\ \E r \in scope.receipts : /\ r.event.id = scope.dir[x].acked
                                                        /\ AckInforms(r, x)

(* An acknowledged proposal is confirmed, unless a later directive governs. *)
Proposes(x) == /\ DirDef[x].class = "ACTION" /\ DirDef[x].day # None
               /\ DirDef[x].proposed # None

Confirmed ==
    \A x \in Directives : Proposes(x) /\ scope.dir[x].delivery = "ACKED" =>
        \/ LaterGoverningDirectiveExists(scope, x)
        \/ scope.day[DirDef[x].day].confirmed = DirDef[x].proposed

Answers == Issued /\ Answered /\ Confirmed

LEMMA InitAnswers == Init => Answers
  <1> SUFFICES ASSUME Init PROVE Answers
    OBVIOUS
  <1>1. scope.dirs = {} /\ scope.receipts = {}
    BY DEF Init, EmptyScope
  <1>2. \A x \in Directives : scope.dir[x].delivery = "QUEUED"
    BY DEF Init, EmptyScope, InitialDirective
  <1> QED
    BY <1>1, <1>2 DEF Answers, Issued, Answered, Confirmed

(* So delivery evidence alone tells whether the worker is informed. *)
LEMMA InformedIsAcked ==
    ASSUME Base, Issued, Answered, NEW x \in Directives
    PROVE  DirectiveWorkerInformed(scope, x) <=> scope.dir[x].delivery = "ACKED"
  <1>1. \A r \in scope.receipts : r.event.id # None
    BY InputAssumption DEF InputAssumption, Base, Inv, TypeOK, ScopeType, ReceiptType, EventIds
  <1> QED
    BY <1>1 DEF Issued, Answered, DirectiveWorkerInformed, HasDirective

LEMMA NextIssued ==
    ASSUME Base, Base', Issued, Grown, AnswersKept \/ scope'.dirs = scope.dirs
    PROVE  Issued'
  <1>1. /\ scope.dirs \subseteq Directives /\ scope'.dirs \subseteq Directives
        /\ scope'.days \subseteq PlanDays
    BY DEF Base, Inv, TypeOK, ScopeType, Scopes
  <1>2. ASSUME NEW x \in Directives, DirectiveScopeErrors(scope, x) = {}
        PROVE  DirectiveScopeErrors(scope', x) = {}
    BY <1>1, <1>2, ScopeErrorsStay DEF Grown
  <1>3. CASE scope'.dirs = scope.dirs
    BY <1>1, <1>2, <1>3 DEF Issued
  <1>4. ASSUME NEW x \in Directives, scope'.dirs = scope.dirs \cup {x},
               ValidNewDirective(scope, x)
        PROVE  Issued'
    <2>1. DirectiveScopeErrors(scope', x) = {}
      BY <1>2, <1>4 DEF ValidNewDirective
    <2>2. \A y \in scope.dirs : StreamKey(y) = StreamKey(x) => DirDef[y].seq # DirDef[x].seq
      BY <1>4 DEF ValidNewDirective
    <2> QED
      BY <1>1, <1>2, <1>4, <2>1, <2>2 DEF Issued
  <1> QED
    BY <1>3, <1>4 DEF AnswersKept

LEMMA NextAnswered ==
    ASSUME Base, Issued, Answered, Grown,
           AnswersKept \/ \E x \in Directives : \E q : AckStep(q, x)
    PROVE  Answered'
  <1>1. ASSUME NEW r \in scope.receipts, r.outcome = "APPLIED",
               r.event.type = "WORKER_ACKNOWLEDGED"
        PROVE  r.event.dir \in Directives
    <2>1. r.event.dir \in scope.dirs
      BY <1>1 DEF Base, AllPassed, Passed
    <2> QED
      BY <2>1 DEF Base, Inv, TypeOK, ScopeType, Scopes
  <1>2. CASE AnswersKept
    <2>1. ASSUME NEW r \in scope'.receipts, r.outcome = "APPLIED",
                 r.event.type = "WORKER_ACKNOWLEDGED"
          PROVE  /\ scope'.dir[r.event.dir].delivery = "ACKED"
                 /\ scope'.dir[r.event.dir].acked = r.event.id
      BY <1>1, <1>2, <2>1 DEF AnswersKept, Answered
    <2>2. ASSUME NEW x \in Directives, scope'.dir[x].delivery = "ACKED"
          PROVE  x \in scope'.dirs /\ \E r \in scope'.receipts :
                                         r.event.id = scope'.dir[x].acked /\ AckInforms(r, x)
      BY <1>2, <2>2 DEF AnswersKept, Answered, Grown
    <2> QED
      BY <2>1, <2>2 DEF Answered
  <1>3. ASSUME NEW x \in Directives, NEW q, AckStep(q, x)
        PROVE  Answered'
    <2>1. scope.dir[x].delivery # "ACKED"
      BY <1>3, InformedIsAcked DEF AckStep
    <2>2. /\ q \in scope'.receipts /\ q.event.dir = x
          /\ scope'.dir[x].delivery = "ACKED" /\ scope'.dir[x].acked = q.event.id
          /\ x \in scope'.dirs /\ AckInforms(q, x)
      BY <1>3 DEF AckStep, AckInforms
    <2>3. ASSUME NEW r \in scope'.receipts, r.outcome = "APPLIED",
                 r.event.type = "WORKER_ACKNOWLEDGED"
          PROVE  /\ scope'.dir[r.event.dir].delivery = "ACKED"
                 /\ scope'.dir[r.event.dir].acked = r.event.id
      <3>1. CASE r = q
        BY <2>2, <3>1
      <3>2. CASE r \in scope.receipts
        <4>1. scope.dir[r.event.dir].delivery = "ACKED" /\ scope.dir[r.event.dir].acked = r.event.id
          BY <2>3, <3>2 DEF Answered
        <4>2. r.event.dir # x /\ r.event.dir \in Directives
          BY <1>1, <2>1, <2>3, <3>2, <4>1
        <4> QED
          BY <1>3, <4>1, <4>2 DEF AckStep
      <3> QED
        BY <1>3, <3>1, <3>2 DEF AckStep
    <2>4. ASSUME NEW y \in Directives, scope'.dir[y].delivery = "ACKED"
          PROVE  y \in scope'.dirs /\ \E r \in scope'.receipts :
                                         r.event.id = scope'.dir[y].acked /\ AckInforms(r, y)
      <3>1. CASE y = x
        BY <2>2, <3>1
      <3>2. CASE y # x
        <4>1. scope.dir[y].delivery = "ACKED" /\ scope'.dir[y].acked = scope.dir[y].acked
          BY <1>3, <2>4, <3>2 DEF AckStep
        <4> QED
          BY <4>1 DEF Answered, Grown
      <3> QED
        BY <3>1, <3>2
    <2> QED
      BY <2>3, <2>4 DEF Answered
  <1> QED
    BY <1>2, <1>3

(* What governs goes on governing: an acknowledgement, a STOP in force and *)
(* a consistent scope are never lost.                                      *)
LEMMA GovernorStays ==
    ASSUME Base, Base', Issued, Answered, Issued', Answered', Grown, NEW x \in Directives,
           AnswersKept \/ \E z \in Directives : \E q : AckStep(q, z),
           LaterGoverningDirectiveExists(scope, x)
    PROVE  LaterGoverningDirectiveExists(scope', x)
  <1>1. PICK y \in scope.dirs : Governs(scope, y, x)
    BY DEF LaterGoverningDirectiveExists
  <1>2. y \in Directives /\ y \in scope'.dirs
    BY DEF Grown, Base, Inv, TypeOK, ScopeType, Scopes
  <1>3. /\ scope.dir[y].delivery = "ACKED" => scope'.dir[y].delivery = "ACKED"
        /\ scope.dir[y].stopInForce => scope'.dir[y].stopInForce
    BY <1>2 DEF AnswersKept, AckStep
  <1>4. DirectiveWorkerInformed(scope, y) => DirectiveWorkerInformed(scope', y)
    <2>1. DirectiveWorkerInformed(scope, y) => scope.dir[y].delivery = "ACKED"
      BY DEF DirectiveWorkerInformed
    <2>2. DirectiveWorkerInformed(scope', y) <=> scope'.dir[y].delivery = "ACKED"
      <3>1. \A r \in scope'.receipts : r.event.id # None
        BY InputAssumption DEF InputAssumption, Base, Inv, TypeOK, ScopeType, ReceiptType, EventIds
      <3> QED
        BY <1>2, <3>1 DEF Issued, Answered, DirectiveWorkerInformed, HasDirective
    <2> QED
      BY <1>3, <2>1, <2>2
  <1>5. DirectiveScopeErrors(scope', y) = {}
    BY <1>2 DEF Issued
  <1>6. Governs(scope', y, x)
    BY <1>1, <1>3, <1>4, <1>5 DEF Governs
  <1> QED
    BY <1>2, <1>6 DEF LaterGoverningDirectiveExists

(* Two directives of one plan day are in one stream. *)
LEMMA SameDaySameStream ==
    ASSUME Issued, NEW x \in scope.dirs, NEW y \in scope.dirs,
           DirDef[x].day # None, DirDef[y].day = DirDef[x].day
    PROVE  StreamKey(x) = StreamKey(y)
  <1>1. ASSUME NEW z \in scope.dirs, DirDef[z].day # None
        PROVE  DirDef[z].worker = DayDef[DirDef[z].day].worker
    <2>1. /\ HasDay(scope, DirDef[z].day)
          /\ HasDay(scope, DirDef[z].day) => DayScopeErrors(scope, z) = {}
      BY <1>1 DEF Issued, DirectiveScopeErrors, When
    <2> QED
      BY <2>1 DEF DayScopeErrors, When
  <1>2. DirDef[x].worker = DirDef[y].worker
    BY <1>1
  <1> QED
    BY <1>2 DEF StreamKey

LEMMA NextConfirmed ==
    ASSUME Base, Base', Answers, Issued', Answered', Grown,
           AnswersKept \/ \E x \in Directives : \E q : AckStep(q, x)
    PROVE  Confirmed'
  <1> SUFFICES ASSUME NEW y \in Directives, Proposes(y), scope'.dir[y].delivery = "ACKED",
                      ~LaterGoverningDirectiveExists(scope', y)
               PROVE  scope'.day[DirDef[y].day].confirmed = DirDef[y].proposed
    BY DEF Confirmed, Proposes
  <1>1. ~LaterGoverningDirectiveExists(scope, y)
    BY GovernorStays DEF Answers
  <1>2. DirDef[y].day \in PlanDays /\ DirDef[y].day # None
    BY DefinitionAssumption DEF DefinitionAssumption, Proposes
  <1>3. CASE AnswersKept
    BY <1>1, <1>2, <1>3 DEF AnswersKept, Answers, Confirmed
  <1>4. ASSUME NEW x \in Directives, NEW q, AckStep(q, x)
        PROVE  scope'.day[DirDef[y].day].confirmed = DirDef[y].proposed
    <2>1. x \in scope.dirs /\ scope'.dirs = scope.dirs
      BY <1>4 DEF AckStep
    <2>2. CASE y = x
      <3>1. HasDay(scope, DirDef[x].day)
        BY <1>2, <2>1, <2>2 DEF Answers, Issued, DirectiveScopeErrors, When
      <3>2. ConfirmsPlan(scope, x)
        BY <1>1, <2>2, <3>1 DEF ConfirmsPlan, Proposes
      <3> QED
        BY <1>2, <1>4, <2>2, <3>2 DEF AckStep
    <2>3. CASE y # x
      <3>1. scope.dir[y].delivery = "ACKED"
        BY <1>4, <2>3 DEF AckStep
      <3>2. y \in scope.dirs /\ scope.day[DirDef[y].day].confirmed = DirDef[y].proposed
        BY <1>1, <3>1 DEF Answers, Answered, Confirmed
      <3>3. CASE ~(DirDef[x].day = DirDef[y].day /\ ConfirmsPlan(scope, x))
        BY <1>2, <1>4, <3>2, <3>3 DEF AckStep
      <3>4. CASE DirDef[x].day = DirDef[y].day /\ ConfirmsPlan(scope, x)
        <4>1. StreamKey(x) = StreamKey(y)
          BY <1>2, <2>1, <3>2, <3>4, SameDaySameStream DEF Answers
        <4>2. DirDef[x].seq \in Nat /\ DirDef[y].seq \in Nat /\ DirDef[x].seq # DirDef[y].seq
          BY <2>1, <2>3, <3>2, <4>1, DefinitionAssumption DEF DefinitionAssumption, Answers, Issued
        <4>3. ~(DirDef[y].seq > DirDef[x].seq)
          <5>1. DirectiveWorkerInformed(scope, y)
            BY <3>1, InformedIsAcked DEF Answers
          <5>2. DirectiveScopeErrors(scope, y) = {}
            BY <3>2 DEF Answers, Issued
          <5>3. ~Governs(scope, y, x)
            BY <3>2, <3>4 DEF ConfirmsPlan, LaterGoverningDirectiveExists
          <5> QED
            BY <4>1, <5>1, <5>2, <5>3 DEF Governs, Proposes
        <4>4. ~(DirDef[x].seq > DirDef[y].seq)
          <5>1. DirectiveWorkerInformed(scope', x)
            <6>1. \A r \in scope'.receipts : r.event.id # None
              BY InputAssumption
                 DEF InputAssumption, Base, Inv, TypeOK, ScopeType, ReceiptType, EventIds
            <6>2. scope'.dir[x].delivery = "ACKED"
              BY <1>4 DEF AckStep
            <6> QED
              BY <6>1, <6>2 DEF Issued, Answered, DirectiveWorkerInformed, HasDirective
          <5>2. DirectiveScopeErrors(scope', x) = {}
            BY <2>1 DEF Issued
          <5>3. ~Governs(scope', x, y)
            BY <2>1 DEF LaterGoverningDirectiveExists
          <5> QED
            BY <3>4, <4>1, <5>1, <5>2, <5>3 DEF Governs, ConfirmsPlan
        <4> QED
          BY <4>2, <4>3, <4>4
      <3> QED
        BY <3>3, <3>4
    <2> QED
      BY <2>2, <2>3
  <1> QED
    BY <1>3, <1>4

LEMMA NextAnswers == Base /\ Answers /\ [Next]_vars => Answers'
  <1> SUFFICES ASSUME Base, Answers, [Next]_vars PROVE Answers'
    OBVIOUS
  <1>1. Base'
    BY NextBase
  <1>2. Grown /\ (AnswersKept \/ \E x \in Directives : \E q : AckStep(q, x))
    BY AnswerKinds
  <1>3. Issued'
    <2>1. AnswersKept \/ scope'.dirs = scope.dirs
      BY <1>2 DEF AckStep
    <2> QED
      BY <1>1, <1>2, <2>1, NextIssued DEF Answers
  <1>4. Answered'
    BY <1>2, NextAnswered DEF Answers
  <1>5. Confirmed'
    BY <1>1, <1>2, <1>3, <1>4, NextConfirmed
  <1> QED
    BY <1>3, <1>4, <1>5 DEF Answers

(* Escalations: once, and remembered on the directive. *)
Escalated ==
    \A x \in Directives :
        /\ \A f, h \in EscalationsOf(x) : f = h
        /\ EscalationsOf(x) # {} => scope.dir[x].escalated

LEMMA InitEscalated == Init => Escalated
  BY DEF Init, Escalated, EscalationsOf

(* The outbox rows of a field event are no escalations. *)
LEMMA EventsNeverEscalate ==
    ASSUME NEW i \in FieldInputs, NEW effects, NEW x,
           emitted' = emitted \cup Emissions(Key(i), effects)
    PROVE  EscalationsOf(x)' = EscalationsOf(x)
  <1>1. \A g \in Signals : Key(g) # Key(i)
    BY InputAssumption DEF InputAssumption, Key, IsEvent
  <1>2. \A f \in Emissions(Key(i), effects) : f.source = Key(i)
    BY DEF Emissions
  <1> HIDE DEF Emissions
  <1> QED
    BY <1>1, <1>2 DEF EscalationsOf

LEMMA NextEscalated == Base /\ Escalated /\ [Next]_vars => Escalated'
  <1> SUFFICES ASSUME Base, Escalated, [Next]_vars PROVE Escalated'
    OBVIOUS
  <1>1. CASE UNCHANGED vars
    BY <1>1 DEF vars, Escalated, EscalationsOf
  <1>2. CASE GrowStep
    BY <1>2 DEF GrowStep, Escalated, EscalationsOf
  <1>3. ASSUME NEW i \in FieldInputs, NEW r, HandledStep(i, r) PROVE Escalated'
    <2>1. \A x \in Directives : scope'.dir[x].escalated = scope.dir[x].escalated
      BY <1>3 DEF HandledStep, Handled, EventMove, DirectivesMove
    <2>2. \A x \in Directives : EscalationsOf(x)' = EscalationsOf(x)
      BY <1>3, EventsNeverEscalate DEF HandledStep
    <2> QED
      BY <2>1, <2>2 DEF Escalated
  <1>4. ASSUME NEW i \in FieldInputs, NEW r, QuietStep(i, r) PROVE Escalated'
    <2>1. \A x \in Directives : scope'.dir[x].escalated = scope.dir[x].escalated
      BY <1>4 DEF QuietStep, Quiet, SameButRevs
    <2>2. \A x \in Directives : EscalationsOf(x)' = EscalationsOf(x)
      BY <1>4, EventsNeverEscalate DEF QuietStep
    <2> QED
      BY <2>1, <2>2 DEF Escalated
  <1>5. ASSUME NEW g \in Signals, NEW r, SignalStep(g, r) PROVE Escalated'
    <2> DEFINE new == Emissions(Key(g), r.emitted)
    <2>1. emitted' = emitted \cup new /\ r.emitted \in Seq(EffectType)
      BY <1>5 DEF SignalStep
    <2>2. /\ \A x \in Directives : scope.dir[x].escalated => scope'.dir[x].escalated
          /\ \/ \A k \in 1..Len(r.emitted) : r.emitted[k] \notin Escalations
             \/ /\ Len(r.emitted) = 1 /\ g.dir \in Directives
                /\ ~scope.dir[g.dir].escalated /\ scope'.dir[g.dir].escalated
      BY <1>5 DEF SignalStep, SignalMove
    <2>3. \A h \in Signals : Key(h) = Key(g) => h.dir = g.dir
      BY InputAssumption DEF InputAssumption, Key, IsEvent
    <2>4. \A f \in new : /\ f.source = Key(g) /\ f.ordinal \in 1..Len(r.emitted)
                         /\ f = [source |-> Key(g), ordinal |-> f.ordinal,
                                 type |-> r.emitted[f.ordinal]]
      BY DEF Emissions
    <2> HIDE DEF new
    <2>5. CASE \A k \in 1..Len(r.emitted) : r.emitted[k] \notin Escalations
      <3>1. \A f \in new : f.type \notin Escalations
        BY <2>4, <2>5
      <3>2. \A x \in Directives : EscalationsOf(x)' = EscalationsOf(x)
        BY <2>1, <3>1 DEF EscalationsOf, Escalations
      <3> QED
        BY <2>2, <3>2 DEF Escalated
    <2>6. CASE /\ Len(r.emitted) = 1 /\ g.dir \in Directives
               /\ ~scope.dir[g.dir].escalated /\ scope'.dir[g.dir].escalated
      <3>1. \A f, h \in new : f = h
        BY <2>4, <2>6
      <3> SUFFICES ASSUME NEW x \in Directives
                   PROVE  /\ \A f, h \in EscalationsOf(x)' : f = h
                          /\ EscalationsOf(x)' # {} => scope'.dir[x].escalated
        BY DEF Escalated
      <3>2. CASE x = g.dir
        <4>1. EscalationsOf(x) = {}
          BY <2>6, <3>2 DEF Escalated
        <4>2. EscalationsOf(x)' \subseteq new
          BY <2>1, <4>1 DEF EscalationsOf
        <4> QED
          BY <2>6, <3>1, <3>2, <4>2
      <3>3. CASE x # g.dir
        <4>1. EscalationsOf(x)' = EscalationsOf(x)
          BY <2>1, <2>3, <2>4, <3>3 DEF EscalationsOf
        <4> QED
          BY <2>2, <4>1 DEF Escalated
      <3> QED
        BY <3>2, <3>3
    <2> QED
      BY <2>2, <2>5, <2>6
  <1> QED
    BY <1>1, <1>2, <1>3, <1>4, <1>5, StepKinds DEF Base

LEMMA AtMostOne ==
    ASSUME NEW S, \A f, h \in S : f = h
    PROVE  Cardinality(S) <= 1
  <1>1. CASE S = {}
    BY <1>1, FS_EmptySet
  <1>2. CASE S # {}
    <2>1. PICK f \in S : TRUE
      BY <1>2
    <2>2. S = {f}
      BY <2>1
    <2>3. Cardinality({f}) = 1
      BY FS_Singleton
    <2> QED
      BY <2>2, <2>3
  <1> QED
    BY <1>1, <1>2

(* S15, S27 and Table 2: delivery evidence ACKED stands for exactly one    *)
(* applied acknowledgement of the addressed worker, a late one does not    *)
(* roll the confirmed plan back behind a newer answer, and a directive is  *)
(* escalated at most once.                                                 *)
THEOREM DirectiveAlwaysAnsweredOnce == Spec => []DirectiveAnsweredOnce
  <1>1. Base /\ Answers => InformedByOneAck
    <2> SUFFICES ASSUME Base, Answers, NEW x \in Directives
                 PROVE  /\ Cardinality(AppliedAcks(x)) <= 1
                        /\ scope.dir[x].delivery = "ACKED" <=> AppliedAcks(x) # {}
                        /\ scope.dir[x].delivery = "ACKED" => DirectiveWorkerInformed(scope, x)
      BY DEF InformedByOneAck
    <2>1. \A q, r \in AppliedAcks(x) : q = r
      BY DEF AppliedAcks, Base, Inv, LedgerOnce, Answers, Answered
    <2>2. scope.dir[x].delivery = "ACKED" <=> AppliedAcks(x) # {}
      BY DEF AppliedAcks, Answers, Answered, AckInforms
    <2> QED
      BY <2>1, <2>2, AtMostOne, InformedIsAcked DEF Answers
  <1>2. Base /\ Answers => LateAckNeverRollsBack
    <2> SUFFICES ASSUME Base, Answers, NEW x \in scope.dirs, NEW y \in scope.dirs,
                        DirDef[x].day # None, StreamKey(y) = StreamKey(x),
                        scope.day[DirDef[x].day].confirmed = DirDef[x].proposed,
                        DirDef[y].class = "ACTION",
                        DirDef[y].proposed \notin {None, DirDef[x].proposed},
                        DirectiveWorkerInformed(scope, y)
                 PROVE  LaterGoverningDirectiveExists(scope, y)
      BY DEF LateAckNeverRollsBack
    <2>1. DirDef[y].day = DirDef[x].day
      BY DEF StreamKey
    <2>2. y \in Directives /\ Proposes(y) /\ scope.dir[y].delivery = "ACKED"
      BY <2>1 DEF Base, Inv, TypeOK, ScopeType, Scopes, Proposes, DirectiveWorkerInformed
    <2> QED
      BY <2>1, <2>2 DEF Answers, Confirmed
  <1>3. Escalated => EscalatedOnce
    BY AtMostOne DEF Escalated, EscalatedOnce
  <1>4. Base /\ Answers /\ Escalated => DirectiveAnsweredOnce
    BY <1>1, <1>2, <1>3 DEF DirectiveAnsweredOnce
  <1> QED
    BY <1>4, InitBase, NextBase, InitAnswers, NextAnswers, InitEscalated, NextEscalated, PTL
       DEF Spec

-----------------------------------------------------------------------------
(* Work: what a step can do to tasks, stages and their evidence. *)

WorkKept ==
    /\ scope'.task = scope.task /\ scope'.stage = scope.stage
    /\ \A r \in scope'.receipts : r \in scope.receipts \/ r.outcome # "APPLIED"

(* The event of the receipt q was handled, and the work moved. *)
WorkStep(q, r) ==
    /\ scope'.receipts = scope.receipts \cup {q}
    /\ q.event \in FieldEvents /\ q.outcome = r.outcome /\ scope' = r.scope
    /\ ReferenceErrors(scope, q.event) = {} /\ Passed(scope, q)
    /\ TasksMove(scope, q.event, r) /\ StagesMove(scope, q.event, r)
    /\ Verdict(scope, q.event, r)

LEMMA WorkKinds ==
    ASSUME Base, [Next]_vars
    PROVE  Grown /\ (WorkKept \/ \E q, r : WorkStep(q, r))
  <1>1. CASE UNCHANGED vars
    BY <1>1 DEF vars, WorkKept, Grown
  <1>2. CASE GrowStep
    BY <1>2, KindsGrow DEF GrowStep, WorkKept
  <1>3. ASSUME NEW i \in FieldInputs, NEW r, HandledStep(i, r)
        PROVE  Grown /\ \E q : WorkStep(q, r)
    <2>1. PICK q : /\ scope'.receipts = scope.receipts \cup {q}
                   /\ q.event = i.event /\ q.outcome = r.outcome
      BY <1>3, HandledReceipt
    <2>2. /\ ReferenceErrors(scope, q.event) = {} /\ scope' = r.scope
          /\ TasksMove(scope, q.event, r) /\ StagesMove(scope, q.event, r)
          /\ Verdict(scope, q.event, r)
      BY <1>3, <2>1 DEF HandledStep, Handled, EventMove
    <2>3. q.event \in FieldEvents /\ scope \in Scopes(scope.receipts)
      BY <2>1 DEF FieldEvents, Base, Inv, TypeOK, ScopeType
    <2>4. Passed(scope, q)
      BY <2>2, <2>3, ReferencesPassed
    <2>5. WorkStep(q, r)
      BY <2>1, <2>2, <2>3, <2>4 DEF WorkStep
    <2> QED
      BY <1>3, <2>5, KindsGrow
  <1>4. ASSUME NEW i \in FieldInputs, NEW r, QuietStep(i, r)
        PROVE  Grown /\ WorkKept
    BY <1>4, KindsGrow DEF QuietStep, Quiet, SameButRevs, WorkKept
  <1>5. ASSUME NEW g \in Signals, NEW r, SignalStep(g, r)
        PROVE  Grown /\ WorkKept
    <2>1. r.scope.task = scope.task /\ r.scope.stage = scope.stage
      BY <1>5 DEF SignalStep, SignalMove
    <2> QED
      BY <1>5, <2>1, KindsGrow DEF SignalStep, WorkKept
  <1> QED
    BY <1>1, <1>2, <1>3, <1>4, <1>5, StepKinds DEF Base

(* A blocked task stays blocked. *)
LEMMA BlockStays ==
    ASSUME Base, [Next]_vars, NEW t \in Tasks, scope.task[t].blocked
    PROVE  scope'.task[t].blocked
  <1>1. CASE UNCHANGED vars
    BY <1>1 DEF vars
  <1>2. CASE Next
    <2>1. HoldStep(scope, scope') \/ scope'.task = scope.task
      BY <1>2, CreateGood, SubmitGood DEF Next, Base
    <2> QED
      BY <2>1 DEF Base, Inv, HoldStep
  <1> QED
    BY <1>1, <1>2

-----------------------------------------------------------------------------
(* Evidence has one content and one owner, a task that is known. *)

EvidenceOwned ==
    /\ EvidenceImmutable
    /\ \A t \in Tasks : scope.task[t].evidence # {} => HasTask(scope, t)

(* The identity of an attachment is new, or it is the same item of the     *)
(* same task.                                                              *)
LEMMA AttachmentsFit ==
    ASSUME Base, EvidenceOwned, NEW e, EvidenceErrors(scope, e) = {},
           NEW v \in e.attachments, NEW u \in Tasks, NEW w \in scope.task[u].evidence,
           w.id = v.id
    PROVE  w = v /\ u = e.task
  <1> DEFINE h == [item |-> w, job |-> TaskDef[u].job, task |-> u, asg |-> None]
  <1>1. HasTask(scope, u)
    BY DEF EvidenceOwned
  <1>2. h \in EvidenceHistory(scope)
    BY <1>1 DEF EvidenceHistory
  <1>3. h.item = w /\ h.task = u
    OBVIOUS
  <1> HIDE DEF h
  <1>4. /\ ~\E a \in e.attachments, k \in EvidenceHistory(scope) : k.item.id = a.id /\ k.item # a
        /\ ~\E a \in e.attachments, k \in EvidenceHistory(scope) :
              k.item.id = a.id /\ k.task # e.task
    BY DEF EvidenceErrors, When
  <1> QED
    BY <1>2, <1>3, <1>4

(* Merging then drops nothing. *)
LEMMA MergeIsUnion ==
    ASSUME Base, EvidenceOwned, NEW e, EvidenceErrors(scope, e) = {}, NEW t \in Tasks
    PROVE  MergeEvidence(scope.task[t].evidence, e.attachments)
              = scope.task[t].evidence \cup e.attachments
  BY AttachmentsFit DEF MergeEvidence

LEMMA InitEvidenceOwned == Init => EvidenceOwned
  <1> SUFFICES ASSUME Init PROVE EvidenceOwned
    OBVIOUS
  <1>1. \A t \in Tasks : scope.task[t].evidence = {}
    BY DEF Init, EmptyScope, InitialTask
  <1> QED
    BY <1>1 DEF EvidenceOwned, EvidenceImmutable

LEMMA NextEvidenceOwned == Base /\ EvidenceOwned /\ [Next]_vars => EvidenceOwned'
  <1> SUFFICES ASSUME Base, EvidenceOwned, [Next]_vars PROVE EvidenceOwned'
    OBVIOUS
  <1>1. Grown /\ (WorkKept \/ \E q, r : WorkStep(q, r))
    BY WorkKinds
  <1>2. CASE WorkKept
    BY <1>1, <1>2 DEF WorkKept, Grown, EvidenceOwned, EvidenceImmutable, HasTask
  <1>3. ASSUME NEW q, NEW r, WorkStep(q, r) PROVE EvidenceOwned'
    <2> DEFINE e == q.event
    <2>1. e \in FieldEvents /\ EvidenceErrors(scope, e) = {}
      BY <1>3 DEF WorkStep, ReferenceErrors
    <2>2. e.task \in Tasks => HasTask(scope, e.task)
      <3>1. e.task # None => HasTask(scope, e.task)
        BY <1>3 DEF WorkStep, ReferenceErrors, When
      <3> QED
        BY <3>1, DefinitionAssumption DEF DefinitionAssumption
    <2>3. \A v, w \in e.attachments : v.id = w.id => v = w
      BY <2>1, InputAssumption DEF InputAssumption
    <2>4. \A t \in Tasks : \/ scope'.task[t].evidence = scope.task[t].evidence
                           \/ /\ t = e.task
                              /\ scope'.task[t].evidence = scope.task[t].evidence \cup e.attachments
      <3>1. \A t \in Tasks : \/ scope'.task[t].evidence = scope.task[t].evidence
                             \/ /\ t = e.task
                                /\ scope'.task[t].evidence
                                      = MergeEvidence(scope.task[t].evidence, e.attachments)
        BY <1>3 DEF WorkStep, TasksMove
      <3> QED
        BY <2>1, <3>1, MergeIsUnion
    <2> HIDE DEF e
    <2>5. \A t \in Tasks : scope'.task[t].evidence # {} => HasTask(scope', t)
      <3>1. \A t \in Tasks : HasTask(scope, t) => HasTask(scope', t)
        BY <1>1 DEF Grown, HasTask
      <3> QED
        BY <2>2, <2>4, <3>1 DEF EvidenceOwned
    <2>6. EvidenceImmutable'
      <3> SUFFICES ASSUME NEW t \in Tasks, NEW u \in Tasks, NEW v \in scope'.task[t].evidence,
                          NEW w \in scope'.task[u].evidence, v.id = w.id
                   PROVE  v = w /\ t = u
        BY DEF EvidenceImmutable
      <3>1. \/ v \in scope.task[t].evidence
            \/ t = e.task /\ v \in e.attachments
        BY <2>4
      <3>2. \/ w \in scope.task[u].evidence
            \/ u = e.task /\ w \in e.attachments
        BY <2>4
      <3>3. CASE v \in scope.task[t].evidence /\ w \in scope.task[u].evidence
        BY <3>3 DEF EvidenceOwned, EvidenceImmutable
      <3>4. CASE v \in scope.task[t].evidence /\ u = e.task /\ w \in e.attachments
        BY <2>1, <3>4, AttachmentsFit
      <3>5. CASE t = e.task /\ v \in e.attachments /\ w \in scope.task[u].evidence
        BY <2>1, <3>5, AttachmentsFit
      <3>6. CASE t = e.task /\ v \in e.attachments /\ u = e.task /\ w \in e.attachments
        BY <2>3, <3>6
      <3> QED
        BY <3>1, <3>2, <3>3, <3>4, <3>5, <3>6
    <2> QED
      BY <2>5, <2>6 DEF EvidenceOwned
  <1> QED
    BY <1>1, <1>2, <1>3

-----------------------------------------------------------------------------
(* A disputed completion stays halted. *)

Disputes(r) == r.event.type = "COMPLETION_DISPUTED" /\ r.outcome = "APPLIED"

HaltedBy(s, e) ==
    IF e.stage = None THEN s.task[e.task].status \in Halted
    ELSE s.stage[e.stage].status = "DISPUTED" \/ s.task[e.task].blocked

DisputesHalt == \A r \in scope.receipts : Disputes(r) => HaltedBy(scope, r.event)

LEMMA InitDisputesHalt == Init => DisputesHalt
  BY DEF Init, EmptyScope, DisputesHalt

LEMMA NextDisputesHalt == Base /\ DisputesHalt /\ [Next]_vars => DisputesHalt'
  <1> SUFFICES ASSUME Base, DisputesHalt, [Next]_vars PROVE DisputesHalt'
    OBVIOUS
  <1>1. WorkKept \/ \E q, r : WorkStep(q, r)
    BY WorkKinds
  <1>2. CASE WorkKept
    BY <1>2 DEF WorkKept, DisputesHalt, Disputes, HaltedBy
  <1>3. ASSUME NEW q, NEW r, WorkStep(q, r) PROVE DisputesHalt'
    <2> SUFFICES ASSUME NEW p \in scope'.receipts, Disputes(p)
                 PROVE  HaltedBy(scope', p.event)
      BY DEF DisputesHalt
    <2>1. CASE p = q
      BY <1>3, <2>1 DEF WorkStep, Verdict, Disputes, HaltedBy
    <2>2. CASE p \in scope.receipts
      <3>1. HaltedBy(scope, p.event) /\ Passed(scope, p)
        BY <2>2 DEF DisputesHalt, Base, AllPassed, Disputes
      <3>2. /\ p.event.task \in Tasks
            /\ p.event.stage # None => p.event.stage \in Stages
        BY <3>1 DEF Passed, TaskAssignmentEvents, Disputes
      <3>3. CASE p.event.stage = None
        <4>1. scope.task[p.event.task].status \in Halted
          BY <3>1, <3>3 DEF HaltedBy
        <4>2. \/ scope'.task[p.event.task].status \in Halted \cup {scope.task[p.event.task].status}
              \/ p.event.task = q.event.task /\ ~TaskNotCompletable(scope, q.event)
          BY <1>3, <3>2 DEF WorkStep, TasksMove, Earned
        <4>3. scope'.task[p.event.task].status \in Halted
          BY <4>1, <4>2 DEF TaskNotCompletable, Halted
        <4> QED
          BY <3>3, <4>3 DEF HaltedBy
      <3>4. CASE p.event.stage # None /\ scope.task[p.event.task].blocked
        BY <3>2, <3>4, BlockStays DEF HaltedBy
      <3>5. CASE p.event.stage # None /\ scope.stage[p.event.stage].status = "DISPUTED"
        <4>1. \/ scope'.stage[p.event.stage] = scope.stage[p.event.stage]
              \/ scope'.stage[p.event.stage].status = "DISPUTED"
              \/ /\ p.event.stage = q.event.stage /\ IsStageCompletion(q.event)
                 /\ ~StageNotCompletable(scope, q.event)
          BY <1>3, <3>2, <3>5 DEF WorkStep, StagesMove, Earned
        <4>2. scope'.stage[p.event.stage].status = "DISPUTED"
          BY <3>5, <4>1 DEF StageNotCompletable
        <4> QED
          BY <3>5, <4>2 DEF HaltedBy
      <3> QED
        BY <3>1, <3>3, <3>4, <3>5 DEF HaltedBy
    <2> QED
      BY <1>3, <2>1, <2>2 DEF WorkStep
  <1> QED
    BY <1>1, <1>2, <1>3

-----------------------------------------------------------------------------
(* Behind every DONE stands a completion that was allowed. *)

(* The authority that an earned completion had. *)
LEMMA EarnedIsAllowed ==
    ASSUME NEW s, NEW q, NEW r, Passed(s, q), Earned(s, q.event, r)
    PROVE  /\ q.event.task \in Tasks
           /\ MayComplete(q.event.actor, q.event.asg, q.event.task)
           /\ TaskDef[q.event.task].postconditions \subseteq q.event.satisfied
           /\ TaskDef[q.event.task].evidenceKinds \subseteq
                 {v.kind : v \in s.task[q.event.task].evidence \cup q.event.attachments}
  <1> DEFINE e == q.event
  <1>1. /\ e.task \in Tasks /\ AsgDef[e.asg].task = e.task
        /\ e.actor \in AsgDef[e.asg].members
    BY DEF Passed, Earned, TaskAssignmentEvents
  <1>2. /\ AsgDef[e.asg].kind = TaskDef[e.task].kind
        /\ AsgDef[e.asg].kind = "CREW" => AsgDef[e.asg].lead = e.actor
    BY DEF Earned, CompletionAuthorityErrors, When
  <1>3. /\ TaskDef[e.task].postconditions \subseteq e.satisfied
        /\ TaskDef[e.task].evidenceKinds \subseteq
              {v.kind : v \in s.task[e.task].evidence \cup e.attachments}
    <2>1. MissingCompletionRequirements(s, e) = {}
      BY DEF Earned
    <2>2. /\ {p \in TaskDef[e.task].postconditions : p \notin e.satisfied} = {}
          /\ {k \in TaskDef[e.task].evidenceKinds :
                k \notin {v.kind : v \in s.task[e.task].evidence \cup e.attachments}} = {}
      BY <2>1 DEF MissingCompletionRequirements
    <2> QED
      BY <2>2
  <1> QED
    BY <1>1, <1>2, <1>3 DEF MayComplete

(* The receipt r backs the completion of the task t, or of the stage g. *)
BacksTask(r, t) ==
    /\ r.outcome = "APPLIED"
    /\ r.event.task = t /\ ExpectedType[r.event.type] = TaskDef[t].completion
    /\ MayComplete(r.event.actor, r.event.asg, t)
    /\ TaskDef[t].postconditions \subseteq r.event.satisfied

BacksStage(r, g) ==
    /\ r.outcome = "APPLIED"
    /\ r.event.stage = g /\ r.event.type = "STAGE_COMPLETION_REPORTED"
    /\ MayComplete(r.event.actor, r.event.asg, StageTask[g])

KindsMet(s, t) == TaskDef[t].evidenceKinds \subseteq {v.kind : v \in s.task[t].evidence}

DoneBacked ==
    /\ \A t \in Tasks : scope.task[t].status = "DONE" =>
          /\ KindsMet(scope, t)
          /\ \E r \in scope.receipts : r.event.id = scope.task[t].completion /\ BacksTask(r, t)
    /\ \A g \in Stages : scope.stage[g].status = "DONE" =>
          \E r \in scope.receipts : r.event.id = scope.stage[g].completion /\ BacksStage(r, g)

LEMMA InitDoneBacked == Init => DoneBacked
  <1> SUFFICES ASSUME Init PROVE DoneBacked
    OBVIOUS
  <1>1. /\ \A t \in Tasks : scope.task[t].status = "OPEN"
        /\ \A g \in Stages : scope.stage[g].status = "OPEN"
    BY DEF Init, EmptyScope, InitialTask
  <1> QED
    BY <1>1 DEF DoneBacked

LEMMA NextDoneBacked == Base /\ EvidenceOwned /\ DoneBacked /\ [Next]_vars => DoneBacked'
  <1> SUFFICES ASSUME Base, EvidenceOwned, DoneBacked, [Next]_vars PROVE DoneBacked'
    OBVIOUS
  <1>1. Grown /\ (WorkKept \/ \E q, r : WorkStep(q, r))
    BY WorkKinds
  <1>2. CASE WorkKept
    BY <1>1, <1>2 DEF WorkKept, Grown, DoneBacked, KindsMet
  <1>3. ASSUME NEW q, NEW r, WorkStep(q, r) PROVE DoneBacked'
    <2> DEFINE e == q.event
    <2>1. q \in scope'.receipts /\ Passed(scope, q) /\ q.outcome = r.outcome
      BY <1>3 DEF WorkStep
    <2>2. EvidenceErrors(scope, e) = {}
      BY <1>3 DEF WorkStep, ReferenceErrors
    <2>3. ASSUME NEW t \in Tasks, scope'.task[t].status = "DONE"
          PROVE  /\ KindsMet(scope', t)
                 /\ \E p \in scope'.receipts : /\ p.event.id = scope'.task[t].completion
                                               /\ BacksTask(p, t)
      <3> DEFINE v == scope.task[t]
                 w == scope'.task[t]
      <3>1. /\ \/ w.evidence = v.evidence
               \/ w.evidence = MergeEvidence(v.evidence, e.attachments)
            /\ \/ w.completion = v.completion /\ w.status \in Halted \cup {v.status}
               \/ /\ t = e.task /\ Earned(scope, e, r) /\ ~IsStageCompletion(e)
                  /\ w.completion = e.id
                  /\ w.evidence = MergeEvidence(v.evidence, e.attachments)
        BY <1>3 DEF WorkStep, TasksMove
      <3>2. CASE w.completion = v.completion /\ w.status \in Halted \cup {v.status}
        <4>1. v.status = "DONE"
          BY <2>3, <3>2 DEF Halted
        <4>2. /\ KindsMet(scope, t)
              /\ \E p \in scope.receipts : p.event.id = v.completion /\ BacksTask(p, t)
          BY <4>1 DEF DoneBacked
        <4>3. v.evidence \subseteq w.evidence
          BY <3>1 DEF MergeEvidence
        <4>4. KindsMet(scope', t)
          BY <4>2, <4>3 DEF KindsMet
        <4> QED
          BY <1>1, <3>2, <4>2, <4>4 DEF Grown
      <3>3. CASE /\ t = e.task /\ Earned(scope, e, r) /\ ~IsStageCompletion(e)
                 /\ w.completion = e.id
                 /\ w.evidence = MergeEvidence(v.evidence, e.attachments)
        <4>1. w.evidence = v.evidence \cup e.attachments
          BY <2>2, <3>3, MergeIsUnion
        <4>2. /\ MayComplete(e.actor, e.asg, t)
              /\ TaskDef[t].postconditions \subseteq e.satisfied
              /\ TaskDef[t].evidenceKinds \subseteq {a.kind : a \in v.evidence \cup e.attachments}
          BY <2>1, <3>3, EarnedIsAllowed
        <4>3. KindsMet(scope', t)
          BY <4>1, <4>2 DEF KindsMet
        <4>4. BacksTask(q, t)
          BY <2>1, <3>3, <4>2 DEF BacksTask, Earned
        <4> QED
          BY <2>1, <3>3, <4>3, <4>4
      <3> QED
        BY <3>1, <3>2, <3>3
    <2>4. ASSUME NEW g \in Stages, scope'.stage[g].status = "DONE"
          PROVE  \E p \in scope'.receipts : /\ p.event.id = scope'.stage[g].completion
                                            /\ BacksStage(p, g)
      <3>1. \/ scope'.stage[g] = scope.stage[g]
            \/ /\ g = e.stage /\ Earned(scope, e, r) /\ IsStageCompletion(e)
               /\ scope'.stage[g].completion = e.id
        BY <1>3, <2>4 DEF WorkStep, StagesMove
      <3>2. CASE scope'.stage[g] = scope.stage[g]
        BY <1>1, <2>4, <3>2 DEF DoneBacked, Grown
      <3>3. CASE /\ g = e.stage /\ Earned(scope, e, r) /\ IsStageCompletion(e)
                 /\ scope'.stage[g].completion = e.id
        <4>1. MayComplete(e.actor, e.asg, e.task)
          BY <2>1, <3>3, EarnedIsAllowed
        <4>2. e.task = StageTask[g]
          BY <2>1, <3>3, DefinitionAssumption DEF DefinitionAssumption, Passed
        <4>3. BacksStage(q, g)
          BY <2>1, <3>3, <4>1, <4>2 DEF BacksStage, Earned, IsStageCompletion
        <4> QED
          BY <2>1, <3>3, <4>3
      <3> QED
        BY <3>1, <3>2, <3>3
    <2> QED
      BY <2>3, <2>4 DEF DoneBacked
  <1> QED
    BY <1>1, <1>2, <1>3

-----------------------------------------------------------------------------
(* An unsafe report keeps what it is about from being DONE. *)

LEMMA InitUnsafeNeverDone == Init => UnsafeNeverDone
  BY DEF Init, EmptyScope, UnsafeNeverDone

(* A completion that an unsafe report is about is not earned. *)
LEMMA UnsafeBars ==
    ASSUME Base, NEW p \in scope.receipts, Unsafe(p),
           NEW q, NEW r, Passed(scope, q), Earned(scope, q.event, r),
           q.event.task = p.event.task
    PROVE  q.event.stage \notin {None, p.event.stage}
  <1>1. Passed(scope, p)
    BY DEF Base, AllPassed, Unsafe
  <1>2. p.event.job = q.event.job
    BY <1>1 DEF Passed, Unsafe, Earned, TaskAssignmentEvents
  <1>3. ~UnsafeReportFor(p, q.event)
    BY DEF Earned, CompletionGates, HasUnresolvedUnsafeReport, When
  <1> QED
    BY <1>2, <1>3 DEF UnsafeReportFor, Unsafe

LEMMA NextUnsafeNeverDone == Base /\ UnsafeNeverDone /\ [Next]_vars => UnsafeNeverDone'
  <1> SUFFICES ASSUME Base, UnsafeNeverDone, [Next]_vars PROVE UnsafeNeverDone'
    OBVIOUS
  <1>1. Grown /\ (WorkKept \/ \E q, r : WorkStep(q, r))
    BY WorkKinds
  <1>2. CASE WorkKept
    BY <1>1, <1>2 DEF WorkKept, Grown, UnsafeNeverDone, Unsafe, Held
  <1>3. ASSUME NEW q, NEW r, WorkStep(q, r) PROVE UnsafeNeverDone'
    <2>1. q \in scope'.receipts /\ Passed(scope, q) /\ scope' = r.scope
      BY <1>3 DEF WorkStep
    <2> SUFFICES ASSUME NEW p \in scope'.receipts, Unsafe(p)
                 PROVE  /\ p.event.stage # None /\ scope'.stage[p.event.stage].status = "DONE"
                              => scope'.task[p.event.task].blocked
                        /\ scope'.task[p.event.task].status = "DONE" =>
                              \E c \in scope'.receipts :
                                 /\ c.event.id = scope'.task[p.event.task].completion
                                 /\ c.event.stage \notin {None, p.event.stage}
      BY DEF UnsafeNeverDone, Held
    <2>2. CASE p = q
      BY <1>3, <2>2 DEF WorkStep, Verdict, Unsafe
    <2>3. CASE p \in scope.receipts
      <3> DEFINE t == p.event.task
                 g == p.event.stage
      <3>1. /\ t \in Tasks /\ (g # None => g \in Stages /\ StageTask[g] = t)
        BY <2>3 DEF Base, AllPassed, Passed, Unsafe, TaskAssignmentEvents
      <3>2. /\ g # None /\ scope.stage[g].status = "DONE" => scope.task[t].blocked
            /\ scope.task[t].status = "DONE" =>
                  \E c \in scope.receipts : /\ c.event.id = scope.task[t].completion
                                            /\ c.event.stage \notin {None, g}
        BY <2>3 DEF UnsafeNeverDone, Held
      <3>3. ASSUME g # None, scope'.stage[g].status = "DONE"
            PROVE  scope'.task[t].blocked
        <4>1. \/ scope'.stage[g] = scope.stage[g]
              \/ g = q.event.stage /\ Earned(scope, q.event, r)
          BY <1>3, <3>1, <3>3 DEF WorkStep, StagesMove
        <4>2. ~(g = q.event.stage /\ Earned(scope, q.event, r))
          <5>1. g = q.event.stage => q.event.task = t
            BY <2>1, <3>1, <3>3 DEF Passed
          <5> QED
            BY <2>1, <2>3, <5>1, UnsafeBars
        <4> QED
          BY <3>1, <3>2, <3>3, <4>1, <4>2, BlockStays
      <3>4. ASSUME scope'.task[t].status = "DONE"
            PROVE  \E c \in scope'.receipts : /\ c.event.id = scope'.task[t].completion
                                              /\ c.event.stage \notin {None, g}
        <4>1. \/ /\ scope'.task[t].completion = scope.task[t].completion
                 /\ scope'.task[t].status \in Halted \cup {scope.task[t].status}
              \/ /\ t = q.event.task /\ Earned(scope, q.event, r)
                 /\ scope'.task[t].completion = q.event.id
          BY <1>3, <3>1 DEF WorkStep, TasksMove
        <4>2. CASE /\ scope'.task[t].completion = scope.task[t].completion
                   /\ scope'.task[t].status \in Halted \cup {scope.task[t].status}
          <5>1. scope.task[t].status = "DONE"
            BY <3>4, <4>2 DEF Halted
          <5> QED
            BY <1>1, <3>2, <4>2, <5>1 DEF Grown
        <4>3. CASE /\ t = q.event.task /\ Earned(scope, q.event, r)
                   /\ scope'.task[t].completion = q.event.id
          BY <2>1, <2>3, <4>3, UnsafeBars
        <4> QED
          BY <4>1, <4>2, <4>3
      <3> QED
        BY <3>3, <3>4
    <2> QED
      BY <1>3, <2>2, <2>3 DEF WorkStep
  <1> QED
    BY <1>1, <1>2, <1>3

(* S9 to S12, S30 and conflict rules 3 and 5: whatever the order of        *)
(* completions, disputes, unsafe reports and photographs, DONE is backed   *)
(* by a completion that was allowed, no dispute or unsafe report speaks    *)
(* against it, and the evidence it stands on is still what was delivered.  *)
THEOREM DoneAlwaysEarned == Spec => []DoneIsEarned
  <1> DEFINE Work == EvidenceOwned /\ DisputesHalt /\ DoneBacked /\ UnsafeNeverDone
  <1>1. Init => Base /\ Work
    BY InitBase, InitEvidenceOwned, InitDisputesHalt, InitDoneBacked, InitUnsafeNeverDone
  <1>2. Base /\ Work /\ [Next]_vars => Base' /\ Work'
    BY NextBase, NextEvidenceOwned, NextDisputesHalt, NextDoneBacked, NextUnsafeNeverDone
  <1>3. DisputesHalt => DisputeFailsClosed
    BY DEF DisputesHalt, Disputes, HaltedBy, Halted, DisputeFailsClosed, Held
  <1>4. DoneBacked => CompletionBacked
    BY DEF DoneBacked, BacksTask, BacksStage, KindsMet, CompletionBacked
  <1>5. Work => DoneIsEarned
    BY <1>3, <1>4 DEF DoneIsEarned, EvidenceOwned
  <1> HIDE DEF Work
  <1> QED
    BY <1>1, <1>2, <1>5, PTL DEF Spec

=============================================================================
