--------------------------- MODULE ReplanGateProofs ---------------------------
(***************************************************************************)
(* Theorems about M7's gate on replanning proposals, for every set of      *)
(* worlds, every number of requests and every interleaving of their        *)
(* transactions with direct edits and failures.                            *)
(***************************************************************************)
EXTENDS ReplanGate, FiniteSetTheorems, SequenceTheorems, TLAPS

ProposalStatus == {"PENDING_OWNER_APPROVAL", "APPLIED", "REJECTED", "STALE"}

GateRows ==
    [status : {"PENDING", "RESUMING", "RESOLVED", "INVALIDATED"},
     interrupt : Nat \cup {None}, action : Actions \cup {None}]

(* What every proposal of the planner has: a revision for each placement   *)
(* it moves, and a new start and end for it.                               *)
ProposalOK(q) ==
    /\ DOMAIN q.calRev = q.moved
    /\ \A a \in q.moved : q.after[a] = [start |-> q.after[a].start, end |-> q.after[a].end]

(* What a turn holds in memory, given the saved proposals and the gates. *)
TurnOK(t, ps, gs) ==
    /\ t.at = "save" => ProposalOK(t.proposal)
    /\ t.at \in {"gate", "interrupted"} =>
          t \in [at : {"gate", "interrupted"}, proposal : ps, interrupt : Nat]
    /\ t.at = "interrupted" => t.proposal \in gs
    /\ t.at \in {"resumed", "apply"} =>
          t \in [at : {"resumed", "apply"}, proposal : gs, action : Actions]

TypeOK ==
    /\ calls \in Nat
    /\ proposals \in [DOMAIN proposals -> ProposalStatus]
    /\ gates \in [DOMAIN gates -> GateRows]
    /\ DOMAIN gates \subseteq DOMAIN proposals
    /\ trace \in [DOMAIN trace -> Nat]
    /\ DOMAIN pc = Processes /\ pc = [ p \in Processes |-> pc[p] ]

(* A proposal without a gate is open: only the answer to a gate settles it.*)
Ungated == \A q \in DOMAIN proposals \ DOMAIN gates : proposals[q] = "PENDING_OWNER_APPROVAL"

Agrees ==
    \A q \in DOMAIN gates :
        /\ gates[q].status \in {"PENDING", "RESUMING"} <=> proposals[q] = "PENDING_OWNER_APPROVAL"
        /\ gates[q].status = "INVALIDATED" <=> proposals[q] = "STALE"
        /\ gates[q].status = "RESOLVED" => [proposal |-> q, action |-> gates[q].action] \in decisions

(* A decision is the answer of a resolved gate. *)
DecisionsOfGates ==
    \A d \in decisions :
        /\ d.proposal \in DOMAIN gates /\ gates[d.proposal].status = "RESOLVED"
        /\ d = [proposal |-> d.proposal, action |-> gates[d.proposal].action]

Traced == OutcomeTracedOnce /\ \A row \in DOMAIN trace : row.proposal \in DOMAIN proposals

Applied == { q \in DOMAIN proposals : proposals[q] = "APPLIED" }

(* The approvals that moved a placement away from one of its revisions. *)
By(qs, a, r) == { q \in qs : a \in q.moved /\ q.calRev[a] = r }

History ==
    \A a \in DOMAIN cal :
        /\ cal[a].rev \in Nat
        /\ \A q \in Applied : a \in q.moved => q.calRev[a] \in 0 .. cal[a].rev - 1
        /\ \A r \in 0 .. cal[a].rev - 1 : \E q \in Applied : By(Applied, a, r) = {q}
        /\ cal[a].rev > 0 =>
              \A q \in By(Applied, a, cal[a].rev - 1) :
                  q.after[a] = [start |-> cal[a].start, end |-> cal[a].end]

Turns == \A p \in Processes : TurnOK(pc[p], DOMAIN proposals, DOMAIN gates)

Shapes == \A q \in DOMAIN proposals : ProposalOK(q)

Inv == TypeOK /\ Shapes /\ Turns /\ Ungated /\ Agrees /\ DecisionsOfGates /\ Traced /\ History

-----------------------------------------------------------------------------
(* The planner.                                                            *)

(* What propose_dispatch_replan builds is a proposal of that shape. *)
LEMMA PlanShape ==
    ASSUME NEW w, NEW k, NEW m, NEW r, NEW i, NEW js,
           Plan(w, k, m, r, i, js).status = "PROPOSAL_CREATED"
    PROVE  ProposalOK(Plan(w, k, m, r, i, js).proposal)
  <1>1. ASSUME NEW best
        PROVE  ProposalOK(Proposal(w, k, m, r, i, best))
    <2> DEFINE ids == { p.id : p \in ToSet(best.place) }
               after == [ a \in ids |-> CHOOSE p \in ToSet(best.place) : p.id = a ]
               moved == { a \in ids : Moved(k, after[a]) }
               q == Proposal(w, k, m, r, i, best)
    <2>1. /\ q.moved = moved /\ q.calRev = [ a \in moved |-> k[a].rev ]
          /\ q.after = [ a \in ids |-> [start |-> after[a].start, end |-> after[a].end] ]
      BY DEF Proposal
    <2> HIDE DEF q, after
    <2>2. DOMAIN q.calRev = q.moved
      BY <2>1
    <2>3. \A a \in q.moved : a \in ids
      BY <2>1
    <2>4. ASSUME NEW a \in q.moved
          PROVE  q.after[a] = [start |-> q.after[a].start, end |-> q.after[a].end]
      BY <2>1, <2>3
    <2>5. ProposalOK(q)
      BY <2>2, <2>4 DEF ProposalOK
    <2> QED
      BY <2>5 DEF q
  <1>2. PICK best : Plan(w, k, m, r, i, js).proposal = Proposal(w, k, m, r, i, best)
    BY DEF Plan, Answer
  <1> QED
    BY <1>1, <1>2

-----------------------------------------------------------------------------
(* The trace.                                                              *)

(* The three outcomes are different. *)
LEMMA Outcomes ==
    /\ DOMAIN Outcome = {"REPLAN_APPLIED", "REPLAN_REJECTED", "REPLAN_STALE"}
    /\ Outcome["REPLAN_APPLIED"] = "APPLIED"
    /\ Outcome["REPLAN_REJECTED"] = "REJECTED"
    /\ Outcome["REPLAN_STALE"] = "STALE"
  BY DEF Outcome

(* An open proposal that is settled leaves the row of its outcome in the   *)
(* trace of every affected job, and no other row.                          *)
LEMMA SettledTrace ==
    ASSUME Inv, NEW q \in DOMAIN proposals, proposals[q] = "PENDING_OWNER_APPROVAL",
           NEW what \in DOMAIN Outcome,
           proposals' = [proposals EXCEPT ![q] = Outcome[what]],
           trace' = trace (+) DecisionRows(q, what)
    PROVE  Traced' /\ trace' \in [DOMAIN trace' -> Nat]
  <1> DEFINE S == { Row(j, what, q) : j \in q.jobs }
  <1>1. /\ trace' \in [DOMAIN trace' -> Nat]
        /\ DOMAIN trace' = DOMAIN trace \cup S
        /\ \A row : RowsIn(trace', row) = RowsIn(trace, row) + IF row \in S THEN 1 ELSE 0
    <2>1. trace' = [ e \in DOMAIN trace \cup S |->
                       (IF e \in DOMAIN trace THEN trace[e] ELSE 0) + (IF e \in S THEN 1 ELSE 0) ]
      BY DEF DecisionRows, SetToBag, (+)
    <2> HIDE DEF S
    <2>2. trace \in [DOMAIN trace -> Nat]
      BY DEF Inv, TypeOK
    <2>3. trace' \in [DOMAIN trace' -> Nat] /\ DOMAIN trace' = DOMAIN trace \cup S
      BY <2>1, <2>2
    <2>4. \A row : RowsIn(trace', row) = RowsIn(trace, row) + IF row \in S THEN 1 ELSE 0
      BY <2>1, <2>2 DEF RowsIn, BagIn, BagToSet
    <2> QED
      BY <2>3, <2>4
  <1>2. \A row \in S : row.proposal = q
    BY DEF Row
  <1>3. \A j, h, x : Row(j, x, h) \in S <=> j \in q.jobs /\ x = what /\ h = q
    BY DEF Row
  <1> HIDE DEF S
  <1>4. DOMAIN proposals' = DOMAIN proposals
    BY DEF Inv, TypeOK
  <1>5. \A row \in DOMAIN trace' : row.proposal \in DOMAIN proposals'
    BY <1>1, <1>2, <1>4 DEF Inv, Traced
  <1>6. ASSUME NEW h \in DOMAIN proposals, NEW j \in h.jobs, NEW x \in DOMAIN Outcome
        PROVE  RowsIn(trace', Row(j, x, h)) = IF proposals'[h] = Outcome[x] THEN 1 ELSE 0
    <2>1. RowsIn(trace, Row(j, x, h)) = IF proposals[h] = Outcome[x] THEN 1 ELSE 0
      BY DEF Inv, Traced, OutcomeTracedOnce
    <2>2. CASE h # q
      <3>1. RowsIn(trace', Row(j, x, h)) = RowsIn(trace, Row(j, x, h)) + 0
        BY <1>1, <1>3, <2>2
      <3>2. proposals'[h] = proposals[h]
        BY <2>2 DEF Inv, TypeOK
      <3> QED
        BY <2>1, <3>1, <3>2
    <2>3. CASE h = q
      <3>1. RowsIn(trace, Row(j, x, h)) = 0
        BY <2>1, <2>3, Outcomes
      <3>2. RowsIn(trace', Row(j, x, h)) = 0 + IF x = what THEN 1 ELSE 0
        BY <1>1, <1>3, <2>3, <3>1
      <3>3. proposals'[q] = Outcome[what]
        BY DEF Inv, TypeOK
      <3>4. Outcome[x] = Outcome[what] <=> x = what
        BY Outcomes
      <3> QED
        BY <2>3, <3>2, <3>3, <3>4
    <2> QED
      BY <2>2, <2>3
  <1>7. OutcomeTracedOnce'
    BY <1>4, <1>6 DEF OutcomeTracedOnce
  <1> QED
    BY <1>1, <1>5, <1>7 DEF Traced

-----------------------------------------------------------------------------
(* Frames.                                                                 *)

(* A step that adds proposals and gates, and leaves process p in a state   *)
(* that fits them, leaves every process in such a state.                   *)
LEMMA TurnsKept ==
    ASSUME Inv, NEW p \in Processes, NEW t,
           pc' = [pc EXCEPT ![p] = t],
           DOMAIN proposals \subseteq DOMAIN proposals', DOMAIN gates \subseteq DOMAIN gates',
           TurnOK(t, DOMAIN proposals', DOMAIN gates')
    PROVE  Turns' /\ DOMAIN pc' = Processes /\ pc' = [ x \in Processes |-> pc'[x] ]
  <1>1. /\ DOMAIN pc = Processes /\ pc = [ x \in Processes |-> pc[x] ]
        /\ \A x \in Processes : TurnOK(pc[x], DOMAIN proposals, DOMAIN gates)
    BY DEF Inv, TypeOK, Turns
  <1>2. \A x \in Processes : TurnOK(pc[x], DOMAIN proposals', DOMAIN gates')
    BY <1>1 DEF TurnOK
  <1>3. \A x \in Processes : pc'[x] = IF x = p THEN t ELSE pc[x]
    BY <1>1
  <1>4. \A x \in Processes : TurnOK(pc'[x], DOMAIN proposals', DOMAIN gates')
    BY <1>2, <1>3
  <1>5. pc' = [ x \in Processes |-> pc'[x] ] /\ DOMAIN pc' = Processes
    BY <1>1
  <1> QED
    BY <1>4, <1>5 DEF Turns

(* The calendar's history only depends on the calendar and on the applied  *)
(* proposals.                                                              *)
LEMMA HistoryKept ==
    ASSUME History, cal' = cal, Applied' = Applied
    PROVE  History'
  BY DEF History, By

(* A step that leaves the rows of the gate alone. *)
LEMMA QuietStep ==
    ASSUME Inv, UNCHANGED <<proposals, gates, decisions, trace, cal>>, calls' \in Nat,
           Turns', DOMAIN pc' = Processes, pc' = [ x \in Processes |-> pc'[x] ]
    PROVE  Inv'
  <1>1. Applied' = Applied
    BY DEF Applied
  <1>2. History'
    BY <1>1, HistoryKept DEF Inv
  <1>3. Traced'
    BY DEF Inv, Traced, OutcomeTracedOnce
  <1> QED
    BY <1>2, <1>3 DEF Inv, TypeOK, Shapes, Ungated, Agrees, DecisionsOfGates

(* The mapping of such a step does not move. *)
LEMMA QuietMapping ==
    ASSUME UNCHANGED <<gates, decisions>>
    PROVE  UNCHANGED Gate!gvars
  BY DEF Gate!gvars, GatesAt, ClaimedAnswers, RecordedAnswers

GateNext == Gate!Open \/ Gate!Claim \/ Gate!Decide \/ Gate!Void

StepOK == Inv' /\ [GateNext]_(Gate!gvars)

-----------------------------------------------------------------------------
(* One lemma per group of operations.                                      *)

(* Direct changes of workflows and materials do not touch the gate. *)
LEMMA EditSteps ==
    ASSUME Inv,
           \/ \E j \in Jobs : UpdateWorkflowCas(j)
           \/ \E a \in DOMAIN cal, t \in ArrivalTimes : RecordMaterialDelay(a, t)
    PROVE  StepOK
  <1>1. UNCHANGED <<proposals, gates, decisions, trace, cal, calls, pc>>
    BY DEF UpdateWorkflowCas, RecordMaterialDelay
  <1>2. Turns' /\ calls' \in Nat /\ DOMAIN pc' = Processes /\ pc' = [ x \in Processes |-> pc'[x] ]
    BY <1>1 DEF Inv, Turns, TypeOK
  <1> QED
    BY <1>1, <1>2, QuietStep, QuietMapping DEF StepOK

(* Reading, planning, asking, resuming and failing happen in memory. *)
LEMMA MemorySteps ==
    ASSUME Inv, NEW p \in Processes,
           \/ \E r \in Requests : ReadWorkflows(p, r)
           \/ ReadCalendar(p) \/ PlanReplan(p)
           \/ \E q \in DOMAIN proposals : RequestReplanApproval(p, q)
           \/ ResumeTool(p) \/ Fail(p)
    PROVE  StepOK
  <1>1. UNCHANGED <<proposals, gates, decisions, trace, cal>> /\ calls' \in Nat
    <2>1. UNCHANGED rows
      BY DEF ReadWorkflows, ReadCalendar, PlanReplan, RequestReplanApproval, ResumeTool, Fail
    <2>2. calls' = calls \/ calls' = calls + 1
      BY DEF ReadWorkflows, ReadCalendar, PlanReplan, RequestReplanApproval, ResumeTool, Fail
    <2> QED
      BY <2>1, <2>2 DEF Inv, TypeOK, rows
  <1> DEFINE Fits(t) == TurnOK(t, DOMAIN proposals, DOMAIN gates)
  <1>2. Fits(Idle)
    BY DEF TurnOK, Idle
  <1>3. \E t : Fits(t) /\ pc' = [pc EXCEPT ![p] = t]
    <2>1. ASSUME NEW r \in Requests, ReadWorkflows(p, r)
          PROVE  \E t : Fits(t) /\ pc' = [pc EXCEPT ![p] = t]
      BY <2>1 DEF ReadWorkflows, Goto, TurnOK
    <2>2. CASE ReadCalendar(p)
      BY <2>2 DEF ReadCalendar, Goto, TurnOK
    <2>3. CASE PlanReplan(p)
      <3> DEFINE a == Plan(world, pc[p].cal, mat, pc[p].rev, pc[p].initiating, pc[p].jobs)
                 t == IF a.status = "PROPOSAL_CREATED"
                      THEN [at |-> "save", proposal |-> a.proposal] ELSE Idle
      <3>1. pc' = [pc EXCEPT ![p] = t]
        BY <2>3 DEF PlanReplan, Goto
      <3>2. a.status = "PROPOSAL_CREATED" => ProposalOK(a.proposal)
        BY PlanShape
      <3> HIDE DEF a
      <3>3. Fits(t)
        BY <1>2, <3>2 DEF TurnOK
      <3> QED
        BY <3>1, <3>3
    <2>4. ASSUME NEW q \in DOMAIN proposals, RequestReplanApproval(p, q)
          PROVE  \E t : Fits(t) /\ pc' = [pc EXCEPT ![p] = t]
      <3> DEFINE t == [at |-> "gate", proposal |-> q, interrupt |-> calls + 1]
      <3>1. Fits(t)
        BY DEF TurnOK, Inv, TypeOK
      <3> QED
        BY <2>4, <3>1 DEF RequestReplanApproval, Goto
    <2>5. CASE ResumeTool(p)
      <3>1. /\ Fits(pc[p]) /\ pc[p].at = "resumed"
            /\ pc' = [pc EXCEPT ![p] = [pc[p] EXCEPT !.at = "apply"]]
        BY <2>5 DEF ResumeTool, Goto, Inv, Turns
      <3>2. Fits([pc[p] EXCEPT !.at = "apply"])
        BY <3>1 DEF TurnOK
      <3> QED
        BY <3>1, <3>2
    <2>6. CASE Fail(p)
      BY <1>2, <2>6 DEF Fail, Goto
    <2> QED
      BY <2>1, <2>2, <2>3, <2>4, <2>5, <2>6
  <1>4. Turns' /\ DOMAIN pc' = Processes /\ pc' = [ x \in Processes |-> pc'[x] ]
    BY <1>1, <1>3, TurnsKept
  <1> QED
    BY <1>1, <1>4, QuietStep, QuietMapping DEF StepOK

(* save_proposal: a new proposal is open, has no gate and no row. *)
LEMMA SaveStep ==
    ASSUME Inv, NEW p \in Processes, SaveProposal(p)
    PROVE  StepOK
  <1> DEFINE q == pc[p].proposal
  <1>1. UNCHANGED <<gates, decisions, trace, cal, calls>> /\ pc' = [pc EXCEPT ![p] = Idle]
    BY DEF SaveProposal, Goto
  <1>2. TurnOK(Idle, DOMAIN proposals', DOMAIN gates')
    BY DEF TurnOK, Idle
  <1>3. ProposalOK(q)
    BY DEF Inv, Turns, TurnOK, SaveProposal
  <1>4. CASE q \in DOMAIN proposals
    <2>1. proposals' = proposals
      BY <1>4 DEF SaveProposal
    <2>2. Turns' /\ DOMAIN pc' = Processes /\ pc' = [ x \in Processes |-> pc'[x] ]
      BY <1>1, <1>2, <2>1, TurnsKept
    <2> QED
      BY <1>1, <2>1, <2>2, QuietStep, QuietMapping DEF StepOK, Inv, TypeOK
  <1>5. CASE q \notin DOMAIN proposals
    <2>1. proposals' = [ x \in DOMAIN proposals \cup {q} |->
                           IF x = q THEN "PENDING_OWNER_APPROVAL" ELSE proposals[x] ]
      BY <1>5 DEF SaveProposal, Inserted
    <2>2. /\ DOMAIN proposals' = DOMAIN proposals \cup {q}
          /\ \A x \in DOMAIN proposals : proposals'[x] = proposals[x]
          /\ proposals'[q] = "PENDING_OWNER_APPROVAL"
          /\ proposals' \in [DOMAIN proposals' -> ProposalStatus]
      BY <1>5, <2>1 DEF Inv, TypeOK, ProposalStatus
    <2> HIDE DEF q
    <2>3. Turns' /\ DOMAIN pc' = Processes /\ pc' = [ x \in Processes |-> pc'[x] ]
      BY <1>1, <1>2, <2>2, TurnsKept
    <2>4. TypeOK' /\ Shapes'
      BY <1>1, <1>3, <2>2, <2>3 DEF Inv, TypeOK, Shapes
    <2>5. Ungated' /\ Agrees' /\ DecisionsOfGates'
      BY <1>1, <2>2 DEF Inv, TypeOK, Ungated, Agrees, DecisionsOfGates
    <2>6. Traced'
      <3>1. \A j, x : Row(j, x, q).proposal = q
        BY DEF Row
      <3>2. \A j, x : RowsIn(trace, Row(j, x, q)) = 0
        BY <1>5, <3>1 DEF Inv, Traced, RowsIn, BagIn, BagToSet
      <3>3. \A x \in DOMAIN Outcome : Outcome[x] # "PENDING_OWNER_APPROVAL"
        BY Outcomes
      <3> QED
        BY <1>1, <2>2, <3>2, <3>3 DEF Inv, Traced, OutcomeTracedOnce
    <2>7. History'
      <3>1. Applied' = Applied
        BY <2>2 DEF Applied
      <3> QED
        BY <1>1, <3>1, HistoryKept DEF Inv
    <2> QED
      BY <1>1, <2>3, <2>4, <2>5, <2>6, <2>7, QuietMapping DEF Inv, StepOK
  <1> QED
    BY <1>4, <1>5

(* Every gate the mapping knows has a row. *)
LEMMA KnownGates ==
    ASSUME Inv
    PROVE  Gate!Known \subseteq DOMAIN gates
  <1>1. \A c \in ClaimedAnswers : c[1] \in DOMAIN gates
    BY DEF ClaimedAnswers, GatesAt
  <1>2. \A c \in RecordedAnswers : c[1] \in DOMAIN gates
    BY DEF RecordedAnswers, Inv, DecisionsOfGates
  <1> QED
    BY <1>1, <1>2 DEF Gate!Known, GatesAt

(* create_replan_gate: a first gate is open, on an open proposal. *)
LEMMA CreateStep ==
    ASSUME Inv, NEW p \in Processes, CreateReplanGate(p)
    PROVE  StepOK
  <1> DEFINE q == pc[p].proposal
             t == [pc[p] EXCEPT !.at = "interrupted"]
  <1>1. UNCHANGED <<proposals, decisions, trace, cal, calls>> /\ pc' = [pc EXCEPT ![p] = t]
    BY DEF CreateReplanGate, Goto
  <1>2. pc[p] \in [at : {"gate", "interrupted"}, proposal : DOMAIN proposals, interrupt : Nat]
    BY DEF Inv, Turns, TurnOK, CreateReplanGate
  <1>3. q \in DOMAIN proposals
    BY <1>2
  <1>4. q \in DOMAIN gates' => TurnOK(t, DOMAIN proposals', DOMAIN gates')
    BY <1>1, <1>2 DEF TurnOK
  <1>5. CASE q \in DOMAIN gates
    <2>1. gates' = gates
      BY <1>5 DEF CreateReplanGate
    <2>2. Turns' /\ DOMAIN pc' = Processes /\ pc' = [ x \in Processes |-> pc'[x] ]
      BY <1>1, <1>4, <1>5, <2>1, TurnsKept
    <2> QED
      BY <1>1, <2>1, <2>2, QuietStep, QuietMapping DEF StepOK, Inv, TypeOK
  <1>6. CASE q \notin DOMAIN gates
    <2>1. gates' = [ x \in DOMAIN gates \cup {q} |-> IF x = q THEN NewGate ELSE gates[x] ]
      BY <1>6 DEF CreateReplanGate, Inserted
    <2>2. NewGate \in GateRows /\ NewGate.status = "PENDING"
      BY DEF NewGate, GateRows
    <2>3. /\ DOMAIN gates' = DOMAIN gates \cup {q}
          /\ \A x \in DOMAIN gates : gates'[x] = gates[x]
          /\ gates'[q] = NewGate
          /\ gates' \in [DOMAIN gates' -> GateRows]
      BY <1>6, <2>1, <2>2 DEF Inv, TypeOK
    <2>4. Turns' /\ DOMAIN pc' = Processes /\ pc' = [ x \in Processes |-> pc'[x] ]
      BY <1>1, <1>4, <2>3, TurnsKept
    <2>5. proposals[q] = "PENDING_OWNER_APPROVAL"
      BY <1>3, <1>6 DEF Inv, Ungated
    <2> HIDE DEF q
    <2>6. TypeOK' /\ Shapes'
      BY <1>1, <1>3, <2>3, <2>4 DEF Inv, TypeOK, Shapes
    <2>7. Ungated' /\ Agrees' /\ DecisionsOfGates'
      BY <1>1, <2>2, <2>3, <2>5 DEF Inv, TypeOK, Ungated, Agrees, DecisionsOfGates
    <2>8. Traced' /\ History'
      <3>1. Applied' = Applied
        BY <1>1 DEF Applied
      <3>2. History'
        BY <1>1, <3>1, HistoryKept DEF Inv
      <3> QED
        BY <1>1, <3>2 DEF Inv, Traced, OutcomeTracedOnce
    <2>9. Gate!Open
      <3>1. /\ GatesAt("PENDING")' = GatesAt("PENDING") \cup {q}
            /\ GatesAt("RESUMING")' = GatesAt("RESUMING")
            /\ GatesAt("INVALIDATED")' = GatesAt("INVALIDATED")
        BY <2>2, <2>3 DEF GatesAt
      <3>2. ClaimedAnswers' = ClaimedAnswers
        BY <2>3, <3>1 DEF ClaimedAnswers, GatesAt
      <3>3. RecordedAnswers' = RecordedAnswers
        BY <1>1 DEF RecordedAnswers
      <3>4. q \notin Gate!Known
        BY <1>6, KnownGates
      <3> QED
        BY <3>1, <3>2, <3>3, <3>4 DEF Gate!Open
    <2> QED
      BY <2>4, <2>6, <2>7, <2>8, <2>9 DEF Inv, StepOK, GateNext
  <1> QED
    BY <1>5, <1>6

(* A step on the row of one gate that leaves the other rows alone. *)
LEMMA OneGateChanges ==
    ASSUME Inv, NEW q \in DOMAIN gates, NEW g \in GateRows,
           gates' = [gates EXCEPT ![q] = g]
    PROVE  /\ DOMAIN gates' = DOMAIN gates
           /\ gates' \in [DOMAIN gates' -> GateRows]
           /\ gates'[q] = g
           /\ \A x \in DOMAIN gates \ {q} : gates'[x] = gates[x]
  BY DEF Inv, TypeOK

(* bind_gate_interrupt only names the interrupt of a pending gate. *)
LEMMA BindStep ==
    ASSUME Inv, NEW p \in Processes, BindGateInterrupt(p)
    PROVE  StepOK
  <1> DEFINE q == pc[p].proposal
  <1>1. UNCHANGED <<proposals, decisions, trace, cal, calls>> /\ pc' = [pc EXCEPT ![p] = Idle]
    BY DEF BindGateInterrupt, Goto
  <1>2. TurnOK(Idle, DOMAIN proposals', DOMAIN gates')
    BY DEF TurnOK, Idle
  <1>3. q \in DOMAIN gates /\ pc[p].interrupt \in Nat
    BY DEF Inv, Turns, TurnOK, BindGateInterrupt
  <1>4. CASE gates' = gates
    <2>1. Turns' /\ DOMAIN pc' = Processes /\ pc' = [ x \in Processes |-> pc'[x] ]
      BY <1>1, <1>2, <1>4, TurnsKept
    <2> QED
      BY <1>1, <1>4, <2>1, QuietStep, QuietMapping DEF StepOK, Inv, TypeOK
  <1>5. CASE gates' # gates
    <2> DEFINE g == [gates[q] EXCEPT !.interrupt = pc[p].interrupt]
    <2>1. gates' = [gates EXCEPT ![q] = g]
      BY <1>5 DEF BindGateInterrupt
    <2>2. gates[q] \in GateRows
      BY <1>3 DEF Inv, TypeOK
    <2>3. g \in GateRows /\ g.status = gates[q].status /\ g.action = gates[q].action
      BY <1>3, <2>2 DEF GateRows
    <2> HIDE DEF g
    <2>4. /\ DOMAIN gates' = DOMAIN gates
          /\ gates' \in [DOMAIN gates' -> GateRows]
          /\ gates'[q] = g
          /\ \A x \in DOMAIN gates \ {q} : gates'[x] = gates[x]
      BY <1>3, <2>1, <2>3, OneGateChanges
    <2>5. \A x \in DOMAIN gates : gates'[x].status = gates[x].status /\ gates'[x].action = gates[x].action
      BY <2>3, <2>4
    <2>6. Turns' /\ DOMAIN pc' = Processes /\ pc' = [ x \in Processes |-> pc'[x] ]
      BY <1>1, <1>2, <2>4, TurnsKept
    <2>7. TypeOK' /\ Shapes'
      BY <1>1, <2>4, <2>6 DEF Inv, TypeOK, Shapes
    <2>8. Ungated' /\ Agrees' /\ DecisionsOfGates'
      BY <1>1, <2>4, <2>5 DEF Inv, TypeOK, Ungated, Agrees, DecisionsOfGates
    <2>9. Traced' /\ History'
      <3>1. Applied' = Applied
        BY <1>1 DEF Applied
      <3>2. History'
        BY <1>1, <3>1, HistoryKept DEF Inv
      <3> QED
        BY <1>1, <3>2 DEF Inv, Traced, OutcomeTracedOnce
    <2>10. UNCHANGED Gate!gvars
      BY <1>1, <2>4, <2>5 DEF Gate!gvars, GatesAt, ClaimedAnswers, RecordedAnswers
    <2> QED
      BY <2>6, <2>7, <2>8, <2>9, <2>10 DEF Inv, StepOK
  <1> QED
    BY <1>4, <1>5

(* The mapping when a pending gate is claimed. *)
LEMMA ClaimMapping ==
    ASSUME Inv, NEW q \in DOMAIN gates, NEW g \in GateRows,
           gates' = [gates EXCEPT ![q] = g],
           gates[q].status = "PENDING", g.status = "RESUMING"
    PROVE  /\ q \in GatesAt("PENDING")
           /\ GatesAt("PENDING")' = GatesAt("PENDING") \ {q}
           /\ GatesAt("INVALIDATED")' = GatesAt("INVALIDATED")
           /\ ClaimedAnswers' = ClaimedAnswers \cup {<<q, g.action>>}
  <1>1. /\ DOMAIN gates' = DOMAIN gates /\ gates'[q] = g
        /\ \A x \in DOMAIN gates \ {q} : gates'[x] = gates[x]
    BY OneGateChanges
  <1>2. GatesAt("RESUMING")' = GatesAt("RESUMING") \cup {q} /\ q \notin GatesAt("RESUMING")
    BY <1>1 DEF GatesAt
  <1>3. \A c : c \in ClaimedAnswers' <=> c \in ClaimedAnswers \/ c = <<q, g.action>>
    BY <1>1, <1>2 DEF ClaimedAnswers, GatesAt
  <1>4. ClaimedAnswers' = ClaimedAnswers \cup {<<q, g.action>>}
    BY <1>3
  <1> QED
    BY <1>1, <1>4 DEF GatesAt

(* The mapping when a claimed gate is resolved or invalidated. *)
LEMMA SettleMapping ==
    ASSUME Inv, NEW q \in DOMAIN gates, NEW g \in GateRows,
           gates' = [gates EXCEPT ![q] = g],
           gates[q].status = "RESUMING", g.status \in {"RESOLVED", "INVALIDATED"}
    PROVE  /\ GatesAt("PENDING")' = GatesAt("PENDING") /\ q \notin GatesAt("PENDING")
           /\ GatesAt("INVALIDATED")' =
                GatesAt("INVALIDATED") \cup IF g.status = "INVALIDATED" THEN {q} ELSE {}
           /\ <<q, gates[q].action>> \in ClaimedAnswers
           /\ ClaimedAnswers' = ClaimedAnswers \ {<<q, gates[q].action>>}
           /\ ClaimedAnswers' = { c \in ClaimedAnswers : c[1] # q }
  <1>1. /\ DOMAIN gates' = DOMAIN gates /\ gates'[q] = g
        /\ \A x \in DOMAIN gates \ {q} : gates'[x] = gates[x]
    BY OneGateChanges
  <1>2. GatesAt("RESUMING")' = GatesAt("RESUMING") \ {q} /\ q \in GatesAt("RESUMING")
    BY <1>1 DEF GatesAt
  <1>3. \A c : c \in ClaimedAnswers <=> \E x \in GatesAt("RESUMING") : c = <<x, gates[x].action>>
    BY DEF ClaimedAnswers
  <1>4. \A c : c \in ClaimedAnswers' <=>
                 \E x \in GatesAt("RESUMING") \ {q} : c = <<x, gates[x].action>>
    BY <1>1, <1>2 DEF ClaimedAnswers, GatesAt
  <1>5. \A c \in ClaimedAnswers : c[1] = q <=> c = <<q, gates[q].action>>
    BY <1>3
  <1>6. \A c : c \in ClaimedAnswers' <=> c \in ClaimedAnswers /\ c[1] # q
    BY <1>3, <1>4
  <1>7. ClaimedAnswers' = { c \in ClaimedAnswers : c[1] # q }
    BY <1>6
  <1>8. ClaimedAnswers' = ClaimedAnswers \ {<<q, gates[q].action>>}
    BY <1>5, <1>6
  <1>9. <<q, gates[q].action>> \in ClaimedAnswers
    BY <1>2, <1>3
  <1> QED
    BY <1>1, <1>7, <1>8, <1>9 DEF GatesAt

(* claim_replan_response takes a pending gate for one answer. *)
LEMMA ClaimStep ==
    ASSUME Inv, NEW p \in Processes, NEW q \in DOMAIN gates, NEW x \in Actions,
           ClaimReplanResponse(p, q, x)
    PROVE  StepOK
  <1> DEFINE g == [gates[q] EXCEPT !.status = "RESUMING", !.action = x]
             t == [at |-> "resumed", proposal |-> q, action |-> x]
  <1>1. /\ UNCHANGED <<proposals, decisions, trace, cal, calls>> /\ pc' = [pc EXCEPT ![p] = t]
        /\ gates[q].status = "PENDING"
    BY DEF ClaimReplanResponse, ClaimAllowed, Goto
  <1>2. gates' = [gates EXCEPT ![q] = g]
    BY DEF ClaimReplanResponse
  <1>3. gates[q] \in GateRows
    BY DEF Inv, TypeOK
  <1>4. g \in GateRows /\ g.status = "RESUMING" /\ g.action = x
    BY <1>3 DEF GateRows
  <1> HIDE DEF g
  <1>5. /\ DOMAIN gates' = DOMAIN gates
        /\ gates' \in [DOMAIN gates' -> GateRows]
        /\ gates'[q] = g
        /\ \A y \in DOMAIN gates \ {q} : gates'[y] = gates[y]
    BY <1>2, <1>4, OneGateChanges
  <1>6. TurnOK(t, DOMAIN proposals', DOMAIN gates')
    BY <1>5 DEF TurnOK
  <1>7. Turns' /\ DOMAIN pc' = Processes /\ pc' = [ y \in Processes |-> pc'[y] ]
    BY <1>1, <1>5, <1>6, TurnsKept
  <1>8. TypeOK' /\ Shapes'
    BY <1>1, <1>5, <1>7 DEF Inv, TypeOK, Shapes
  <1>9. Ungated' /\ Agrees' /\ DecisionsOfGates'
    <2>1. Ungated'
      BY <1>1, <1>5 DEF Inv, Ungated
    <2>2. Agrees'
      BY <1>1, <1>4, <1>5 DEF Inv, Agrees
    <2>3. DecisionsOfGates'
      BY <1>1, <1>5 DEF Inv, DecisionsOfGates
    <2> QED
      BY <2>1, <2>2, <2>3
  <1>10. Traced' /\ History'
    <2>1. Applied' = Applied
      BY <1>1 DEF Applied
    <2>2. History'
      BY <1>1, <2>1, HistoryKept DEF Inv
    <2> QED
      BY <1>1, <2>2 DEF Inv, Traced, OutcomeTracedOnce
  <1>11. Gate!Claim
    <2>1. /\ q \in GatesAt("PENDING")
          /\ GatesAt("PENDING")' = GatesAt("PENDING") \ {q}
          /\ GatesAt("INVALIDATED")' = GatesAt("INVALIDATED")
          /\ ClaimedAnswers' = ClaimedAnswers \cup {<<q, x>>}
      BY <1>1, <1>2, <1>4, ClaimMapping
    <2>2. RecordedAnswers' = RecordedAnswers
      BY <1>1 DEF RecordedAnswers
    <2>3. <<q, x>> \in ClaimedAnswers' /\ <<q, x>>[1] = q
      BY <2>1
    <2> QED
      BY <2>1, <2>2, <2>3 DEF Gate!Claim
  <1> QED
    BY <1>7, <1>8, <1>9, <1>10, <1>11 DEF Inv, StepOK, GateNext

-----------------------------------------------------------------------------
(* apply_replan_response.                                                  *)

(* What the three outcomes of a claimed answer have in common: proposal    *)
(* and gate are settled together, and a decision is written exactly when   *)
(* the gate is resolved.                                                   *)
LEMMA Settles ==
    ASSUME Inv, NEW p \in Processes, NEW q \in DOMAIN gates, NEW st, NEW gs,
           gates[q].status = "RESUMING",
           proposals' = [proposals EXCEPT ![q] = st],
           gates' = [gates EXCEPT ![q].status = gs],
           \/ gs = "INVALIDATED" /\ st = "STALE" /\ decisions' = decisions
           \/ /\ gs = "RESOLVED" /\ st \in {"APPLIED", "REJECTED"}
              /\ decisions' = decisions \cup {[proposal |-> q, action |-> gates[q].action]},
           pc' = [pc EXCEPT ![p] = Idle], calls' = calls,
           trace' \in [DOMAIN trace' -> Nat]
    PROVE  /\ TypeOK' /\ Shapes' /\ Turns' /\ Ungated' /\ Agrees' /\ DecisionsOfGates'
           /\ GateNext
  <1> DEFINE g == [gates[q] EXCEPT !.status = gs]
  <1>1. gates[q] \in GateRows /\ q \in DOMAIN proposals
    BY DEF Inv, TypeOK
  <1>2. gates' = [gates EXCEPT ![q] = g]
    OBVIOUS
  <1>3. g \in GateRows /\ g.status = gs /\ g.action = gates[q].action
    BY <1>1 DEF GateRows
  <1> HIDE DEF g
  <1>4. /\ DOMAIN gates' = DOMAIN gates
        /\ gates' \in [DOMAIN gates' -> GateRows]
        /\ gates'[q] = g
        /\ \A y \in DOMAIN gates \ {q} : gates'[y] = gates[y]
    BY <1>2, <1>3, OneGateChanges
  <1>5. /\ DOMAIN proposals' = DOMAIN proposals
        /\ proposals' \in [DOMAIN proposals' -> ProposalStatus]
        /\ proposals'[q] = st
        /\ \A y \in DOMAIN proposals \ {q} : proposals'[y] = proposals[y]
    BY <1>1 DEF Inv, TypeOK, ProposalStatus
  <1>6. Turns' /\ DOMAIN pc' = Processes /\ pc' = [ y \in Processes |-> pc'[y] ]
    <2>1. TurnOK(Idle, DOMAIN proposals', DOMAIN gates')
      BY DEF TurnOK, Idle
    <2> QED
      BY <1>4, <1>5, <2>1, TurnsKept
  <1>7. TypeOK' /\ Shapes'
    BY <1>4, <1>5, <1>6 DEF Inv, TypeOK, Shapes
  <1>8. Ungated'
    BY <1>4, <1>5 DEF Inv, Ungated
  <1>9. \A d \in decisions : d.proposal # q
    BY DEF Inv, DecisionsOfGates
  <1>10. Agrees'
    <2>1. ASSUME NEW y \in DOMAIN gates, y # q
          PROVE  /\ gates'[y].status \in {"PENDING", "RESUMING"} <=> proposals'[y] = "PENDING_OWNER_APPROVAL"
                 /\ gates'[y].status = "INVALIDATED" <=> proposals'[y] = "STALE"
                 /\ gates'[y].status = "RESOLVED" =>
                       [proposal |-> y, action |-> gates'[y].action] \in decisions'
      <3>1. y \in DOMAIN proposals /\ gates'[y] = gates[y] /\ proposals'[y] = proposals[y]
        BY <1>4, <1>5, <2>1 DEF Inv, TypeOK
      <3>2. decisions \subseteq decisions'
        OBVIOUS
      <3> QED
        BY <3>1, <3>2 DEF Inv, Agrees
    <2>2. /\ gates'[q].status \in {"PENDING", "RESUMING"} <=> proposals'[q] = "PENDING_OWNER_APPROVAL"
          /\ gates'[q].status = "INVALIDATED" <=> proposals'[q] = "STALE"
          /\ gates'[q].status = "RESOLVED" =>
                [proposal |-> q, action |-> gates'[q].action] \in decisions'
      BY <1>3, <1>4, <1>5
    <2> QED
      BY <1>4, <2>1, <2>2 DEF Agrees
  <1>11. DecisionsOfGates'
    <2>1. ASSUME NEW d \in decisions
          PROVE  /\ d.proposal \in DOMAIN gates' /\ gates'[d.proposal].status = "RESOLVED"
                 /\ d = [proposal |-> d.proposal, action |-> gates'[d.proposal].action]
      BY <1>4, <1>9 DEF Inv, DecisionsOfGates
    <2>2. ASSUME NEW d, gs = "RESOLVED", d = [proposal |-> q, action |-> gates[q].action]
          PROVE  /\ d.proposal \in DOMAIN gates' /\ gates'[d.proposal].status = "RESOLVED"
                 /\ d = [proposal |-> d.proposal, action |-> gates'[d.proposal].action]
      BY <1>3, <1>4, <2>2
    <2> QED
      BY <2>1, <2>2 DEF DecisionsOfGates
  <1>12. GateNext
    <2>1. /\ GatesAt("PENDING")' = GatesAt("PENDING") /\ q \notin GatesAt("PENDING")
          /\ GatesAt("INVALIDATED")' = GatesAt("INVALIDATED") \cup IF gs = "INVALIDATED" THEN {q} ELSE {}
          /\ <<q, gates[q].action>> \in ClaimedAnswers
          /\ ClaimedAnswers' = ClaimedAnswers \ {<<q, gates[q].action>>}
          /\ ClaimedAnswers' = { c \in ClaimedAnswers : c[1] # q }
      BY <1>2, <1>3, SettleMapping
    <2>2. CASE gs = "INVALIDATED" /\ decisions' = decisions
      <3>1. RecordedAnswers' = RecordedAnswers
        BY <2>2 DEF RecordedAnswers
      <3>2. q \in { c[1] : c \in ClaimedAnswers }
        BY <2>1
      <3>3. GatesAt("PENDING")' = GatesAt("PENDING") \ {q}
        BY <2>1
      <3>4. Gate!Void
        BY <2>1, <2>2, <3>1, <3>2, <3>3 DEF Gate!Void
      <3> QED
        BY <3>4 DEF GateNext
    <2>3. CASE /\ gs = "RESOLVED"
               /\ decisions' = decisions \cup {[proposal |-> q, action |-> gates[q].action]}
      <3>1. RecordedAnswers' = RecordedAnswers \cup {<<q, gates[q].action>>}
        <4> DEFINE n == [proposal |-> q, action |-> gates[q].action]
        <4>1. decisions' = decisions \cup {n} /\ n.proposal = q /\ n.action = gates[q].action
          BY <2>3
        <4> HIDE DEF n
        <4>2. \A c : c \in RecordedAnswers' <=> c \in RecordedAnswers \/ c = <<n.proposal, n.action>>
          BY <4>1 DEF RecordedAnswers
        <4> QED
          BY <4>1, <4>2
      <3>2. Gate!Decide
        BY <2>1, <2>3, <3>1 DEF Gate!Decide
      <3> QED
        BY <3>2 DEF GateNext
    <2> QED
      BY <2>2, <2>3
  <1> QED
    BY <1>6, <1>7, <1>8, <1>10, <1>11, <1>12

(* An approval moves every placement of its proposal by one revision, and  *)
(* is the only one that was planned from the revision it replaces.         *)
LEMMA ApprovedHistory ==
    ASSUME Inv, NEW q \in DOMAIN proposals, proposals[q] = "PENDING_OWNER_APPROVAL",
           \A a \in DOMAIN q.calRev : cal[a].rev = q.calRev[a],
           proposals' = [proposals EXCEPT ![q] = "APPLIED"],
           cal' = [ a \in DOMAIN cal |->
                      IF a \in DOMAIN q.calRev
                      THEN [start |-> q.after[a].start, end |-> q.after[a].end, rev |-> cal[a].rev + 1]
                      ELSE cal[a] ]
    PROVE  History'
  <1>1. Applied' = Applied \cup {q} /\ q \notin Applied
    BY DEF Inv, TypeOK, Applied
  <1>2. /\ DOMAIN q.calRev = q.moved
        /\ \A a \in q.moved : q.after[a] = [start |-> q.after[a].start, end |-> q.after[a].end]
    BY DEF Inv, Shapes, ProposalOK
  <1>3. DOMAIN cal' = DOMAIN cal
    OBVIOUS
  <1> DEFINE Told(a, qs, c) ==
               /\ c.rev \in Nat
               /\ \A h \in qs : a \in h.moved => h.calRev[a] \in 0 .. c.rev - 1
               /\ \A r \in 0 .. c.rev - 1 : \E h \in qs : By(qs, a, r) = {h}
               /\ c.rev > 0 =>
                     \A h \in By(qs, a, c.rev - 1) : h.after[a] = [start |-> c.start, end |-> c.end]
  <1>4. ASSUME NEW a \in DOMAIN cal
        PROVE  Told(a, Applied', cal'[a])
    <2>1. Told(a, Applied, cal[a])
      BY DEF Inv, History
    <2>2. CASE a \notin q.moved
      <3>1. cal'[a] = cal[a]
        BY <1>2, <2>2
      <3>2. \A r : By(Applied', a, r) = By(Applied, a, r)
        BY <1>1, <2>2 DEF By
      <3> QED
        BY <1>1, <2>1, <2>2, <3>1, <3>2
    <2>3. CASE a \in q.moved
      <3> DEFINE n == cal[a].rev
      <3>1. n \in Nat /\ q.calRev[a] = n
        BY <1>2, <2>1, <2>3
      <3>2. cal'[a] = [start |-> q.after[a].start, end |-> q.after[a].end, rev |-> n + 1]
        BY <1>2, <2>3
      <3>3. cal'[a].rev = n + 1 /\ cal'[a].start = q.after[a].start /\ cal'[a].end = q.after[a].end
        BY <3>2
      <3>4. By(Applied, a, n) = {}
        BY <2>1, <3>1 DEF By
      <3>5. By(Applied', a, n) = {q}
        BY <1>1, <2>3, <3>1, <3>4 DEF By
      <3>6. \A r : r # n => By(Applied', a, r) = By(Applied, a, r)
        BY <1>1, <3>1 DEF By
      <3> HIDE DEF n
      <3>7. \A h \in Applied' : a \in h.moved => h.calRev[a] \in 0 .. n
        <4>1. \A h \in Applied : a \in h.moved => h.calRev[a] \in 0 .. n - 1
          BY <2>1 DEF n
        <4> QED
          BY <1>1, <3>1, <4>1
      <3>8. \A r \in 0 .. n : \E h \in Applied' : By(Applied', a, r) = {h}
        <4>1. \A r \in 0 .. n - 1 : \E h \in Applied : By(Applied, a, r) = {h}
          BY <2>1 DEF n
        <4>2. \A r \in 0 .. n : r = n \/ (r \in 0 .. n - 1 /\ r # n)
          BY <3>1
        <4> QED
          BY <1>1, <3>5, <3>6, <4>1, <4>2
      <3>9. \A h \in By(Applied', a, n) :
               h.after[a] = [start |-> cal'[a].start, end |-> cal'[a].end]
        BY <1>2, <2>3, <3>3, <3>5
      <3>10. cal'[a].rev \in Nat /\ cal'[a].rev - 1 = n
        BY <3>1, <3>3
      <3> QED
        BY <3>7, <3>8, <3>9, <3>10
    <2> QED
      BY <2>2, <2>3
  <1> QED
    BY <1>3, <1>4 DEF History

(* apply_replan_response: refused, found stale, approved or rejected. *)
LEMMA ApplyStep ==
    ASSUME Inv, NEW p \in Processes, ApplyReplanResponse(p)
    PROVE  StepOK
  <1> DEFINE q == pc[p].proposal
  <1>1. calls' = calls /\ pc' = [pc EXCEPT ![p] = Idle]
    BY DEF ApplyReplanResponse, Goto
  <1>2. q \in DOMAIN gates /\ q \in DOMAIN proposals
    BY DEF Inv, TypeOK, Turns, TurnOK, ApplyReplanResponse
  <1>3. CASE UNCHANGED <<rev, cal, proposals, gates, decisions, done, trace>>
    <2>1. TurnOK(Idle, DOMAIN proposals', DOMAIN gates')
      BY DEF TurnOK, Idle
    <2>2. Turns' /\ DOMAIN pc' = Processes /\ pc' = [ x \in Processes |-> pc'[x] ]
      BY <1>1, <1>3, <2>1, TurnsKept
    <2> QED
      BY <1>1, <1>3, <2>2, QuietStep, QuietMapping DEF StepOK, Inv, TypeOK
  <1>4. ASSUME gates[q].status = "RESUMING", proposals[q] = "PENDING_OWNER_APPROVAL", RejectStale(q)
        PROVE  StepOK
    <2>1. Traced' /\ trace' \in [DOMAIN trace' -> Nat]
      BY <1>2, <1>4, SettledTrace, Outcomes DEF RejectStale
    <2>2. /\ TypeOK' /\ Shapes' /\ Turns' /\ Ungated' /\ Agrees' /\ DecisionsOfGates'
          /\ GateNext
      BY <1>1, <1>2, <1>4, <2>1, Settles DEF RejectStale
    <2>3. History'
      <3>1. Applied' = Applied
        BY <1>2, <1>4 DEF RejectStale, Applied, Inv, TypeOK
      <3> QED
        BY <1>4, <3>1, HistoryKept DEF RejectStale, Inv
    <2> QED
      BY <2>1, <2>2, <2>3 DEF Inv, StepOK
  <1>5. ASSUME gates[q].status = "RESUMING", proposals[q] = "PENDING_OWNER_APPROVAL",
               gates[q].action = pc[p].action, StillFresh(q), Decide(q, pc[p].action)
        PROVE  StepOK
    <2>1. decisions' = decisions \cup {[proposal |-> q, action |-> gates[q].action]}
      BY <1>5 DEF Decide
    <2>2. CASE pc[p].action = "APPROVE_REPLAN"
      <3>1. /\ proposals' = [proposals EXCEPT ![q] = "APPLIED"]
            /\ gates' = [gates EXCEPT ![q].status = "RESOLVED"]
            /\ trace' = trace (+) DecisionRows(q, "REPLAN_APPLIED")
            /\ cal' = [ a \in DOMAIN cal |->
                          IF a \in DOMAIN q.calRev
                          THEN [start |-> q.after[a].start, end |-> q.after[a].end,
                                rev |-> cal[a].rev + 1]
                          ELSE cal[a] ]
        BY <1>5, <2>2 DEF Decide
      <3>2. Traced' /\ trace' \in [DOMAIN trace' -> Nat]
        BY <1>2, <1>5, <3>1, SettledTrace, Outcomes
      <3>3. /\ TypeOK' /\ Shapes' /\ Turns' /\ Ungated' /\ Agrees' /\ DecisionsOfGates'
            /\ GateNext
        BY <1>1, <1>2, <1>5, <2>1, <3>1, <3>2, Settles
      <3>4. History'
        BY <1>2, <1>5, <3>1, ApprovedHistory DEF StillFresh
      <3> QED
        BY <3>2, <3>3, <3>4 DEF Inv, StepOK
    <2>3. CASE pc[p].action # "APPROVE_REPLAN"
      <3>1. /\ proposals' = [proposals EXCEPT ![q] = "REJECTED"]
            /\ gates' = [gates EXCEPT ![q].status = "RESOLVED"]
            /\ trace' = trace (+) DecisionRows(q, "REPLAN_REJECTED")
            /\ cal' = cal
        BY <1>5, <2>3 DEF Decide
      <3>2. Traced' /\ trace' \in [DOMAIN trace' -> Nat]
        BY <1>2, <1>5, <3>1, SettledTrace, Outcomes
      <3>3. /\ TypeOK' /\ Shapes' /\ Turns' /\ Ungated' /\ Agrees' /\ DecisionsOfGates'
            /\ GateNext
        BY <1>1, <1>2, <1>5, <2>1, <3>1, <3>2, Settles
      <3>4. History'
        <4>1. Applied' = Applied
          BY <1>2, <1>5, <3>1 DEF Applied, Inv, TypeOK
        <4> QED
          BY <3>1, <4>1, HistoryKept DEF Inv
      <3> QED
        BY <3>2, <3>3, <3>4 DEF Inv, StepOK
    <2> QED
      BY <2>2, <2>3
  <1> QED
    BY <1>3, <1>4, <1>5 DEF ApplyReplanResponse

-----------------------------------------------------------------------------
(* The theorems.                                                           *)

(* The tables start empty and every placement at revision 0. *)
LEMMA InitInv == ReplanInit => Inv
  <1> SUFFICES ASSUME ReplanInit
               PROVE  Inv
    OBVIOUS
  <1>1. DOMAIN proposals = {} /\ DOMAIN gates = {} /\ decisions = {} /\ DOMAIN trace = {}
    BY DEF ReplanInit, EmptyBag, SetToBag
  <1>2. TypeOK
    BY <1>1 DEF ReplanInit, TypeOK, EmptyBag, SetToBag
  <1>3. Turns
    BY DEF ReplanInit, Turns, TurnOK, Idle
  <1>4. Shapes /\ Ungated /\ Agrees /\ DecisionsOfGates /\ Traced
    BY <1>1 DEF Shapes, Ungated, Agrees, DecisionsOfGates, Traced, OutcomeTracedOnce
  <1>5. History
    <2>1. Applied = {}
      BY <1>1 DEF Applied
    <2>2. \A a \in DOMAIN cal : cal[a].rev = 0
      BY DEF ReplanInit
    <2> QED
      BY <2>1, <2>2 DEF History
  <1> QED
    BY <1>2, <1>3, <1>4, <1>5 DEF Inv

(* Every step keeps the invariant and is a step of the abstract gate, or   *)
(* none of its business.                                                   *)
LEMMA EveryStep == Inv /\ [ReplanNext]_vars => StepOK
  <1> SUFFICES ASSUME Inv, [ReplanNext]_vars
               PROVE  StepOK
    OBVIOUS
  <1>1. CASE UNCHANGED vars
    <2>1. UNCHANGED <<proposals, gates, decisions, trace, cal, calls, pc>>
      BY <1>1 DEF vars, rows
    <2>2. Turns' /\ calls' \in Nat /\ DOMAIN pc' = Processes /\ pc' = [ x \in Processes |-> pc'[x] ]
      BY <2>1 DEF Inv, Turns, TypeOK
    <2> QED
      BY <2>1, <2>2, QuietStep, QuietMapping DEF StepOK
  <1>2. CASE \/ \E j \in Jobs : UpdateWorkflowCas(j)
             \/ \E a \in DOMAIN cal, t \in ArrivalTimes : RecordMaterialDelay(a, t)
    BY <1>2, EditSteps
  <1>3. ASSUME NEW p \in Processes, Begin(p)
        PROVE  StepOK
    <2>1. CASE \E r \in Requests : ReadWorkflows(p, r)
      BY <2>1, MemorySteps
    <2>2. CASE \E q \in DOMAIN proposals : RequestReplanApproval(p, q)
      BY <2>2, MemorySteps
    <2>3. CASE \E q \in DOMAIN gates, x \in Actions : ClaimReplanResponse(p, q, x)
      BY <2>3, ClaimStep
    <2> QED
      BY <1>3, <2>1, <2>2, <2>3 DEF Begin
  <1>4. ASSUME NEW p \in Processes, Work(p)
        PROVE  StepOK
    <2>1. CASE ReadCalendar(p) \/ PlanReplan(p) \/ ResumeTool(p)
      BY <2>1, MemorySteps
    <2>2. CASE SaveProposal(p)
      BY <2>2, SaveStep
    <2>3. CASE CreateReplanGate(p)
      BY <2>3, CreateStep
    <2>4. CASE BindGateInterrupt(p)
      BY <2>4, BindStep
    <2>5. CASE ApplyReplanResponse(p)
      BY <2>5, ApplyStep
    <2> QED
      BY <1>4, <2>1, <2>2, <2>3, <2>4, <2>5 DEF Work, Resume
  <1>5. ASSUME NEW p \in Processes, Fail(p)
        PROVE  StepOK
    BY <1>5, MemorySteps
  <1> QED
    BY <1>1, <1>2, <1>3, <1>4, <1>5 DEF ReplanNext

(* The inductive invariant holds in every reachable state. *)
LEMMA Invariance == ReplanSpec => []Inv
  <1>1. Inv /\ [ReplanNext]_vars => Inv'
    BY EveryStep DEF StepOK
  <1> QED
    BY <1>1, InitInv, PTL DEF ReplanSpec

(* create_replan_gate and claim_replan_response check the proposal outside *)
(* the transaction that settles it; whatever the order, a gate that can be *)
(* answered is on an open proposal, a settled gate agrees with how its     *)
(* proposal was settled, and every affected job's trace says so once.      *)
THEOREM GateAlwaysAgreesWithProposal == ReplanSpec => []GateAgreesWithProposal
  <1>1. Inv => GateAgreesWithProposal
    <2> SUFFICES ASSUME Inv
                 PROVE  GateAgreesWithProposal
      OBVIOUS
    <2>1. ASSUME NEW q \in DOMAIN gates, gates[q].status = "RESOLVED"
          PROVE  { d \in decisions : d.proposal = q } = {[proposal |-> q, action |-> gates[q].action]}
      <3> DEFINE e == [proposal |-> q, action |-> gates[q].action]
      <3>1. e \in decisions /\ e.proposal = q
        BY <2>1 DEF Inv, Agrees
      <3>2. \A d \in decisions : d.proposal = q => d = e
        BY DEF Inv, DecisionsOfGates
      <3> HIDE DEF e
      <3>3. { d \in decisions : d.proposal = q } = {e}
        BY <3>1, <3>2
      <3> QED
        BY <3>3 DEF e
    <2> QED
      BY <2>1 DEF Inv, Agrees, Traced, GateAgreesWithProposal
  <1> QED
    BY <1>1, Invariance, PTL

(* apply_replan_response compares every calendar revision before it moves  *)
(* a placement: no approval overwrites another, whatever was planned and   *)
(* approved in between, and the calendar is the approved history.          *)
THEOREM CalendarAlwaysAppliedHistory == ReplanSpec => []CalendarIsAppliedHistory
  <1>1. Inv => CalendarIsAppliedHistory
    <2> DEFINE by(a, r) == { q \in DOMAIN proposals :
                               proposals[q] = "APPLIED" /\ a \in q.moved /\ q.calRev[a] = r }
    <2> SUFFICES ASSUME Inv, NEW a \in DOMAIN cal
                 PROVE  /\ \A r \in 0 .. cal[a].rev - 1 : Cardinality(by(a, r)) = 1
                        /\ by(a, cal[a].rev) = {}
                        /\ cal[a].rev > 0 =>
                              \A q \in by(a, cal[a].rev - 1) :
                                  q.after[a] = [start |-> cal[a].start, end |-> cal[a].end]
      BY DEF CalendarIsAppliedHistory
    <2>1. \A r : by(a, r) = By(Applied, a, r)
      BY DEF By, Applied
    <2> HIDE DEF by
    <2>2. ASSUME NEW r \in 0 .. cal[a].rev - 1
          PROVE  Cardinality(by(a, r)) = 1
      <3>1. PICK q : By(Applied, a, r) = {q}
        BY DEF Inv, History
      <3> QED
        BY <2>1, <3>1, FS_Singleton
    <2>3. by(a, cal[a].rev) = {}
      <3>1. cal[a].rev \in Nat /\ \A q \in Applied : a \in q.moved => q.calRev[a] \in 0 .. cal[a].rev - 1
        BY DEF Inv, History
      <3>2. By(Applied, a, cal[a].rev) = {}
        BY <3>1 DEF By
      <3> QED
        BY <2>1, <3>2
    <2> QED
      BY <2>1, <2>2, <2>3 DEF Inv, History
  <1> QED
    BY <1>1, Invariance, PTL

(* M7's tables keep the promise of every owner gate: an answer is claimed  *)
(* before it is decided, the decision is the claimed answer, and a decided *)
(* or invalidated gate stays so.                                           *)
THEOREM ReplanGateAlwaysDecidesOnce == ReplanSpec => ReplanGateDecidesOnce
  <1>1. ReplanInit => Gate!GateInit
    BY DEF ReplanInit, Gate!GateInit, GatesAt, ClaimedAnswers, RecordedAnswers
  <1>2. Inv /\ [ReplanNext]_vars => [GateNext]_(Gate!gvars)
    BY EveryStep DEF StepOK
  <1> QED
    BY <1>1, <1>2, Invariance, PTL DEF ReplanSpec, ReplanGateDecidesOnce, Gate!GateSpec, GateNext

-----------------------------------------------------------------------------
(* The proposals.  First one ordering (the loop of _evaluate_order, by a   *)
(* smallest counterexample), then the ranking of all of them, then what    *)
(* the rows and the turns keep of it.                                      *)

(* A set of numbers that is not empty has a least one.                     *)
LEMMA LeastNat ==
    ASSUME NEW S \in SUBSET Nat, S # {}
    PROVE  \E x \in S : \A y \in S : x <= y
  <1>1. PICK x \in S : \A y \in S : ~(<<y, x>> \in OpToRel(<, Nat))
    BY NatLessThanWellFounded, WFMin
  <1>2. \A y \in S : ~(y < x)
    BY <1>1 DEF OpToRel
  <1> QED
    BY <1>2

(* f tells what _evaluate_order has after each of the first n assignments  *)
(* of an ordering.                                                         *)
Tells(w, k, m, o, from, n, f) ==
    f = [ i \in 0 .. n |-> IF i = 0 THEN Fresh(from) ELSE PlaceNext(w, k, m, f[i - 1], o[i]) ]

(* The loop of _evaluate_order has such a history.                         *)
LEMMA LoopExists ==
    ASSUME NEW w, NEW k, NEW m, NEW o, NEW from, NEW n \in Nat
    PROVE  \E f : Tells(w, k, m, o, from, n, f)
  <1> DEFINE Has(x) == \E f : Tells(w, k, m, o, from, x, f)
             Bad == {x \in Nat : ~Has(x)}
  <1> SUFFICES ASSUME Bad # {} PROVE FALSE
    OBVIOUS
  <1>1. PICK x \in Bad : \A y \in Bad : x <= y
    <2>1. Bad \in SUBSET Nat
      OBVIOUS
    <2> HIDE DEF Bad
    <2> QED
      BY <2>1, LeastNat
  <1>2. x \in Nat /\ ~Has(x)
    OBVIOUS
  <1>3. x # 0
    <2>1. Has(0)
      <3> DEFINE f == [ i \in 0 .. 0 |-> Fresh(from) ]
      <3>1. Tells(w, k, m, o, from, 0, f)
        BY DEF Tells
      <3> QED
        BY <3>1
    <2> QED
      BY <1>2, <2>1
  <1>4. x - 1 \in Nat /\ x - 1 \notin Bad
    <2> HIDE DEF Bad
    <2>1. x - 1 \in Nat /\ ~(x <= x - 1)
      BY <1>2, <1>3
    <2> QED
      BY <1>1, <2>1
  <1>5. PICK f : Tells(w, k, m, o, from, x - 1, f)
    BY <1>4
  <1> DEFINE g == [ i \in 0 .. x |-> IF i = x THEN PlaceNext(w, k, m, f[x - 1], o[x]) ELSE f[i] ]
             h == [ i \in 0 .. x |-> IF i = 0 THEN Fresh(from) ELSE PlaceNext(w, k, m, g[i - 1], o[i]) ]
  <1>6. ASSUME NEW i \in 0 .. x PROVE g[i] = h[i]
    <2>1. CASE i = 0
      <3>1. f[0] = Fresh(from)
        BY <1>4, <1>5 DEF Tells
      <3> QED
        BY <1>2, <1>3, <2>1, <3>1
    <2>2. CASE i # 0
      <3>1. i - 1 \in 0 .. x /\ i - 1 # x /\ g[i - 1] = f[i - 1]
        BY <1>2, <2>2
      <3>2. i # x => i \in 0 .. x - 1 /\ f[i] = PlaceNext(w, k, m, f[i - 1], o[i])
        BY <1>2, <1>5, <2>2 DEF Tells
      <3> QED
        BY <1>2, <2>2, <3>1, <3>2
    <2> QED
      BY <2>1, <2>2
  <1>7. g = h
    <2> HIDE DEF h
    <2>1. DOMAIN h = 0 .. x /\ h = [ i \in 0 .. x |-> h[i] ]
      BY DEF h
    <2>2. \A i \in 0 .. x : g[i] = h[i]
      BY <1>6
    <2>3. g = [ i \in 0 .. x |-> g[i] ]
      OBVIOUS
    <2> HIDE DEF g
    <2> QED
      BY <2>1, <2>2, <2>3
  <1>8. Has(x)
    BY <1>7 DEF Tells
  <1> QED
    BY <1>2, <1>8

(* What an assignment of the order is given: its duration, the working day,*)
(* its deadline, and the way from the one before.                          *)
Slot(w, k, o, from, pl, i) ==
    /\ pl[i] \in [id : DOMAIN w.assign, start : Nat, end : Nat]
    /\ pl[i].id = o[i]
    /\ pl[i].end = pl[i].start + (k[o[i]].end - k[o[i]].start)
    /\ from <= pl[i].start /\ pl[i].end <= w.day[2]
    /\ w.assign[o[i]].deadline # None => pl[i].end <= w.assign[o[i]].deadline
    /\ i > 1 => /\ pl[i - 1].end <= pl[i].start
                /\ w.assign[o[i - 1]].job # w.assign[o[i]].job =>
                      \E r \in RoutesBetween(w, w.assign[o[i - 1]].job, w.assign[o[i]].job) :
                          pl[i - 1].end + r.time <= pl[i].start

(* What _evaluate_order has after n assignments it could place.            *)
Kept(w, k, o, from, c, n) ==
    /\ c = [ok |-> c.ok, cursor |-> c.cursor, prev |-> c.prev, place |-> c.place,
            idle |-> c.idle, travel |-> c.travel, legs |-> c.legs, conditional |-> c.conditional]
    /\ c.ok =>
        /\ c.cursor \in Nat /\ from <= c.cursor /\ c.idle \in Nat /\ c.travel \in Nat
        /\ c.place \in Seq([id : DOMAIN w.assign, start : Nat, end : Nat]) /\ Len(c.place) = n
        /\ n = 0 => c.prev = None
        /\ n > 0 => c.prev = w.assign[o[n]].job /\ c.cursor = c.place[n].end
        /\ \A i \in 1 .. n : Slot(w, k, o, from, c.place, i)

(* Placements are longer than nothing.                                     *)
CalendarOK(w, k) ==
    \A a \in DOMAIN w.assign : k[a].start \in Nat /\ k[a].end \in Nat /\ k[a].start < k[a].end

(* Material that is waited for comes at some time.                         *)
AwaitedOK(w, m) ==
    \A a \in DOMAIN w.assign :
        m[a] # None /\ m[a].blocking /\ m[a].status = "EXPECTED" => m[a].at \in Nat

(* The first round of the loop starts with nothing placed.                 *)
LEMMA FreshKept ==
    ASSUME NEW w, NEW k, NEW o, NEW from \in Nat
    PROVE  Kept(w, k, o, from, Fresh(from), 0)
  <1>1. <<>> \in Seq([id : DOMAIN w.assign, start : Nat, end : Nat]) /\ Len(<<>>) = 0
    OBVIOUS
  <1> QED
    BY <1>1 DEF Kept, Fresh

(* Each further round places one assignment or gives up.                   *)
LEMMA NextKept ==
    ASSUME NEW w, NEW k, NEW m, NEW o, NEW from \in Nat, NEW c, NEW n \in Nat,
           WorldOK(w), CalendarOK(w, k), AwaitedOK(w, m), o[n + 1] \in DOMAIN w.assign,
           Kept(w, k, o, from, c, n)
    PROVE  Kept(w, k, o, from, PlaceNext(w, k, m, c, o[n + 1]), n + 1)
  <1> DEFINE a == o[n + 1]
             job == w.assign[a].job
             moves == c.prev # None /\ c.prev # job
             legs == IF moves THEN RoutesBetween(w, c.prev, job) ELSE {}
             leg == CHOOSE r \in legs : TRUE
             cursor == c.cursor + (IF legs # {} THEN leg.time ELSE 0)
             waits == m[a].blocking /\ m[a].status = "EXPECTED"
             earliest == IF waits /\ m[a].at > cursor THEN m[a].at ELSE cursor
             end == earliest + (k[a].end - k[a].start)
             d == PlaceNext(w, k, m, c, a)
             x == [id |-> a, start |-> earliest, end |-> end]
             S == [id : DOMAIN w.assign, start : Nat, end : Nat]
  <1>1. \/ d = Rejected(c)
        \/ /\ d = [c EXCEPT !.cursor = end, !.prev = job, !.place = Append(@, x),
                            !.idle = @ + (earliest - cursor),
                            !.travel = @ + (IF moves THEN leg.time ELSE 0),
                            !.legs = IF moves THEN Append(@, leg) ELSE @,
                            !.conditional = @ \/ waits]
           /\ c.ok /\ ~(moves /\ legs = {}) /\ m[a] # None
           /\ ~(end > w.day[2]) /\ ~(w.assign[a].deadline # None /\ end > w.assign[a].deadline)
    BY DEF PlaceNext
  <1>2. CASE d = Rejected(c)
    BY <1>2 DEF Kept, Rejected
  <1>3. CASE /\ d = [c EXCEPT !.cursor = end, !.prev = job, !.place = Append(@, x),
                              !.idle = @ + (earliest - cursor),
                              !.travel = @ + (IF moves THEN leg.time ELSE 0),
                              !.legs = IF moves THEN Append(@, leg) ELSE @,
                              !.conditional = @ \/ waits]
             /\ c.ok /\ ~(moves /\ legs = {}) /\ m[a] # None
             /\ ~(end > w.day[2]) /\ ~(w.assign[a].deadline # None /\ end > w.assign[a].deadline)
    <2>1. c.cursor \in Nat /\ from <= c.cursor /\ c.idle \in Nat /\ c.travel \in Nat
      BY <1>3 DEF Kept
    <2>2. legs # {} => leg \in legs /\ leg.time \in Nat
      <3>1. \A r \in RoutesBetween(w, c.prev, job) : r.time \in Nat
        BY DEF RoutesBetween, WorldOK, RouteOK
      <3> QED
        BY <3>1
    <2> HIDE DEF leg, legs, moves
    <2>3. cursor \in Nat /\ c.cursor <= cursor
      BY <2>1, <2>2
    <2>4. waits => m[a].at \in Nat
      BY <1>3 DEF AwaitedOK
    <2> HIDE DEF cursor, waits
    <2>5. earliest \in Nat /\ cursor <= earliest
      BY <2>3, <2>4
    <2>6. k[a].start \in Nat /\ k[a].end \in Nat /\ k[a].start < k[a].end
      BY DEF CalendarOK
    <2> HIDE DEF earliest
    <2>7. end \in Nat
      BY <2>5, <2>6
    <2>8. end <= w.day[2] /\ (w.assign[a].deadline # None => end <= w.assign[a].deadline)
      <3>1. w.day[2] \in Nat /\ w.assign[a].deadline \in Nat \cup {None}
        BY DEF WorldOK, AssignmentOK
      <3> QED
        BY <1>3, <2>7, <3>1
    <2> HIDE DEF end
    <2>9. x \in S /\ c.place \in Seq(S) /\ Len(c.place) = n
      BY <1>3, <2>5, <2>7 DEF Kept
    <2> DEFINE pl == Append(c.place, x)
    <2>10. /\ pl \in Seq(S) /\ Len(pl) = n + 1 /\ pl[n + 1] = x
           /\ \A i \in 1 .. n : pl[i] = c.place[i]
      <3> HIDE DEF x, S
      <3> QED
        BY <2>9
    <2>11. d = [ok |-> c.ok, cursor |-> end, prev |-> job, place |-> pl,
                idle |-> c.idle + (earliest - cursor),
                travel |-> c.travel + (IF moves THEN leg.time ELSE 0),
                legs |-> IF moves THEN Append(c.legs, leg) ELSE c.legs,
                conditional |-> c.conditional \/ waits]
      <3>1. c = [ok |-> c.ok, cursor |-> c.cursor, prev |-> c.prev, place |-> c.place, idle |-> c.idle,
                 travel |-> c.travel, legs |-> c.legs, conditional |-> c.conditional]
        BY DEF Kept
      <3> HIDE DEF d, x, job
      <3> QED
        BY <1>3, <3>1
    <2>12. moves => legs # {}
      BY <1>3
    <2>13. d.idle \in Nat /\ d.travel \in Nat
      BY <2>1, <2>2, <2>3, <2>5, <2>11, <2>12
    <2>14. ASSUME NEW i \in 1 .. n PROVE Slot(w, k, o, from, pl, i)
      <3>1. Slot(w, k, o, from, c.place, i)
        BY <1>3 DEF Kept
      <3>2. pl[i] = c.place[i] /\ (i > 1 => pl[i - 1] = c.place[i - 1])
        BY <2>10
      <3> HIDE DEF pl
      <3> QED
        BY <3>1, <3>2 DEF Slot
    <2>15. Slot(w, k, o, from, pl, n + 1)
      <3>1. /\ x.id = o[n + 1] /\ x.start = earliest /\ x.end = end
            /\ x.end = x.start + (k[o[n + 1]].end - k[o[n + 1]].start)
        BY DEF end
      <3>2. from <= x.start
        BY <2>1, <2>3, <2>5, <3>1
      <3>3. ASSUME n + 1 > 1
            PROVE  /\ pl[n].end <= x.start
                   /\ w.assign[o[n]].job # job =>
                         \E r \in RoutesBetween(w, w.assign[o[n]].job, job) : pl[n].end + r.time <= x.start
        <4>1. n \in 1 .. n /\ n > 0
          BY <3>3
        <4>2. c.prev = w.assign[o[n]].job /\ c.cursor = c.place[n].end /\ pl[n] = c.place[n]
          BY <1>3, <2>10, <4>1 DEF Kept
        <4>3. o[n] \in DOMAIN w.assign
          <5>1. Slot(w, k, o, from, c.place, n)
            BY <1>3, <4>1 DEF Kept
          <5> QED
            BY <5>1 DEF Slot
        <4>4. c.prev # None
          BY <4>2, <4>3 DEF WorldOK, AssignmentOK
        <4>5. ASSUME c.prev # job
              PROVE  leg \in RoutesBetween(w, c.prev, job) /\ cursor = c.cursor + leg.time
          BY <2>2, <2>12, <4>4, <4>5 DEF moves, legs, cursor
        <4>6. pl[n].end <= x.start
          <5>1. pl[n].end = c.cursor
            BY <4>2
          <5> HIDE DEF pl, x
          <5> QED
            BY <2>1, <2>3, <2>5, <3>1, <5>1
        <4>7. ASSUME c.prev # job PROVE pl[n].end + leg.time <= x.start
          <5>1. pl[n].end = c.cursor /\ cursor = c.cursor + leg.time
            BY <4>2, <4>5, <4>7
          <5> QED
            BY <2>5, <3>1, <5>1
        <4> QED
          BY <4>2, <4>5, <4>6, <4>7
      <3>4. (n + 1) - 1 = n /\ pl[n + 1] = x
        BY <2>10
      <3> HIDE DEF pl, x
      <3> QED
        BY <2>8, <2>9, <3>1, <3>2, <3>3, <3>4 DEF Slot
    <2>16. \A i \in 1 .. n + 1 : Slot(w, k, o, from, pl, i)
      <3>1. \A i \in 1 .. n + 1 : i \in 1 .. n \/ i = n + 1
        OBVIOUS
      <3> QED
        BY <2>14, <2>15, <3>1
    <2>17. pl[n + 1].end = end
      BY <2>10
    <2> HIDE DEF d, pl
    <2>18. /\ d.cursor = end /\ d.prev = job /\ d.place = pl
           /\ d = [ok |-> d.ok, cursor |-> d.cursor, prev |-> d.prev, place |-> d.place,
                   idle |-> d.idle, travel |-> d.travel, legs |-> d.legs, conditional |-> d.conditional]
      BY <2>11
    <2>19. from <= end
      BY <2>1, <2>3, <2>5, <2>6 DEF end
    <2>20. Kept(w, k, o, from, d, n + 1)
      BY <2>7, <2>10, <2>13, <2>16, <2>17, <2>18, <2>19 DEF Kept
    <2> QED
      BY <2>20 DEF d
  <1> QED
    BY <1>1, <1>2, <1>3

(* So does the whole loop.                                                 *)
LEMMA OrderKept ==
    ASSUME NEW w, NEW k, NEW m, NEW from \in Nat, NEW n \in Nat, NEW o \in [1 .. n -> DOMAIN w.assign],
           WorldOK(w), CalendarOK(w, k), AwaitedOK(w, m)
    PROVE  Kept(w, k, o, from, PlaceAll(w, k, m, o, from), n)
  <1> DEFINE f == CHOOSE f : Tells(w, k, m, o, from, n, f)
             Bad == {i \in 0 .. n : ~Kept(w, k, o, from, f[i], i)}
  <1>1. Len(o) = n
    OBVIOUS
  <1>2. PlaceAll(w, k, m, o, from) = f[n]
    BY <1>1 DEF PlaceAll, Tells
  <1>3. Tells(w, k, m, o, from, n, f)
    BY LoopExists
  <1> HIDE DEF f
  <1>4. f[0] = Fresh(from) /\ \A i \in 1 .. n : f[i] = PlaceNext(w, k, m, f[i - 1], o[i])
    BY <1>3 DEF Tells
  <1>5. Bad = {}
    <2> SUFFICES ASSUME Bad # {} PROVE FALSE
      OBVIOUS
    <2>1. PICK i \in Bad : \A j \in Bad : i <= j
      <3>1. Bad \in SUBSET Nat
        OBVIOUS
      <3> HIDE DEF Bad
      <3> QED
        BY <3>1, LeastNat
    <2>2. i \in 0 .. n /\ ~Kept(w, k, o, from, f[i], i)
      OBVIOUS
    <2>3. i # 0
      BY <1>4, <2>2, FreshKept
    <2>4. i \in 1 .. n /\ i - 1 \in Nat /\ i - 1 \in 0 .. n /\ (i - 1) + 1 = i /\ ~(i <= i - 1)
      BY <2>2, <2>3
    <2>5. i - 1 \notin Bad
      <3> HIDE DEF Bad
      <3> QED
        BY <2>1, <2>4
    <2>6. Kept(w, k, o, from, f[i - 1], i - 1)
      BY <2>4, <2>5
    <2>7. o[(i - 1) + 1] \in DOMAIN w.assign
      BY <2>4
    <2>8. Kept(w, k, o, from, PlaceNext(w, k, m, f[i - 1], o[(i - 1) + 1]), (i - 1) + 1)
      BY <2>4, <2>6, <2>7, NextKept
    <2> QED
      BY <1>4, <2>2, <2>4, <2>8
  <1> QED
    BY <1>2, <1>5

(* Lists of n numbers for the members of E.                                *)
Lists(E, n, R) == R \in [E -> [1 .. n -> Nat]]

(* Among lists of numbers of one length, one is lexicographically first.   *)
LEMMA SomeFirst ==
    ASSUME NEW E, E # {}, NEW n \in Nat, NEW R, Lists(E, n, R)
    PROVE  \E c \in E : \A d \in E : R[c] = R[d] \/ RanksBefore(R[c], R[d])
  <1> DEFINE Same(c, d, i) == \A j \in 1 .. i : R[c][j] = R[d][j]
             Less(c, d, i) == \E j \in 1 .. i : R[c][j] < R[d][j] /\ \A l \in 1 .. j - 1 : R[c][l] = R[d][l]
             Leads(c, i) == \A d \in E : Same(c, d, i) \/ Less(c, d, i)
             Bad == {i \in 0 .. n : ~ \E c \in E : Leads(c, i)}
  <1>1. \A c \in E : \A j \in 1 .. n : R[c][j] \in Nat
    BY DEF Lists
  <1>2. Bad = {}
    <2> SUFFICES ASSUME Bad # {} PROVE FALSE
      OBVIOUS
    <2>1. PICK i \in Bad : \A j \in Bad : i <= j
      <3>1. Bad \in SUBSET Nat
        OBVIOUS
      <3> HIDE DEF Bad
      <3> QED
        BY <3>1, LeastNat
    <2>2. i \in 0 .. n /\ ~ \E c \in E : Leads(c, i)
      OBVIOUS
    <2>3. i # 0
      BY <2>2
    <2>4. i \in 1 .. n /\ i \in Nat /\ i - 1 \in 0 .. n /\ ~(i <= i - 1)
      BY <2>2, <2>3
    <2>5. i - 1 \notin Bad
      <3> HIDE DEF Bad
      <3> QED
        BY <2>1, <2>4
    <2>6. PICK c \in E : Leads(c, i - 1)
      BY <2>4, <2>5
    <2> HIDE DEF Bad
    <2> DEFINE Alike == {d \in E : Same(c, d, i - 1)}
               V == {R[d][i] : d \in Alike}
    <2>7. V \in SUBSET Nat /\ V # {}
      <3>1. c \in Alike /\ \A d \in Alike : d \in E
        OBVIOUS
      <3>2. \A d \in Alike : R[d][i] \in Nat
        BY <1>1, <2>4, <3>1
      <3> HIDE DEF Alike
      <3> QED
        BY <3>1, <3>2
    <2>8. PICK v \in V : \A u \in V : v <= u
      <3> HIDE DEF V
      <3> QED
        BY <2>7, LeastNat
    <2>9. PICK e \in E : Same(c, e, i - 1) /\ R[e][i] = v
      <3> HIDE DEF Same
      <3> QED
        BY <2>8
    <2> HIDE DEF V
    <2>10. ASSUME NEW d \in E PROVE Same(e, d, i) \/ Less(e, d, i)
      <3>1. CASE Same(c, d, i - 1)
        <4>1. R[e][i] <= R[d][i]
          <5>1. d \in Alike
            BY <3>1
          <5>2. R[d][i] \in V
            <6> HIDE DEF Alike
            <6> QED
              BY <5>1 DEF V
          <5> HIDE DEF V
          <5> QED
            BY <2>8, <2>9, <5>2
        <4>2. Same(e, d, i - 1)
          BY <2>9, <3>1
        <4>3. \A j \in 1 .. i : j \in 1 .. i - 1 \/ j = i
          BY <2>4
        <4>4. CASE R[e][i] = R[d][i]
          BY <4>2, <4>3, <4>4
        <4>5. CASE R[e][i] # R[d][i]
          <5>1. R[e][i] < R[d][i]
            <6>1. R[e][i] \in Nat /\ R[d][i] \in Nat
              BY <1>1, <2>4
            <6> QED
              BY <4>1, <4>5, <6>1
          <5>2. i \in 1 .. i
            BY <2>4
          <5>3. Less(e, d, i)
            BY <4>2, <5>1, <5>2
          <5> QED
            BY <5>3
        <4> QED
          BY <4>4, <4>5
      <3>2. CASE Less(c, d, i - 1)
        <4>1. PICK j \in 1 .. i - 1 : R[c][j] < R[d][j] /\ \A l \in 1 .. j - 1 : R[c][l] = R[d][l]
          BY <3>2
        <4>2. j \in 1 .. i /\ \A l \in 1 .. j - 1 : l \in 1 .. i - 1
          BY <2>4
        <4>3. R[e][j] < R[d][j] /\ \A l \in 1 .. j - 1 : R[e][l] = R[d][l]
          BY <2>9, <4>1, <4>2
        <4> QED
          BY <4>2, <4>3
      <3> QED
        BY <2>6, <3>1, <3>2
    <2>11. Leads(e, i)
      BY <2>10
    <2> QED
      BY <2>2, <2>11
  <1>3. PICK c \in E : Leads(c, n)
    <2>1. n \in 0 .. n
      OBVIOUS
    <2> HIDE DEF Leads
    <2> QED
      BY <1>2, <2>1
  <1>4. ASSUME NEW d \in E PROVE R[c] = R[d] \/ RanksBefore(R[c], R[d])
    <2>1. CASE Same(c, d, n)
      <3>1. R[c] \in [1 .. n -> Nat] /\ R[d] \in [1 .. n -> Nat]
        BY DEF Lists
      <3>2. R[c] = R[d]
        BY <2>1, <3>1
      <3> QED
        BY <3>2
    <2>2. CASE Less(c, d, n)
      <3>1. DOMAIN R[c] = 1 .. n
        BY DEF Lists
      <3> QED
        BY <2>2, <3>1 DEF RanksBefore
    <2> QED
      BY <1>3, <2>1, <2>2
  <1> QED
    BY <1>4

(* Numbers after three numbers.                                            *)
LEMMA AfterThree ==
    ASSUME NEW h \in Seq(Nat), NEW g \in Seq(Nat), Len(h) = 3
    PROVE  /\ h \o g \in [1 .. Len(g) + 3 -> Nat]
           /\ \A i \in 1 .. Len(g) : (h \o g)[i + 3] = g[i]
  <1>1. /\ h \o g \in Seq(Nat) /\ Len(h \o g) = 3 + Len(g) /\ Len(g) \in Nat
        /\ \A i \in 1 .. 3 + Len(g) : (h \o g)[i] = IF i <= 3 THEN h[i] ELSE g[i - 3]
    <2>1. /\ h \o g \in Seq(Nat) /\ Len(h \o g) = Len(h) + Len(g)
          /\ \A i \in 1 .. Len(h) + Len(g) : (h \o g)[i] = IF i <= Len(h) THEN h[i] ELSE g[i - Len(h)]
      BY ConcatProperties, Zenon
    <2>2. Len(g) \in Nat
      OBVIOUS
    <2> QED
      BY <2>1, <2>2, Zenon
  <1> DEFINE s == h \o g
  <1> HIDE DEF s
  <1>2. s \in [1 .. Len(g) + 3 -> Nat]
    <2>1. s \in Seq(Nat) /\ Len(s) = Len(g) + 3
      BY <1>1 DEF s
    <2> QED
      BY <2>1
  <1>3. ASSUME NEW i \in 1 .. Len(g) PROVE s[i + 3] = g[i]
    <2>1. i + 3 \in 1 .. 3 + Len(g) /\ ~(i + 3 <= 3) /\ (i + 3) - 3 = i
      BY <1>1
    <2>2. s[i + 3] = IF i + 3 <= 3 THEN h[i + 3] ELSE g[(i + 3) - 3]
      BY <1>1, <2>1 DEF s
    <2> QED
      BY <2>1, <2>2
  <1> QED
    BY <1>2, <1>3 DEF s

(* The key that an ordering is ranked by: numbers, the names last.         *)
Ranked(k, c, o, n) ==
    /\ OrderOf(c) = o
    /\ Rank(k, c) \in [1 .. n + 3 -> Nat]
    /\ \A i \in 1 .. n : Rank(k, c)[i + 3] = o[i]

(* An ordering that could be placed has such a key.                        *)
LEMMA RankIs ==
    ASSUME NEW w, NEW k, NEW from \in Nat, NEW n \in Nat, NEW o \in [1 .. n -> DOMAIN w.assign],
           NEW c, WorldOK(w), Kept(w, k, o, from, c, n), c.ok
    PROVE  Ranked(k, c, o, n)
  <1>1. /\ DOMAIN c.place = 1 .. n /\ c.idle \in Nat /\ c.travel \in Nat
        /\ \A i \in 1 .. n : c.place[i].id = o[i]
    BY DEF Kept, Slot
  <1>2. OrderOf(c) = o
    BY <1>1 DEF OrderOf
  <1> DEFINE changed == {i \in DOMAIN c.place : Moved(k, c.place[i])}
             N == Cardinality(changed)
             h == <<N, c.idle, c.travel>>
  <1>3. N \in Nat
    <2>1. IsFiniteSet(1 .. n)
      BY FS_Interval
    <2>2. IsFiniteSet(changed)
      BY <1>1, <2>1, FS_Subset
    <2> QED
      BY <2>2, FS_CardinalityType
  <1>4. Rank(k, c) = h \o o
    BY <1>2 DEF Rank, OrderOf
  <1>5. o \in [1 .. n -> Nat]
    BY DEF WorldOK
  <1> HIDE DEF N
  <1>6. h \in Seq(Nat) /\ Len(h) = 3
    BY <1>1, <1>3
  <1>7. o \in Seq(Nat) /\ Len(o) = n
    BY <1>5
  <1> HIDE DEF h
  <1>8. Rank(k, c) \in [1 .. n + 3 -> Nat] /\ \A i \in 1 .. n : Rank(k, c)[i + 3] = o[i]
    <2>1. /\ h \o o \in [1 .. Len(o) + 3 -> Nat]
          /\ \A i \in 1 .. Len(o) : (h \o o)[i + 3] = o[i]
      BY <1>6, <1>7, AfterThree, Zenon
    <2> QED
      BY <1>4, <1>7, <2>1, Zenon
  <1> QED
    BY <1>2, <1>8 DEF Ranked

(* The candidates plan ranks: the orderings that could be placed.          *)
Placeable(w, k, m, from, O) == {c \in {PlaceAll(w, k, m, o, from) : o \in O} : c.ok}

(* The least by the whole key is one of the orderings that could be kept.  *)
LEMMA BestIs ==
    ASSUME NEW w, NEW k, NEW m, NEW from \in Nat, NEW n \in Nat, NEW O \in SUBSET [1 .. n -> DOMAIN w.assign],
           WorldOK(w), CalendarOK(w, k), AwaitedOK(w, m),
           Placeable(w, k, m, from, O) # {}
    PROVE  Best(k, Placeable(w, k, m, from, O)) \in Placeable(w, k, m, from, O)
  <1> DEFINE E == Placeable(w, k, m, from, O)
             R == [c \in E |-> Rank(k, c)]
  <1>1. ASSUME NEW c \in E
        PROVE  \E o \in O : /\ c = PlaceAll(w, k, m, o, from) /\ o \in [1 .. n -> DOMAIN w.assign]
                            /\ Rank(k, c) \in [1 .. n + 3 -> Nat]
                            /\ \A i \in 1 .. n : Rank(k, c)[i + 3] = o[i]
    <2>1. PICK o \in O : c = PlaceAll(w, k, m, o, from) /\ c.ok
      BY DEF Placeable
    <2>2. o \in [1 .. n -> DOMAIN w.assign] /\ c.ok
      BY <2>1
    <2>3. Kept(w, k, o, from, c, n)
      BY <2>1, <2>2, OrderKept
    <2>4. Ranked(k, c, o, n)
      BY <2>2, <2>3, RankIs
    <2> QED
      BY <2>1, <2>2, <2>4 DEF Ranked
  <1>2. Lists(E, n + 3, R)
    BY <1>1 DEF Lists
  <1>3. PICK c \in E : \A d \in E : R[c] = R[d] \/ RanksBefore(R[c], R[d])
    <2> HIDE DEF R
    <2>1. n + 3 \in Nat
      OBVIOUS
    <2> QED
      BY <1>2, <2>1, SomeFirst
  <1>4. ASSUME NEW d \in E, R[c] = R[d] PROVE d = c
    <2>1. PICK o \in O : /\ c = PlaceAll(w, k, m, o, from) /\ o \in [1 .. n -> DOMAIN w.assign]
                         /\ \A i \in 1 .. n : Rank(k, c)[i + 3] = o[i]
      BY <1>1
    <2>2. PICK u \in O : /\ d = PlaceAll(w, k, m, u, from) /\ u \in [1 .. n -> DOMAIN w.assign]
                         /\ \A i \in 1 .. n : Rank(k, d)[i + 3] = u[i]
      BY <1>1
    <2>3. Rank(k, c) = Rank(k, d)
      BY <1>4
    <2>4. o = u
      BY <2>1, <2>2, <2>3
    <2> QED
      BY <2>1, <2>2, <2>4
  <1>5. \A d \in E : d = c \/ RanksBefore(Rank(k, c), Rank(k, d))
    BY <1>3, <1>4
  <1> QED
    BY <1>5 DEF Best

(* The placements of an ordering follow one another.                       *)
LEMMA InTurn ==
    ASSUME NEW w, NEW k, NEW o, NEW from \in Nat, NEW n \in Nat, NEW pl, CalendarOK(w, k),
           \A i \in 1 .. n : Slot(w, k, o, from, pl, i)
    PROVE  /\ \A i \in 1 .. n : /\ pl[i].start \in Nat /\ pl[i].end \in Nat
                                /\ pl[i].start < pl[i].end /\ o[i] \in DOMAIN w.assign
           /\ \A i, j \in 1 .. n : i < j => pl[i].end <= pl[j].start
  <1>1. ASSUME NEW i \in 1 .. n
        PROVE  /\ pl[i].start \in Nat /\ pl[i].end \in Nat
               /\ pl[i].start < pl[i].end /\ o[i] \in DOMAIN w.assign
    <2>1. /\ pl[i] \in [id : DOMAIN w.assign, start : Nat, end : Nat] /\ pl[i].id = o[i]
          /\ pl[i].end = pl[i].start + (k[o[i]].end - k[o[i]].start)
      BY DEF Slot
    <2>2. o[i] \in DOMAIN w.assign
      BY <2>1
    <2>3. k[o[i]].start \in Nat /\ k[o[i]].end \in Nat /\ k[o[i]].start < k[o[i]].end
      BY <2>2 DEF CalendarOK
    <2>4. pl[i].start \in Nat /\ pl[i].end \in Nat
      BY <2>1
    <2> QED
      BY <2>1, <2>2, <2>3, <2>4
  <1>2. ASSUME NEW i \in 1 .. n, i > 1 PROVE i - 1 \in 1 .. n /\ pl[i - 1].end <= pl[i].start
    BY <1>2 DEF Slot
  <1>3. ASSUME NEW i \in 1 .. n
        PROVE  \A j \in 1 .. n : i < j => pl[i].end <= pl[j].start
    <2> DEFINE Bad == {j \in 1 .. n : i < j /\ ~(pl[i].end <= pl[j].start)}
    <2>1. Bad = {}
      <3> SUFFICES ASSUME Bad # {} PROVE FALSE
        OBVIOUS
      <3>1. PICK j \in Bad : \A l \in Bad : j <= l
        <4>1. Bad \in SUBSET Nat
          OBVIOUS
        <4> HIDE DEF Bad
        <4> QED
          BY <4>1, LeastNat
      <3>2. j \in 1 .. n /\ i < j /\ ~(pl[i].end <= pl[j].start) /\ j > 1 /\ j \in Nat
        OBVIOUS
      <3>3. j - 1 \in 1 .. n /\ pl[j - 1].end <= pl[j].start
        BY <1>2, <3>2
      <3>4. j - 1 \notin Bad
        <4> HIDE DEF Bad
        <4>1. ~(j <= j - 1)
          BY <3>2
        <4> QED
          BY <3>1, <4>1
      <3>5. CASE j - 1 = i
        BY <3>2, <3>3, <3>5
      <3>6. CASE j - 1 # i
        <4>1. i < j - 1
          BY <3>2, <3>6
        <4>2. pl[i].end <= pl[j - 1].start
          BY <3>3, <3>4, <4>1
        <4>3. /\ pl[i].end \in Nat /\ pl[j].start \in Nat /\ pl[j - 1].start \in Nat /\ pl[j - 1].end \in Nat
              /\ pl[j - 1].start < pl[j - 1].end
          BY <1>1, <3>2, <3>3
        <4> HIDE DEF Bad
        <4> QED
          BY <3>2, <3>3, <4>2, <4>3
      <3> QED
        BY <3>5, <3>6
    <2> QED
      BY <2>1
  <1> QED
    BY <1>1, <1>3

(* What ProposalIsFeasible says of one proposal, but for what it moves.    *)
Judged(w, q) ==
    \A a \in DOMAIN q.after :
        /\ q.after[a].end - q.after[a].start = q.before[a].end - q.before[a].start
        /\ q.after[a].start >= w.now /\ q.after[a].start >= w.day[1]
        /\ q.after[a].end <= w.day[2]
        /\ w.assign[a].deadline # None => q.after[a].end <= w.assign[a].deadline
        /\ \A b \in DOMAIN q.after \ {a} :
              LET next  == q.after[b].start >= q.after[a].end
                  first == ~ \E c \in DOMAIN q.after \ {a, b} :
                               /\ q.after[c].start >= q.after[a].end
                               /\ q.after[c].end <= q.after[b].start
                  legs  == RoutesBetween(w, w.assign[a].job, w.assign[b].job)
              IN  /\ next \/ q.after[a].start >= q.after[b].end
                  /\ next /\ first /\ w.assign[a].job # w.assign[b].job =>
                        \E r \in legs : q.after[b].start >= q.after[a].end + r.time

(* Placements that could be written into the calendar.                     *)
Spans(w, q) ==
    /\ q.moved \subseteq DOMAIN q.after /\ DOMAIN q.after \subseteq DOMAIN w.assign
    /\ \A a \in DOMAIN q.after : /\ q.after[a].start \in Nat /\ q.after[a].end \in Nat
                                 /\ q.after[a].start < q.after[a].end

(* It keeps its promises, and one that moves nothing is what there was.    *)
Worthy(w, k, o, n, c, q) ==
    /\ Judged(w, q) /\ Spans(w, q)
    /\ q.moved = {} => \A i \in 1 .. n : c.place[i].start = k[o[i]].start

(* The proposal of an ordering without repetitions that could be placed.   *)
LEMMA ProposalJudged ==
    ASSUME NEW w, NEW k, NEW m, NEW r, NEW init, NEW from \in Nat, w.now <= from, w.day[1] <= from,
           NEW n \in Nat, NEW o, \A i, j \in 1 .. n : o[i] = o[j] => i = j,
           WorldOK(w), CalendarOK(w, k), NEW c, Kept(w, k, o, from, c, n), c.ok
    PROVE  Worthy(w, k, o, n, c, Proposal(w, k, m, r, init, c))
  <1> DEFINE pl == c.place
             q == Proposal(w, k, m, r, init, c)
             ids == {p.id : p \in ToSet(pl)}
             at == [a \in ids |-> CHOOSE p \in ToSet(pl) : p.id = a]
  <1>1. (\A i \in 1 .. n : Slot(w, k, o, from, pl, i)) /\ DOMAIN pl = 1 .. n
    BY DEF Kept
  <1>2. \A i \in 1 .. n : /\ pl[i].start \in Nat /\ pl[i].end \in Nat
                          /\ pl[i].start < pl[i].end /\ o[i] \in DOMAIN w.assign
    BY <1>1, InTurn, Zenon
  <1>3. \A i, j \in 1 .. n : i < j => pl[i].end <= pl[j].start
    BY <1>1, InTurn, Zenon
  <1>4. \A i \in 1 .. n : pl[i].id = o[i]
    BY <1>1 DEF Slot
  <1>5. ToSet(pl) = {pl[i] : i \in 1 .. n}
    BY <1>1 DEF ToSet
  <1> HIDE DEF pl
  <1>6. ids = {o[i] : i \in 1 .. n}
    BY <1>4, <1>5
  <1>7. ASSUME NEW i \in 1 .. n PROVE o[i] \in ids /\ at[o[i]] = pl[i]
    <2>1. o[i] \in ids
      BY <1>6
    <2>2. pl[i] \in ToSet(pl) /\ pl[i].id = o[i]
      BY <1>4, <1>5
    <2>3. \A p \in ToSet(pl) : p.id = o[i] => p = pl[i]
      BY <1>4, <1>5
    <2> QED
      BY <2>1, <2>2, <2>3
  <1>8. /\ q.moved = {a \in ids : Moved(k, at[a])}
        /\ q.before = [a \in ids |-> [start |-> k[a].start, end |-> k[a].end]]
        /\ q.after = [a \in ids |-> [start |-> at[a].start, end |-> at[a].end]]
    BY DEF Proposal, pl
  <1> HIDE DEF q, at, ids
  <1>9. DOMAIN q.after = {o[i] : i \in 1 .. n} /\ q.moved \subseteq DOMAIN q.after
    BY <1>6, <1>8
  <1>10. ASSUME NEW i \in 1 .. n
         PROVE  /\ q.after[o[i]].start = pl[i].start /\ q.after[o[i]].end = pl[i].end
                /\ q.before[o[i]].start = k[o[i]].start /\ q.before[o[i]].end = k[o[i]].end
    BY <1>7, <1>8
  <1>11. Spans(w, q)
    BY <1>2, <1>9, <1>10 DEF Spans
  <1>12. ASSUME q.moved = {}, NEW i \in 1 .. n PROVE pl[i].start = k[o[i]].start
    <2>1. ~Moved(k, pl[i])
      BY <1>7, <1>8, <1>12
    <2> QED
      BY <1>4, <2>1 DEF Moved
  <1>13. ASSUME NEW a \in DOMAIN q.after
         PROVE  /\ q.after[a].end - q.after[a].start = q.before[a].end - q.before[a].start
                /\ q.after[a].start >= w.now /\ q.after[a].start >= w.day[1]
                /\ q.after[a].end <= w.day[2]
                /\ w.assign[a].deadline # None => q.after[a].end <= w.assign[a].deadline
    <2>1. PICK i \in 1 .. n : a = o[i]
      BY <1>9
    <2>2. /\ pl[i].end = pl[i].start + (k[o[i]].end - k[o[i]].start)
          /\ from <= pl[i].start /\ pl[i].end <= w.day[2]
          /\ w.assign[o[i]].deadline # None => pl[i].end <= w.assign[o[i]].deadline
      BY <1>1 DEF Slot
    <2>3. pl[i].start \in Nat /\ k[o[i]].start \in Nat /\ k[o[i]].end \in Nat
      BY <1>2 DEF CalendarOK
    <2>4. w.now \in Nat /\ w.day[1] \in Nat
      BY DEF WorldOK
    <2> DEFINE x == q.after[a]
               y == q.before[a]
    <2>5. x.start = pl[i].start /\ x.end = pl[i].end /\ y.start = k[o[i]].start /\ y.end = k[o[i]].end
      BY <1>10, <2>1
    <2> HIDE DEF x, y
    <2>6. x.end - x.start = y.end - y.start /\ x.start >= w.now /\ x.start >= w.day[1]
      BY <2>2, <2>3, <2>4, <2>5
    <2>7. x.end <= w.day[2] /\ (w.assign[a].deadline # None => x.end <= w.assign[a].deadline)
      BY <2>1, <2>2, <2>5
    <2> QED
      BY <2>6, <2>7 DEF x, y
  <1>14. ASSUME NEW a \in DOMAIN q.after, NEW b \in DOMAIN q.after \ {a}
         PROVE  LET next  == q.after[b].start >= q.after[a].end
                    first == ~ \E d \in DOMAIN q.after \ {a, b} :
                                 /\ q.after[d].start >= q.after[a].end
                                 /\ q.after[d].end <= q.after[b].start
                    legs  == RoutesBetween(w, w.assign[a].job, w.assign[b].job)
                IN  /\ next \/ q.after[a].start >= q.after[b].end
                    /\ next /\ first /\ w.assign[a].job # w.assign[b].job =>
                          \E l \in legs : q.after[b].start >= q.after[a].end + l.time
    <2>1. PICK i \in 1 .. n : a = o[i]
      BY <1>9
    <2>2. PICK j \in 1 .. n : b = o[j]
      BY <1>9
    <2>3. i # j
      BY <2>1, <2>2
    <2>4. /\ q.after[a].start = pl[i].start /\ q.after[a].end = pl[i].end
          /\ q.after[b].start = pl[j].start /\ q.after[b].end = pl[j].end
      BY <1>10, <2>1, <2>2
    <2>5. /\ pl[i].start \in Nat /\ pl[i].end \in Nat /\ pl[i].start < pl[i].end
          /\ pl[j].start \in Nat /\ pl[j].end \in Nat /\ pl[j].start < pl[j].end
      BY <1>2
    <2>6. CASE j < i
      <3>1. pl[j].end <= pl[i].start
        BY <1>3, <2>6
      <3>2. pl[i].start >= pl[j].end /\ ~(pl[j].start >= pl[i].end)
        BY <2>5, <3>1
      <3> QED
        BY <2>4, <3>2
    <2>7. CASE i < j
      <3>1. pl[i].end <= pl[j].start
        BY <1>3, <2>7
      <3>2. pl[j].start >= pl[i].end
        BY <2>5, <3>1
      <3>3. CASE j = i + 1
        <4>1. Slot(w, k, o, from, pl, j) /\ j > 1 /\ j - 1 = i
          BY <1>1, <3>3
        <4>2. w.assign[o[i]].job # w.assign[o[j]].job =>
                 \E l \in RoutesBetween(w, w.assign[o[i]].job, w.assign[o[j]].job) :
                    pl[i].end + l.time <= pl[j].start
          BY <4>1 DEF Slot
        <4>3. \A l \in RoutesBetween(w, w.assign[o[i]].job, w.assign[o[j]].job) : l.time \in Nat
          BY DEF RoutesBetween, WorldOK, RouteOK
        <4>4. w.assign[o[i]].job # w.assign[o[j]].job =>
                 \E l \in RoutesBetween(w, w.assign[o[i]].job, w.assign[o[j]].job) :
                    pl[j].start >= pl[i].end + l.time
          BY <2>5, <4>2, <4>3
        <4> QED
          BY <2>1, <2>2, <2>4, <3>2, <4>4
      <3>4. CASE j # i + 1
        <4> DEFINE d == i + 1
        <4>1. d \in 1 .. n /\ i < d /\ d < j
          BY <2>7, <3>4
        <4> HIDE DEF d
        <4>2. pl[i].end <= pl[d].start /\ pl[d].end <= pl[j].start
          BY <1>3, <4>1
        <4>3. o[d] \in DOMAIN q.after \ {a, b}
          BY <1>9, <2>1, <2>2, <4>1
        <4>4. q.after[o[d]].start >= q.after[a].end /\ q.after[o[d]].end <= q.after[b].start
          <5>1. q.after[o[d]].start = pl[d].start /\ q.after[o[d]].end = pl[d].end
            BY <1>10, <4>1
          <5>2. pl[d].start \in Nat /\ pl[d].start >= pl[i].end
            BY <1>2, <2>5, <4>1, <4>2
          <5> QED
            BY <2>4, <4>2, <5>1, <5>2
        <4> QED
          BY <2>4, <3>2, <4>3, <4>4
      <3> QED
        BY <3>3, <3>4
    <2> QED
      BY <2>3, <2>6, <2>7
  <1>15. Judged(w, q)
    BY <1>13, <1>14 DEF Judged
  <1> QED
    BY <1>11, <1>12, <1>15 DEF q, pl, Worthy

(* An ordering of a finite set leaves no member out.                       *)
LEMMA Onto ==
    ASSUME NEW S, IsFiniteSet(S), NEW f \in Orderings(S), NEW a \in S
    PROVE  \E i \in 1 .. Cardinality(S) : f[i] = a
  <1> DEFINE n == Cardinality(S)
  <1>1. n \in Nat
    BY FS_CardinalityType
  <1>2. f \in [1 .. n -> S] /\ \A i, j \in 1 .. n : f[i] = f[j] => i = j
    BY DEF Orderings
  <1>3. f \in Injection(1 .. n, S)
    BY <1>2 DEF Injection, IsInjective
  <1>4. Cardinality(1 .. n) = n
    BY <1>1, FS_Interval
  <1> HIDE DEF n
  <1>5. f \in Surjection(1 .. n, S)
    BY <1>3, <1>4, FS_Injection DEF n
  <1> QED
    BY <1>5 DEF Surjection, n

(* A set whose members have different times has one order by them.         *)
LEMMA OneOrder ==
    ASSUME NEW S, IsFiniteSet(S), NEW K, \A a \in S : K[a] \in Nat,
           NEW o \in Orderings(S), NEW u \in Orderings(S),
           \A i, j \in DOMAIN o : i < j => K[o[i]] < K[o[j]],
           \A i, j \in DOMAIN u : i < j => K[u[i]] < K[u[j]]
    PROVE  o = u
  <1> DEFINE n == Cardinality(S)
             Bad == {i \in 1 .. n : o[i] # u[i]}
  <1>1. n \in Nat
    BY FS_CardinalityType
  <1>2. ASSUME NEW f \in Orderings(S)
        PROVE  f \in [1 .. n -> S] /\ \A a \in S : \E i \in 1 .. n : f[i] = a
    <2>1. f \in [1 .. n -> S]
      BY DEF Orderings
    <2>2. ASSUME NEW a \in S PROVE \E i \in 1 .. n : f[i] = a
      BY Onto
    <2> QED
      BY <2>1, <2>2
  <1> HIDE DEF n
  <1>3. /\ o \in [1 .. n -> S] /\ \A a \in S : \E i \in 1 .. n : o[i] = a
        /\ u \in [1 .. n -> S] /\ \A a \in S : \E i \in 1 .. n : u[i] = a
    BY <1>2
  <1>4. Bad = {}
    <2> SUFFICES ASSUME Bad # {} PROVE FALSE
      OBVIOUS
    <2>1. PICK i \in Bad : \A j \in Bad : i <= j
      <3>1. Bad \in SUBSET Nat
        BY <1>1
      <3> HIDE DEF Bad
      <3> QED
        BY <3>1, LeastNat
    <2>2. i \in 1 .. n /\ o[i] # u[i] /\ \A j \in 1 .. n : j < i => o[j] = u[j]
      <3>1. i \in 1 .. n /\ o[i] # u[i]
        OBVIOUS
      <3>2. ASSUME NEW j \in 1 .. n, j < i PROVE o[j] = u[j]
        <4>1. j \notin Bad
          <5> HIDE DEF Bad
          <5> QED
            BY <1>1, <2>1, <3>1, <3>2
        <4> QED
          BY <4>1
      <3> QED
        BY <3>1, <3>2
    <2> HIDE DEF Bad
    <2>3. PICK j \in 1 .. n : u[j] = o[i]
      BY <1>3, <2>2
    <2>4. PICK l \in 1 .. n : o[l] = u[i]
      BY <1>3, <2>2
    <2>5. i < j
      <3>1. j # i
        BY <2>2, <2>3
      <3>2. ~(j < i)
        <4> SUFFICES ASSUME j < i PROVE FALSE
          OBVIOUS
        <4>1. o[j] = o[i]
          BY <2>2, <2>3
        <4>2. K[o[j]] < K[o[i]] /\ K[o[i]] \in Nat
          BY <1>3, <2>2
        <4> QED
          BY <4>1, <4>2
      <3> QED
        BY <1>1, <2>2, <3>1, <3>2
    <2>6. i < l
      <3>1. l # i
        BY <2>2, <2>4
      <3>2. ~(l < i)
        <4> SUFFICES ASSUME l < i PROVE FALSE
          OBVIOUS
        <4>1. u[l] = u[i]
          BY <2>2, <2>4
        <4>2. K[u[l]] < K[u[i]] /\ K[u[i]] \in Nat
          BY <1>3, <2>2
        <4> QED
          BY <4>1, <4>2
      <3> QED
        BY <1>1, <2>2, <3>1, <3>2
    <2>7. K[u[i]] < K[o[i]] /\ K[o[i]] < K[u[i]]
      <3>1. K[u[i]] < K[u[j]]
        BY <1>3, <2>2, <2>5
      <3>2. K[o[i]] < K[o[l]]
        BY <1>3, <2>2, <2>6
      <3> QED
        BY <2>3, <2>4, <3>1, <3>2
    <2>8. K[u[i]] \in Nat /\ K[o[i]] \in Nat
      BY <1>3, <2>2
    <2> QED
      BY <2>7, <2>8
  <1>5. \A i \in 1 .. n : o[i] = u[i]
    BY <1>4
  <1>6. o \in [1 .. n -> S] /\ u \in [1 .. n -> S]
    BY <1>3
  <1>7. o = [i \in 1 .. n |-> o[i]] /\ u = [i \in 1 .. n |-> u[i]]
    BY <1>6
  <1> QED
    BY <1>5, <1>7, Zenon

(* A proposal that is worth its reason codes.                              *)
Sound(w, q) == q.moved # {} /\ Judged(w, q) /\ Spans(w, q)

(* What plan answers with.  Were nothing moved, the best ordering would be *)
(* the one the calendar has, and there would be no proposal.               *)
LEMMA PlanSound ==
    ASSUME NEW w, NEW k, NEW m, NEW r, NEW init, NEW js,
           WorldOK(w), CalendarOK(w, k), AwaitedOK(w, m),
           Plan(w, k, m, r, init, js).status = "PROPOSAL_CREATED"
    PROVE  Sound(w, Plan(w, k, m, r, init, js).proposal)
  <1> DEFINE cand == Candidates(w, k, js)
             from == IF w.day[1] > w.now THEN w.day[1] ELSE w.now
             E == {c \in {EvaluateOrder(w, k, m, o) : o \in Orderings(cand)} : c.ok}
             c == Best(k, E)
             n == Cardinality(cand)
             q == Proposal(w, k, m, r, init, c)
  <1>1. /\ E # {} /\ OrderOf(c) # OriginalOrder(k, cand)
        /\ Plan(w, k, m, r, init, js).proposal = q
    <2> HIDE DEF cand, E, c, q
    <2>1. Plan(w, k, m, r, init, js) =
            IF PlanRefused(w, cand) \/ E = {} THEN Answer("NO_FEASIBLE_REPLAN", None)
            ELSE IF OrderOf(c) # OriginalOrder(k, cand) THEN Answer("PROPOSAL_CREATED", q)
            ELSE Answer(IF \E i \in DOMAIN c.place : Moved(k, c.place[i])
                        THEN "NO_FEASIBLE_REPLAN" ELSE "NO_CHANGE", None)
      BY DEF Plan, cand, E, c, q
    <2> QED
      BY <2>1 DEF Answer
  <1>2. from \in Nat /\ w.now <= from /\ w.day[1] <= from
    BY DEF WorldOK
  <1>3. cand \subseteq DOMAIN w.assign /\ IsFiniteSet(cand) /\ n \in Nat
    <2>1. cand \in SUBSET DOMAIN w.assign /\ IsFiniteSet(DOMAIN w.assign)
      BY DEF Candidates, WorldOK
    <2>2. IsFiniteSet(cand)
      BY <2>1, FS_Subset
    <2> QED
      BY <2>1, <2>2, FS_CardinalityType
  <1>4. E = Placeable(w, k, m, from, Orderings(cand))
    BY DEF EvaluateOrder, Placeable
  <1> HIDE DEF cand, n, from, E
  <1>5. Orderings(cand) \in SUBSET [1 .. n -> DOMAIN w.assign]
    BY <1>3 DEF Orderings, n
  <1>6. c \in E
    <2> HIDE DEF c
    <2> DEFINE P == Placeable(w, k, m, from, Orderings(cand))
    <2>1. P # {}
      BY <1>1, <1>4
    <2>2. Best(k, P) \in P
      BY <1>2, <1>3, <1>5, <2>1, BestIs
    <2> QED
      BY <1>4, <2>2 DEF c
  <1> HIDE DEF c
  <1>7. PICK o \in Orderings(cand) : c = PlaceAll(w, k, m, o, from) /\ c.ok
    BY <1>4, <1>6 DEF Placeable
  <1>8. o \in [1 .. n -> DOMAIN w.assign] /\ \A i, j \in 1 .. n : o[i] = o[j] => i = j
    BY <1>5 DEF Orderings, n
  <1>9. Kept(w, k, o, from, c, n)
    BY <1>2, <1>3, <1>7, <1>8, OrderKept
  <1>10. Judged(w, q) /\ Spans(w, q) /\ (q.moved = {} => \A i \in 1 .. n : c.place[i].start = k[o[i]].start)
    <2> HIDE DEF q
    <2>1. Worthy(w, k, o, n, c, Proposal(w, k, m, r, init, c))
      BY <1>2, <1>3, <1>7, <1>8, <1>9, ProposalJudged, Zenon
    <2> QED
      BY <2>1 DEF q, Worthy
  <1>11. OrderOf(c) = o
    <2>1. Ranked(k, c, o, n)
      BY <1>2, <1>3, <1>7, <1>8, <1>9, RankIs, Zenon
    <2> QED
      BY <2>1 DEF Ranked
  <1>12. ASSUME q.moved = {} PROVE FALSE
    <2> DEFINE K == [a \in cand |-> k[a].start]
               pl == c.place
               ByStart(f) == \A i, j \in DOMAIN f :
                          i < j => \/ k[f[i]].start < k[f[j]].start
                                   \/ k[f[i]].start = k[f[j]].start /\ f[i] < f[j]
    <2>1. \A i \in 1 .. n : pl[i].start = k[o[i]].start
      BY <1>10, <1>12
    <2>2. /\ \A i \in 1 .. n : pl[i].start \in Nat /\ pl[i].end \in Nat /\ pl[i].start < pl[i].end
          /\ \A i, j \in 1 .. n : i < j => pl[i].end <= pl[j].start
      <3>1. \A i \in 1 .. n : Slot(w, k, o, from, pl, i)
        BY <1>7, <1>9 DEF Kept
      <3> HIDE DEF pl
      <3> QED
        BY <1>2, <1>3, <3>1, InTurn, Zenon
    <2>3. \A a \in cand : K[a] \in Nat
      BY <1>3 DEF CalendarOK
    <2>4. DOMAIN o = 1 .. n /\ \A i \in 1 .. n : o[i] \in cand
      BY DEF Orderings, n
    <2> HIDE DEF pl
    <2>5. \A i, j \in DOMAIN o : i < j => K[o[i]] < K[o[j]] /\ k[o[i]].start < k[o[j]].start
      <3> SUFFICES ASSUME NEW i \in 1 .. n, NEW j \in 1 .. n, i < j
                   PROVE  K[o[i]] < K[o[j]] /\ k[o[i]].start < k[o[j]].start
        BY <2>4
      <3>1. pl[i].start < pl[j].start
        BY <2>2
      <3> QED
        BY <2>1, <2>4, <3>1
    <2> DEFINE u == OriginalOrder(k, cand)
    <2>6. ByStart(o)
      BY <2>5
    <2>7. u \in Orderings(cand) /\ ByStart(u)
      <3>1. u = CHOOSE f \in Orderings(cand) : ByStart(f)
        BY DEF OriginalOrder
      <3> HIDE DEF ByStart, u
      <3> QED
        BY <2>6, <3>1
    <2>8. ASSUME NEW i \in DOMAIN u, NEW j \in DOMAIN u, i < j
          PROVE  K[u[i]] < K[u[j]]
      <3>1. DOMAIN u = 1 .. n /\ u[i] \in cand /\ u[j] \in cand /\ u[i] # u[j]
        <4>1. u \in [1 .. n -> cand] /\ \A x, y \in DOMAIN u : u[x] = u[y] => x = y
          BY <2>7 DEF Orderings, n
        <4>2. i # j
          BY <1>3, <2>8, <4>1
        <4> HIDE DEF u
        <4> QED
          BY <4>1, <4>2
      <3>2. k[u[i]].start # k[u[j]].start
        <4>1. PICK x \in 1 .. n : o[x] = u[i]
          BY <1>3, <3>1, Onto DEF n
        <4>2. PICK y \in 1 .. n : o[y] = u[j]
          BY <1>3, <3>1, Onto DEF n
        <4>3. x < y \/ y < x
          BY <1>3, <3>1, <4>1, <4>2
        <4>4. K[o[x]] \in Nat /\ K[o[y]] \in Nat /\ K[o[x]] = k[u[i]].start /\ K[o[y]] = k[u[j]].start
          BY <2>3, <2>4, <4>1, <4>2
        <4>5. K[o[x]] < K[o[y]] \/ K[o[y]] < K[o[x]]
          BY <2>4, <2>5, <4>3
        <4> HIDE DEF K, u
        <4> QED
          BY <4>4, <4>5
      <3>3. k[u[i]].start < k[u[j]].start
        BY <2>7, <2>8, <3>2
      <3> HIDE DEF u
      <3> QED
        BY <3>1, <3>3
    <2>9. o = u
      <3> HIDE DEF K, u
      <3> QED
        BY <1>3, <2>3, <2>5, <2>7, <2>8, OneOrder
    <2> QED
      BY <1>1, <1>11, <2>9
  <1> QED
    BY <1>1, <1>10, <1>12 DEF Sound

(* The facts the planner reads are such as the constructors accept, in the *)
(* rows and in the turns that have read them, and every proposal is sound. *)
FactsOK ==
    /\ WorldOK(world)
    /\ CalendarOK(world, cal) /\ DOMAIN cal = DOMAIN world.assign
    /\ AwaitedOK(world, mat) /\ DOMAIN mat = DOMAIN world.assign

TurnSound(t) ==
    /\ t.at = "plan" => CalendarOK(world, t.cal)
    /\ t.at = "save" => Sound(world, t.proposal)

Promised ==
    /\ FactsOK
    /\ \A p \in Processes : TurnSound(pc[p])
    /\ \A q \in DOMAIN proposals : Sound(world, q)

(* Every world starts so.                                                  *)
LEMMA PromisedInit == ReplanInit => Promised
  <1> SUFFICES ASSUME ReplanInit PROVE Promised
    OBVIOUS
  <1>1. WorldOK(world)
    BY WorldAssumption DEF ReplanInit
  <1>2. CalendarOK(world, cal) /\ DOMAIN cal = DOMAIN world.assign
    BY <1>1 DEF ReplanInit, CalendarOK, WorldOK, AssignmentOK
  <1>3. AwaitedOK(world, mat) /\ DOMAIN mat = DOMAIN world.assign
    BY <1>1 DEF ReplanInit, AwaitedOK, WorldOK, MaterialOK
  <1>4. \A p \in Processes : TurnSound(pc[p])
    BY DEF ReplanInit, TurnSound, Idle
  <1>5. DOMAIN proposals = {}
    BY DEF ReplanInit
  <1> QED
    BY <1>1, <1>2, <1>3, <1>4, <1>5 DEF Promised, FactsOK

(* The step of one process that leaves the facts alone.                    *)
LEMMA TurnPromised ==
    ASSUME Inv, Promised, NEW p \in Processes, NEW t, pc' = [pc EXCEPT ![p] = t], TurnSound(t),
           UNCHANGED <<world, cal, mat>>, \A q \in DOMAIN proposals' : Sound(world, q)
    PROVE  Promised'
  <1>1. FactsOK'
    BY DEF Promised, FactsOK
  <1>2. \A x \in Processes : pc'[x] = IF x = p THEN t ELSE pc[x]
    BY DEF Inv, TypeOK
  <1>3. \A x \in Processes : TurnSound(pc'[x])
    BY <1>2 DEF Promised
  <1>4. \A x \in Processes : TurnSound(pc[x])'
    BY <1>3 DEF TurnSound
  <1> QED
    BY <1>1, <1>4 DEF Promised

(* Every step keeps them.                                                  *)
LEMMA PromisedStep == Inv /\ Promised /\ [ReplanNext]_vars => Promised'
  <1> SUFFICES ASSUME Inv, Promised, [ReplanNext]_vars PROVE Promised'
    OBVIOUS
  <1>1. \A q \in DOMAIN proposals : Sound(world, q)
    BY DEF Promised
  <1>2. TurnSound(Idle)
    BY DEF TurnSound, Idle
  <1>3. ASSUME UNCHANGED <<world, cal, pc, proposals>>,
               AwaitedOK(world, mat'), DOMAIN mat' = DOMAIN world.assign
        PROVE  Promised'
    BY <1>3 DEF Promised, FactsOK, TurnSound
  <1>4. CASE UNCHANGED vars
    BY <1>3, <1>4 DEF vars, rows, Promised, FactsOK
  <1>5. CASE \E j \in Jobs : UpdateWorkflowCas(j)
    BY <1>3, <1>5 DEF UpdateWorkflowCas, Promised, FactsOK
  <1>6. ASSUME NEW a \in DOMAIN cal, NEW t \in ArrivalTimes, RecordMaterialDelay(a, t)
        PROVE  Promised'
    <2>1. mat' = [mat EXCEPT ![a] = Expected(a, t)] /\ UNCHANGED <<world, cal, pc, proposals>>
      BY <1>6 DEF RecordMaterialDelay
    <2>2. Expected(a, t).at \in Nat
      BY ArrivalAssumption DEF Expected
    <2>3. DOMAIN mat = DOMAIN world.assign /\ AwaitedOK(world, mat)
      BY DEF Promised, FactsOK
    <2>4. \A b \in DOMAIN world.assign : mat'[b] = IF b = a THEN Expected(a, t) ELSE mat[b]
      BY <2>1, <2>3
    <2>5. AwaitedOK(world, mat') /\ DOMAIN mat' = DOMAIN world.assign
      BY <2>1, <2>2, <2>3, <2>4 DEF AwaitedOK
    <2> QED
      BY <1>3, <2>1, <2>5
  <1>7. ASSUME NEW p \in Processes, Begin(p) PROVE Promised'
    <2>1. CASE \E r \in Requests : ReadWorkflows(p, r)
      <3>1. PICK r \in Requests : ReadWorkflows(p, r)
        BY <2>1
      <3> DEFINE t == [at |-> "calendar", initiating |-> r.initiating, jobs |-> r.jobs, rev |-> rev]
      <3>2. TurnSound(t)
        BY DEF TurnSound
      <3> QED
        BY <1>1, <3>1, <3>2, TurnPromised DEF ReadWorkflows, Goto, rows
    <2>2. CASE \E q \in DOMAIN proposals : RequestReplanApproval(p, q)
      <3>1. PICK q \in DOMAIN proposals : RequestReplanApproval(p, q)
        BY <2>2
      <3> DEFINE t == [at |-> "gate", proposal |-> q, interrupt |-> calls + 1]
      <3>2. TurnSound(t)
        BY DEF TurnSound
      <3> QED
        BY <1>1, <3>1, <3>2, TurnPromised DEF RequestReplanApproval, Goto, rows
    <2>3. CASE \E q \in DOMAIN gates, x \in Actions : ClaimReplanResponse(p, q, x)
      <3>1. PICK q \in DOMAIN gates, x \in Actions : ClaimReplanResponse(p, q, x)
        BY <2>3
      <3> DEFINE t == [at |-> "resumed", proposal |-> q, action |-> x]
      <3>2. TurnSound(t)
        BY DEF TurnSound
      <3> QED
        BY <1>1, <3>1, <3>2, TurnPromised DEF ClaimReplanResponse, Goto
    <2> QED
      BY <1>7, <2>1, <2>2, <2>3 DEF Begin
  <1>8. ASSUME NEW p \in Processes, Work(p) PROVE Promised'
    <2>1. CASE ReadCalendar(p)
      <3> DEFINE t == [at |-> "plan", initiating |-> pc[p].initiating, jobs |-> pc[p].jobs,
                       rev |-> pc[p].rev, cal |-> cal]
      <3>1. TurnSound(t)
        BY DEF TurnSound, Promised, FactsOK
      <3> QED
        BY <1>1, <2>1, <3>1, TurnPromised DEF ReadCalendar, Goto, rows
    <2>2. CASE PlanReplan(p)
      <3> DEFINE a == Plan(world, pc[p].cal, mat, pc[p].rev, pc[p].initiating, pc[p].jobs)
                 t == IF a.status = "PROPOSAL_CREATED"
                      THEN [at |-> "save", proposal |-> a.proposal] ELSE Idle
      <3>1. pc' = [pc EXCEPT ![p] = t] /\ UNCHANGED <<world, cal, mat, proposals>>
        BY <2>2 DEF PlanReplan, Goto, rows
      <3>2. a.status = "PROPOSAL_CREATED" => Sound(world, a.proposal)
        <4>1. WorldOK(world) /\ CalendarOK(world, pc[p].cal) /\ AwaitedOK(world, mat)
          BY <2>2 DEF PlanReplan, Promised, FactsOK, TurnSound
        <4> QED
          BY <4>1, PlanSound
      <3> HIDE DEF a
      <3>3. TurnSound(t)
        BY <1>2, <3>2 DEF TurnSound
      <3> HIDE DEF t
      <3> QED
        BY <1>1, <3>1, <3>3, TurnPromised
    <2>3. CASE SaveProposal(p)
      <3>1. Sound(world, pc[p].proposal)
        BY <2>3 DEF SaveProposal, Promised, TurnSound
      <3>2. DOMAIN proposals' \subseteq DOMAIN proposals \cup {pc[p].proposal}
        BY <2>3 DEF SaveProposal, Inserted
      <3>3. pc' = [pc EXCEPT ![p] = Idle] /\ UNCHANGED <<world, cal, mat>>
        BY <2>3 DEF SaveProposal, Goto
      <3>4. \A q \in DOMAIN proposals' : Sound(world, q)
        BY <1>1, <3>1, <3>2
      <3> QED
        BY <1>2, <3>3, <3>4, TurnPromised
    <2>4. CASE CreateReplanGate(p)
      <3> DEFINE t == [pc[p] EXCEPT !.at = "interrupted"]
      <3>1. TurnSound(t)
        <4>1. pc[p] \in [at : {"gate", "interrupted"}, proposal : DOMAIN proposals, interrupt : Nat]
          BY <2>4 DEF CreateReplanGate, Inv, Turns, TurnOK
        <4> QED
          BY <4>1 DEF TurnSound
      <3> QED
        BY <1>1, <2>4, <3>1, TurnPromised DEF CreateReplanGate, Goto
    <2>5. CASE BindGateInterrupt(p)
      BY <1>1, <1>2, <2>5, TurnPromised DEF BindGateInterrupt, Goto
    <2>6. CASE ResumeTool(p)
      <3> DEFINE t == [pc[p] EXCEPT !.at = "apply"]
      <3>1. TurnSound(t)
        <4>1. pc[p] \in [at : {"resumed", "apply"}, proposal : DOMAIN gates, action : Actions]
          BY <2>6 DEF ResumeTool, Inv, Turns, TurnOK
        <4> QED
          BY <4>1 DEF TurnSound
      <3> QED
        BY <1>1, <2>6, <3>1, TurnPromised DEF ResumeTool, Goto, rows
    <2>7. CASE ApplyReplanResponse(p)
      <3> DEFINE q == pc[p].proposal
      <3>1. q \in DOMAIN gates /\ q \in DOMAIN proposals
        BY <2>7 DEF Inv, TypeOK, Turns, TurnOK, ApplyReplanResponse
      <3>2. pc' = [pc EXCEPT ![p] = Idle] /\ UNCHANGED <<world, mat>>
        BY <2>7 DEF ApplyReplanResponse, Goto
      <3>3. DOMAIN proposals' = DOMAIN proposals
        BY <2>7 DEF ApplyReplanResponse, RejectStale, Decide
      <3>4. \/ cal' = cal
            \/ cal' = [ a \in DOMAIN cal |->
                          IF a \in DOMAIN q.calRev
                          THEN [start |-> q.after[a].start, end |-> q.after[a].end, rev |-> cal[a].rev + 1]
                          ELSE cal[a] ]
        BY <2>7 DEF ApplyReplanResponse, RejectStale, Decide
      <3>5. CASE cal' = cal
        BY <1>1, <1>2, <3>2, <3>3, <3>5, TurnPromised
      <3>6. CASE cal' = [ a \in DOMAIN cal |->
                            IF a \in DOMAIN q.calRev
                            THEN [start |-> q.after[a].start, end |-> q.after[a].end, rev |-> cal[a].rev + 1]
                            ELSE cal[a] ]
        <4>1. \A a \in DOMAIN q.calRev : /\ q.after[a].start \in Nat /\ q.after[a].end \in Nat
                                         /\ q.after[a].start < q.after[a].end
          <5>1. DOMAIN q.calRev = q.moved
            BY <3>1 DEF Inv, Shapes, ProposalOK
          <5>2. Spans(world, q)
            BY <1>1, <3>1 DEF Sound
          <5> QED
            BY <5>1, <5>2 DEF Spans
        <4>2. CalendarOK(world, cal) /\ DOMAIN cal = DOMAIN world.assign
          BY DEF Promised, FactsOK
        <4> HIDE DEF q
        <4>3. CalendarOK(world, cal') /\ DOMAIN cal' = DOMAIN world.assign
          BY <3>6, <4>1, <4>2 DEF CalendarOK
        <4>4. \A x \in Processes : pc'[x] = IF x = p THEN Idle ELSE pc[x]
          BY <3>2 DEF Inv, TypeOK
        <4>5. \A x \in Processes : TurnSound(pc'[x])
          BY <1>2, <4>4 DEF Promised
        <4>6. \A x \in Processes : TurnSound(pc[x])'
          BY <3>2, <4>5 DEF TurnSound
        <4>7. FactsOK'
          BY <3>2, <4>3 DEF Promised, FactsOK
        <4> QED
          BY <1>1, <3>2, <3>3, <4>6, <4>7 DEF Promised
      <3> QED
        BY <3>4, <3>5, <3>6
    <2> QED
      BY <1>8, <2>1, <2>2, <2>3, <2>4, <2>5, <2>6, <2>7 DEF Work, Resume
  <1>9. ASSUME NEW p \in Processes, Fail(p) PROVE Promised'
    BY <1>1, <1>2, <1>9, TurnPromised DEF Fail, Goto, rows
  <1> QED
    BY <1>4, <1>5, <1>6, <1>7, <1>8, <1>9 DEF ReplanNext

(* plan ranks whatever it could place and proposes the best.  Whatever the *)
(* world and however old the calendar it read, a saved proposal moves      *)
(* something, keeps every duration, the working day, the deadlines and the *)
(* present, and leaves the travel time between two sites; an approval      *)
(* never writes a calendar from which this would fail the next time.       *)
THEOREM ProposalAlwaysFeasible == ReplanSpec => []ProposalIsFeasible
  <1>1. Promised => ProposalIsFeasible
    BY DEF Promised, Sound, Judged, ProposalIsFeasible
  <1> QED
    BY <1>1, PromisedInit, PromisedStep, Invariance, PTL DEF ReplanSpec

=============================================================================
