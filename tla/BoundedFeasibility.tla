------------------------ MODULE BoundedFeasibility ------------------------
(***************************************************************************)
(* The bounded repair search of M3-C (planning/bounded_feasibility.py):    *)
(* one search over one evaluation input and one support snapshot, draft by *)
(* draft, until a bound stops it or nothing is left.                       *)
(*                                                                         *)
(* Commitments, workers and vehicles are numbers in the order the code     *)
(* sorts their identities by; a commitment stands for its task too.  Time  *)
(* counts in fractions of a second from the start of the planning horizon. *)
(* Travel time and buffer of a route are one number.  A draft maps the     *)
(* commitments it modifies to their proposed worker, vehicle and start,    *)
(* which is also its signature.                                            *)
(* The counts kept for the ordering of candidates are left out.            *)
(***************************************************************************)
EXTENDS Integers, Sequences, FiniteSets, SequencesExt

CONSTANTS
    None,          \* no vehicle, no evidence, no result
    Worlds,        \* pairs of an evaluation input and a support snapshot
    Second,        \* how many units of time make a second
    Horizon,       \* horizon_end; horizon_start is 0
    MaxEvaluated,  \* MAX_EVALUATED_CANDIDATES
    MaxModified    \* MAX_MODIFIED_COMMITMENTS

BoundsOK == {MaxEvaluated, MaxModified, Second} \subseteq Nat \ {0} /\ Horizon \in Nat

\* value.microsecond == 0.
OnTheSecond(t) == t % Second = 0

\* int(....total_seconds()): the whole seconds of a length, towards zero.
Truncated(t) == IF 0 <= t THEN t - (t % Second) ELSE t + ((-t) % Second)

\* The states of a _PrimaryDraftStream.
Streams ==
    [pair : Nat, probes : Nat, budgetOut : BOOLEAN, starts : Seq(Nat),
     vehicles : Seq(Nat \cup {None}), anchor : Nat, vehicle : Nat]

\* None is no number, no kind of commitment, no reason and no stream.
NoneOK ==
    /\ None \notin Nat \cup {"CREW", "SINGLE", "CREW_REPAIR_UNSUPPORTED",
                            "SINGLE_KIND_EVIDENCE_UNKNOWN", "SKILL_EVIDENCE_UNKNOWN"}
    /\ None \notin Streams

\* Availability evidence, and a customer window or a deadline.
AvailabilityOK(a) ==
    a.known \in BOOLEAN /\ a.from \in Int /\ a.to \in Int /\ a.windows \subseteq Int \X Int

WindowOK(x) == x.state \in {"ABSENT", "UNKNOWN", "KNOWN"} /\ x.from \in Int /\ x.to \in Int

\* What the constructors of the evaluation input and of the support guarantee:
\* finitely many records, and commitments that take some time.  They refuse no
\* fraction of a second in an instant (_instant of feasibility_support.py);
\* the duration of a task and the length of a route are whole seconds.
WorldOK(w) ==
    /\ \A S \in {DOMAIN w.plan, DOMAIN w.worker, DOMAIN w.vehicle} : S \subseteq Nat /\ IsFiniteSet(S)
    /\ w.direct \subseteq DOMAIN w.plan
    /\ w.edges \subseteq Nat \X Nat
    /\ \A c \in DOMAIN w.plan : LET p == w.plan[c] IN
         p.start \in Int /\ p.dur \in Nat \ {0}
    /\ \A c \in DOMAIN w.task : LET t == w.task[c] IN
         /\ t.dur \in Nat \ {0} /\ OnTheSecond(t.dur)
         /\ t.level \in Int /\ WindowOK(t.window) /\ WindowOK(t.deadline)
    /\ \A x \in DOMAIN w.worker : w.worker[x].level \in Int \cup {None} /\ AvailabilityOK(w.worker[x].avail)
    /\ \A v \in DOMAIN w.vehicle : AvailabilityOK(w.vehicle[v].avail)
    /\ \A r \in DOMAIN w.route : w.route[r] \in {n \in Nat : OnTheSecond(n)} \cup {None}

EvidenceOK == BoundsOK /\ NoneOK /\ \A w \in Worlds : WorldOK(w)

ASSUME EvidenceAssumption == EvidenceOK

VARIABLES
    world,      \* the evidence, frozen
    stream,     \* _PrimaryDraftStream
    pending,    \* the expansions not yet looked at
    candidates, \* the drafts evaluated, with their checks
    seen,       \* the signatures looked at
    found,      \* the flags, the insufficient evidence and the trace
    result      \* what the search returned

vars == <<world, stream, pending, candidates, seen, found, result>>

\* Mutation: as many anchors as evaluations, so that a cut is not noticed.
AnchorsOfTheBudget == MaxEvaluated

\* MAX_SEED_PAIR_PROBES and MAX_ANCHORS_PER_SEED_PAIR.
MaxProbes  == MaxEvaluated + 1
MaxAnchors == MaxEvaluated + 1

(***************************************************************************)
(* The evidence                                                            *)
(***************************************************************************)

Active == DOMAIN world.plan

Workers == DOMAIN world.worker

EndOf(p) == p.start + p.dur

\* _validated_context: the support answers exactly this evaluation input.
ContextOK ==
    /\ world.support.input = world.input
    /\ world.support.base = world.base
    /\ \A c \in Active :
         /\ c \in DOMAIN world.support.workers
         /\ world.support.workers[c] = world.plan[c].workers
         /\ c \in DOMAIN world.task
         /\ world.task[c].dur = Truncated(world.plan[c].dur)
    /\ DOMAIN world.task = Active
    /\ LET places == {world.task[c].loc : c \in Active} IN
       DOMAIN world.route = {r \in places \X places : r[1] # r[2]}

\* _commitment_kind: "MISSING" stands for a source assignment that the
\* historical scope does not know.
CommitmentKind(c) ==
    LET kinds == world.plan[c].kinds
        crew  == Cardinality(world.plan[c].workers) > 1
    IN  CASE crew \/ ("CREW" \in kinds /\ "MISSING" \notin kinds) -> "CREW"
          [] ~crew /\ kinds = {"SINGLE"} -> "SINGLE"
          [] OTHER -> None

OfKind(k) == {c \in world.direct : CommitmentKind(c) = k}

\* The numbers of a set in ascending order.
Sorted(S) ==
    [i \in 1..Cardinality(S) |-> CHOOSE x \in S : Cardinality({y \in S : y <= x}) = i]

\* _route_between, for the two places that differ.
RouteBetween(a, b) == world.route[<<world.task[a].loc, world.task[b].loc>>]

SamePlace(a, b) == world.task[a].loc = world.task[b].loc

\* The travel the search allows for: nothing where no route is known.
KnownTravel(a, b) ==
    IF SamePlace(a, b) \/ RouteBetween(a, b) = None THEN 0 ELSE RouteBetween(a, b)

(***************************************************************************)
(* The seed drafts                                                         *)
(***************************************************************************)

\* _vehicle_options.
VehicleOptions(c, w) ==
    LET class   == world.task[c].class
        matches == {v \in DOMAIN world.vehicle :
                        /\ class \in world.vehicle[v].classes
                        /\ world.vehicle[v].owner \in {None, w}}
    IN  IF class = None \/ matches = {} THEN <<None>> ELSE Sorted(matches)

\* The starts _anchor_starts collects, before it cuts them.
AnchorSet(c, w) ==
    LET dur    == world.task[c].dur
        avail  == world.worker[w].avail
        shifts == IF avail.known THEN avail.windows ELSE {}
        window == world.task[c].window
        others == {o \in Active \ {c} : w \in world.plan[o].workers}
        starts ==
            {world.plan[c].start}
            \cup {x[1] : x \in shifts}
            \cup {x[2] - dur : x \in {y \in shifts : y[2] - dur >= y[1]}}
            \cup (IF window.state = "KNOWN" THEN {window.from, window.to - dur} ELSE {})
            \cup {EndOf(world.plan[o]) : o \in others}
            \cup {EndOf(world.plan[o]) + KnownTravel(o, c) : o \in others}
            \cup {EndOf(world.plan[e[1]]) : e \in {f \in world.edges : f[2] = c /\ f[1] \in Active}}
            \cup {world.plan[e[2]].start - dur : e \in {f \in world.edges : f[1] = c /\ f[2] \in Active}}
    IN  {t \in starts : 0 <= t /\ t < Horizon}

\* _anchor_starts: the planned start first, then ascending, cut.
AnchorStarts(c, w) ==
    LET planned == world.plan[c].start
        anchors == AnchorSet(c, w)
        ordered == (IF planned \in anchors THEN <<planned>> ELSE <<>>) \o Sorted(anchors \ {planned})
    IN  SubSeq(ordered, 1, IF Len(ordered) < MaxAnchors THEN Len(ordered) ELSE MaxAnchors)

SingleIds == Sorted(OfKind("SINGLE"))

\* _PrimaryDraftStream.workers.
SeedWorkers == Sorted(Workers \ {world.unavailable})

TotalPairs == Len(SingleIds) * Len(SeedWorkers)

\* The commitment and the worker of a seed pair.
PairCommitment(n) == SingleIds[((n - 1) \div Len(SeedWorkers)) + 1]
PairWorker(n) == SeedWorkers[((n - 1) % Len(SeedWorkers)) + 1]

SeedCommitment == PairCommitment(stream.pair)
SeedWorker == PairWorker(stream.pair)

\* The draft the stream stands at, and the stream behind it.
SeedDraft ==
    [c \in {SeedCommitment} |->
        [worker |-> SeedWorker, vehicle |-> stream.vehicles[stream.vehicle],
         start |-> stream.starts[stream.anchor]]]

Advanced ==
    IF stream.vehicle < Len(stream.vehicles)
    THEN [stream EXCEPT !.vehicle = @ + 1]
    ELSE [stream EXCEPT !.vehicle = 1, !.anchor = @ + 1]

AtDraft == stream.anchor <= Len(stream.starts)

\* ProposedWorkerPlacement.__post_init__: a proposal starts and ends on a
\* second, whatever the evidence it was taken from.
Proposable(start, dur) == OnTheSecond(start) /\ OnTheSecond(start + dur)

\* has_unexplored.
HasUnexplored == AtDraft \/ stream.pair < TotalPairs

(***************************************************************************)
(* The technical validation of a draft                                     *)
(***************************************************************************)

\* _final_schedule.
FinalSchedule(d) ==
    [c \in Active |->
        IF c \in DOMAIN d
        THEN [workers |-> {d[c].worker}, vehicle |-> d[c].vehicle,
              start |-> d[c].start, end |-> d[c].start + world.task[c].dur]
        ELSE [workers |-> world.plan[c].workers, vehicle |-> world.plan[c].vehicle,
              start |-> world.plan[c].start, end |-> EndOf(world.plan[c])]]

Check(reason, status, related) == [reason |-> reason, status |-> status, related |-> related]

Verdict(ok) == IF ok THEN "PASS" ELSE "FAIL"

\* _availability_result.
Availability(avail, p) ==
    IF ~avail.known \/ p.start < avail.from \/ avail.to < p.end
    THEN "UNKNOWN"
    ELSE Verdict(\E x \in avail.windows : x[1] <= p.start /\ p.end <= x[2])

\* The vehicle of one placement.
VehicleStatus(c, p) ==
    LET class == world.task[c].class IN
    CASE class = None -> "PASS"
      [] class # None /\ (p.vehicle \notin DOMAIN world.vehicle) -> "FAIL"
      [] class # None /\ p.vehicle \in DOMAIN world.vehicle ->
           IF class \in world.vehicle[p.vehicle].classes
           THEN Availability(world.vehicle[p.vehicle].avail, p)
           ELSE "FAIL"

\* A customer window, or a deadline as the window <<0, deadline>>.
WindowStatus(window, p) ==
    CASE window.state = "ABSENT"  -> "PASS"
      [] window.state = "UNKNOWN" -> "UNKNOWN"
      [] window.state = "KNOWN"   -> Verdict(window.from <= p.start /\ p.end <= window.to)

\* What _evaluate_draft asks of one modified commitment.
PlacementChecks(c, w, p) ==
    LET task  == world.task[c]
        level == world.worker[w].level
    IN  { Check("SKILL", IF level = None THEN "UNKNOWN" ELSE Verdict(level >= task.level), {c}),
          Check("WORKER", Availability(world.worker[w].avail, p), {c}),
          Check("READINESS", IF task.ready = "UNKNOWN" THEN "UNKNOWN"
                             ELSE Verdict(task.ready = "READY"), {c}),
          Check("VEHICLE", VehicleStatus(c, p), {c}),
          Check("WINDOW", WindowStatus(task.window, p), {c}),
          Check("DEADLINE", WindowStatus(task.deadline, p), {c}) }

\* intervals_overlap.
IntervalsOverlap(p, q) == p.start < q.end /\ q.start < p.end

SharedVehicle(p, q) == p.vehicle # None /\ p.vehicle = q.vehicle

\* Mutation: only people are booked, vehicles are not.
SharedWorkerOnly(p, q) == p.workers \cap q.workers # {}

SharedResource(p, q) == p.workers \cap q.workers # {} \/ SharedVehicle(p, q)

OverlapChecks(final, modified) ==
    {Check("OVERLAP", "FAIL", pair) :
        pair \in {{x[1], x[2]} : x \in {ab \in Active \X modified :
                        /\ ab[1] # ab[2]
                        /\ SharedResource(final[ab[1]], final[ab[2]])
                        /\ IntervalsOverlap(final[ab[1]], final[ab[2]])}}}

\* The order of ordered_schedule.
Precedes(final, a, b) ==
    LET p == final[a]
        q == final[b]
    IN  \/ p.start < q.start
        \/ p.start = q.start /\ p.end < q.end
        \/ p.start = q.start /\ p.end = q.end /\ a < b

\* Two stops that follow each other among the stops of a worker or vehicle.
Consecutive(final, stops) ==
    {ab \in stops \X stops :
        /\ Precedes(final, ab[1], ab[2])
        /\ ~\E x \in stops : Precedes(final, ab[1], x) /\ Precedes(final, x, ab[2])}

RouteStatus(final, a, b) ==
    CASE SamePlace(a, b) -> "PASS"
      [] ~SamePlace(a, b) /\ RouteBetween(a, b) = None -> "UNKNOWN"
      [] OTHER -> Verdict(Truncated(final[b].start - final[a].end) >= RouteBetween(a, b))

RouteChecks(final, modified) ==
    LET workers  == UNION {final[c].workers : c \in modified}
        vehicles == {final[c].vehicle : c \in modified} \ {None}
        tours    == {{c \in Active : w \in final[c].workers} : w \in workers}
                    \cup {{c \in Active : final[c].vehicle = v} : v \in vehicles}
    IN  {Check("ROUTE", RouteStatus(final, ab[1], ab[2]), {ab[1], ab[2]}) :
            ab \in {x \in UNION {Consecutive(final, t) : t \in tours} :
                        x[1] \in modified \/ x[2] \in modified}}

\* The commitments downstream of a set: the least set that holds it and is
\* closed under the edges.
Downstream(edges, from) ==
    {c \in Active : \A S \in SUBSET Active :
        from \subseteq S /\ (\A e \in edges : e[1] \in S => e[2] \in S) => c \in S}

ActiveEdges == {e \in world.edges : e[1] \in Active /\ e[2] \in Active}

\* _affected_dependencies.
AffectedDependencies(modified) ==
    LET affected == Downstream(ActiveEdges, modified)
    IN  {e \in ActiveEdges : e[1] \in affected \/ e[2] \in affected}

DependencyChecks(final, modified) ==
    {Check("DEPENDENCY", Verdict(final[e[1]].end <= final[e[2]].start), {e[1], e[2]}) :
        e \in AffectedDependencies(modified)}

\* _candidate_induced_refs.
CandidateInduced(d, final) ==
    LET modified == DOMAIN d
        touched  == {c \in Active \ modified :
                        \E x \in modified : \/ d[x].worker \in final[c].workers
                                             \/ SharedVehicle(final[c], d[x])}
    IN  (modified \ world.direct) \cup touched
        \cup (Downstream(AffectedDependencies(modified), modified) \ modified)

\* The checks of _evaluate_draft that a draft does not pass.
Rejections(d, final) ==
    {x \in (UNION {PlacementChecks(c, d[c].worker, final[c]) : c \in DOMAIN d})
           \cup OverlapChecks(final, DOMAIN d)
           \cup RouteChecks(final, DOMAIN d)
           \cup DependencyChecks(final, DOMAIN d) : x.status # "PASS"}

\* The candidate _evaluate_draft makes of them.
EvaluateDraft(d, final, rejected) ==
    LET modified == DOMAIN d
        baseline == world.direct \cup world.impacted
        restored == IF rejected = {} THEN modified \cap baseline ELSE {}
    IN  [draft |-> d, feasible |-> rejected = {}, rejected |-> rejected,
         restored |-> restored, residual |-> baseline \ restored,
         induced |-> CandidateInduced(d, final),
         private |-> \E c \in modified :
                        /\ world.task[c].class # None
                        /\ d[c].vehicle \in DOMAIN world.vehicle
                        /\ world.task[c].class \in world.vehicle[d[c].vehicle].classes
                        /\ world.vehicle[d[c].vehicle].private]

(***************************************************************************)
(* The expansion of a rejected draft                                       *)
(***************************************************************************)

Trace(reason, ids) == [reason |-> reason, ids |-> ids]

Smallest(S) == CHOOSE x \in S : \A y \in S : x <= y

\* _overlap_conflict_ids.
OverlapConflictIds(k) ==
    (UNION {x.related : x \in {y \in k.rejected : y.reason = "OVERLAP"}}) \ DOMAIN k.draft

\* _repair_eligibility_trace, as the reason a commitment is not eligible.
Ineligible(c) ==
    CASE CommitmentKind(c) = "CREW" -> "CREW_REPAIR_UNSUPPORTED"
      [] CommitmentKind(c) = None   -> "SINGLE_KIND_EVIDENCE_UNKNOWN"
      [] CommitmentKind(c) = "SINGLE" ->
           IF world.plan[c].workers = {} THEN "CREW_REPAIR_UNSUPPORTED"
           ELSE IF world.plan[c].workers \subseteq Workers THEN None
           ELSE "SKILL_EVIDENCE_UNKNOWN"

OnlyWorker(c) == CHOOSE w \in world.plan[c].workers : TRUE

Expansion(d) == [draft |-> <<d>>, trace |-> <<>>, refused |-> FALSE]
NoExpansion(trace) == [draft |-> <<>>, trace |-> trace, refused |-> FALSE]

\* The proposed placement refuses its instants, and the search ends with it.
RefusedExpansion == [draft |-> <<>>, trace |-> <<>>, refused |-> TRUE]

\* _expanded_draft within the horizon, or the trace of the limit.
Expanded(d, c, placement, ids) ==
    LET fits == 0 <= placement.start /\ placement.start + world.task[c].dur <= Horizon IN
    CASE ~fits -> NoExpansion(<<Trace("SEARCH_ENVELOPE_LIMIT", ids)>>)
      [] fits /\ ~Proposable(placement.start, world.task[c].dur) -> RefusedExpansion
      [] fits /\ Proposable(placement.start, world.task[c].dur) ->
           Expansion([x \in {c} \cup DOMAIN d |-> IF x = c THEN placement ELSE d[x]])

\* The end of a change, and the change that ends last.
ChangeEnd(d, x) == d[x].start + world.task[x].dur

LatestChange(d) ==
    CHOOSE x \in DOMAIN d : \A y \in DOMAIN d \ {x} :
        \/ ChangeEnd(d, y) < ChangeEnd(d, x)
        \/ ChangeEnd(d, y) = ChangeEnd(d, x) /\ y < x

\* _expand_overlap: the commitment in the way goes behind the latest change.
ExpandOverlap(d, c) ==
    LET modified == DOMAIN d
        latest   == LatestChange(d)
    IN  CASE Cardinality(modified) >= MaxModified ->
               NoExpansion(<<Trace("SEARCH_ENVELOPE_LIMIT", modified \cup {c})>>)
          [] Cardinality(modified) < MaxModified /\ Ineligible(c) # None ->
               NoExpansion(<<Trace(Ineligible(c), {c})>>)
          [] OTHER ->
               Expanded(d, c, [worker |-> OnlyWorker(c), vehicle |-> world.plan[c].vehicle,
                               start |-> ChangeEnd(d, latest) + KnownTravel(latest, c)], {c})

\* _first_dependency_violation: the edges in the order of their ends.
DependencyViolations(k) ==
    {e \in AffectedDependencies(DOMAIN k.draft) :
        /\ Check("DEPENDENCY", "FAIL", {e[1], e[2]}) \in k.rejected
        /\ {e[1], e[2]} \cap DOMAIN k.draft # {}}

FirstDependencyViolation(k) ==
    CHOOSE e \in DependencyViolations(k) : \A f \in DependencyViolations(k) :
        e[1] < f[1] \/ (e[1] = f[1] /\ e[2] <= f[2])

\* _shared_route_seconds.
SharedRoute(a, p, b, q) == IF SharedResource(p, q) THEN KnownTravel(a, b) ELSE 0

\* _expand_dependency: the other end of the edge follows the modified one.
ExpandDependency(d, e) ==
    LET modified == DOMAIN d
        final    == FinalSchedule(d)
        after    == e[1] \in modified
        target   == IF after THEN e[2] ELSE e[1]
        dur      == world.task[target].dur
        worker   == IF target \in modified THEN d[target].worker ELSE OnlyWorker(target)
        vehicle  == IF target \in modified THEN d[target].vehicle ELSE world.plan[target].vehicle
        shape    == [workers |-> {worker}, vehicle |-> vehicle]
        start    == IF after
                    THEN final[e[1]].end + SharedRoute(e[1], final[e[1]], target, shape)
                    ELSE final[e[2]].start - SharedRoute(target, shape, e[2], final[e[2]]) - dur
    IN  CASE target \notin modified /\ Cardinality(modified) >= MaxModified ->
               NoExpansion(<<Trace("SEARCH_ENVELOPE_LIMIT", modified \cup {target})>>)
          [] ~(target \notin modified /\ Cardinality(modified) >= MaxModified)
             /\ Ineligible(target) # None ->
               NoExpansion(<<Trace(Ineligible(target), {target})>>)
          [] OTHER ->
               Expanded(d, target, [worker |-> worker, vehicle |-> vehicle, start |-> start],
                        modified \cup {target})

\* _expand_first_repairable_rejection.
ExpandFirst(k) ==
    CASE OverlapConflictIds(k) # {} -> ExpandOverlap(k.draft, Smallest(OverlapConflictIds(k)))
      [] OverlapConflictIds(k) = {} /\ DependencyViolations(k) # {} ->
           ExpandDependency(k.draft, FirstDependencyViolation(k))
      [] OTHER -> NoExpansion(<<>>)

(***************************************************************************)
(* The result                                                              *)
(***************************************************************************)

Feasible == {i \in DOMAIN candidates : candidates[i].feasible}

Limits(trace) == {x \in trace : x.reason = "SEARCH_ENVELOPE_LIMIT"}

\* M3RepairCandidate.__post_init__ and M3BoundedFeasibilityResult.__post_init__.
ResultOK(outcome, f) ==
    /\ Len(candidates) <= MaxEvaluated
    /\ \A i \in DOMAIN candidates : Cardinality(DOMAIN candidates[i].draft) \in 1..MaxModified
    /\ f.exhausted <=> Limits(f.trace) # {}
    /\ outcome = "FEASIBLE_CANDIDATES_FOUND" <=> Feasible # {}
    /\ f.exhausted /\ Feasible = {} => outcome = "SEARCH_ENVELOPE_EXHAUSTED"
    /\ outcome = "SEARCH_ENVELOPE_EXHAUSTED" => f.exhausted
    /\ outcome = "ALL_EVALUATED_CANDIDATES_REJECTED" => ~f.exhausted

ResultOf(outcome, f) ==
    [outcome |-> outcome, exhausted |-> f.exhausted, insufficient |-> f.insufficient,
     trace |-> f.trace, unsupported |-> OfKind("CREW")]

\* _make_result: the constructor raises on a result it refuses.
MakeResult(outcome, f) ==
    ResultOf(IF ResultOK(outcome, f) THEN outcome ELSE "RESULT_REFUSED", f)

\* The search raises: a placement it would propose is refused.
PlacementRefused == ResultOf("PLACEMENT_REFUSED", found)

\* The outcome of a search that has ended.
Outcome(f) ==
    CASE Feasible # {} -> "FEASIBLE_CANDIDATES_FOUND"
      [] Feasible = {} /\ f.exhausted -> "SEARCH_ENVELOPE_EXHAUSTED"
      [] Feasible = {} /\ ~f.exhausted /\ f.insufficient # {} -> "INSUFFICIENT_CRITICAL_EVIDENCE"
      [] Feasible = {} /\ ~f.exhausted /\ f.insufficient = {} ->
           IF OfKind("CREW") # {} THEN "CREW_REPAIR_UNSUPPORTED"
           ELSE "ALL_EVALUATED_CANDIDATES_REJECTED"

(***************************************************************************)
(* The search                                                              *)
(***************************************************************************)

NoStream == [pair |-> 0, probes |-> 0, budgetOut |-> FALSE, starts |-> <<>>,
             vehicles |-> <<>>, anchor |-> 1, vehicle |-> 1]

NothingFound == [exhausted |-> FALSE, truncated |-> FALSE, insufficient |-> {}, trace |-> {}]

Init ==
    /\ world \in Worlds
    /\ stream = None
    /\ pending = <<>>
    /\ candidates = <<>>
    /\ seen = {}
    /\ found = NothingFound
    /\ result = None

Fresh == result = None /\ stream = None

Return(r) ==
    /\ result' = r
    /\ UNCHANGED <<world, stream, pending, candidates, seen>>

\* The two inputs do not belong together.
RefuseBinding ==
    /\ Fresh
    /\ ~ContextOK
    /\ Return(MakeResult("BINDING_ERROR", NothingFound))
    /\ UNCHANGED found

\* The traces of the direct commitments that cannot be repaired.
KindTrace ==
    {Trace("CREW_REPAIR_UNSUPPORTED", {c}) : c \in OfKind("CREW")}
    \cup {Trace("SINGLE_KIND_EVIDENCE_UNKNOWN", {c}) : c \in OfKind(None)}

\* Nothing is affected, or nothing affected may be repaired autonomously.
ReturnAtOnce ==
    /\ Fresh
    /\ ContextOK
    /\ OfKind("SINGLE") = {}
    /\ found' = [NothingFound EXCEPT !.insufficient = OfKind(None), !.trace = KindTrace]
    /\ Return(MakeResult(
          CASE world.direct = {} -> "NO_REPAIR_REQUIRED"
            [] world.direct # {} /\ OfKind(None) = {} -> "CREW_REPAIR_UNSUPPORTED"
            [] OTHER -> "INSUFFICIENT_CRITICAL_EVIDENCE", found'))

Begin ==
    /\ Fresh
    /\ ContextOK
    /\ OfKind("SINGLE") # {}
    /\ stream' = NoStream
    /\ found' = [NothingFound EXCEPT !.insufficient = OfKind(None), !.trace = KindTrace]
    /\ UNCHANGED <<world, pending, candidates, seen, result>>

\* The loop of generate_bounded_repair_candidates asks for another draft.
Searching == result = None /\ stream # None /\ Len(candidates) < MaxEvaluated

\* The traces of an expansion that count as missing evidence.
EvidenceTraces == {"SINGLE_KIND_EVIDENCE_UNKNOWN", "SKILL_EVIDENCE_UNKNOWN", "AVAILABILITY_UNKNOWN"}

\* One draft is validated and its first repairable rejection is expanded.
Examine(d, rest) ==
    \E final \in {FinalSchedule(d)} : \E rejected \in {Rejections(d, final)} :
    \E k \in {EvaluateDraft(d, final, rejected)} : \E x \in {ExpandFirst(k)} :
        LET trace == {x.trace[i] : i \in DOMAIN x.trace}
            fresh == x.draft # <<>> /\ x.draft[1] \notin seen \cup {d}
            room  == Len(candidates) + 1 < MaxEvaluated
        IN  /\ result' = IF x.refused THEN PlacementRefused ELSE result
            /\ seen' = seen \cup {d}
            /\ candidates' = Append(candidates, k)
            /\ pending' = IF fresh /\ room THEN x.draft \o rest ELSE rest
            /\ found' =
                 [exhausted |-> found.exhausted \/ Limits(trace) # {} \/ (fresh /\ ~room),
                  truncated |-> found.truncated \/ (fresh /\ ~room),
                  insufficient |->
                      found.insufficient
                      \cup (IF \E c \in k.rejected : c.status = "UNKNOWN" THEN DOMAIN d ELSE {})
                      \cup UNION {t.ids : t \in {y \in trace : y.reason \in EvidenceTraces}},
                  trace |-> found.trace \cup trace]

\* A signature looked at before is passed over.
Draw(d, rest) ==
    IF d \in seen
    THEN pending' = rest /\ UNCHANGED <<candidates, seen, found, result>>
    ELSE Examine(d, rest)

TakePending ==
    /\ Searching
    /\ pending # <<>>
    /\ Draw(Head(pending), Tail(pending))
    /\ UNCHANGED <<world, stream>>

SeedFits == stream.starts[stream.anchor] + world.task[SeedCommitment].dur <= Horizon

SeedProposable == Proposable(stream.starts[stream.anchor], world.task[SeedCommitment].dur)

TakeSeed ==
    /\ Searching
    /\ pending = <<>>
    /\ AtDraft /\ SeedFits /\ SeedProposable
    /\ \E d \in {SeedDraft} : Draw(d, <<>>)
    /\ stream' = Advanced
    /\ UNCHANGED world

\* next_draft raises on an anchor with a fraction of a second, and the whole
\* search with it.
RefuseSeed ==
    /\ Searching
    /\ pending = <<>>
    /\ AtDraft /\ SeedFits /\ ~SeedProposable
    /\ Return(PlacementRefused)
    /\ UNCHANGED found

\* next_draft goes on to the next one without a word.
SkipSeedBeyondHorizon ==
    /\ Searching
    /\ pending = <<>>
    /\ AtDraft /\ ~SeedFits
    /\ stream' = Advanced
    /\ UNCHANGED <<world, pending, candidates, seen, found, result>>

\* _probe_next_pair.
ProbeNextPair ==
    /\ Searching
    /\ pending = <<>>
    /\ ~AtDraft
    /\ stream.pair < TotalPairs
    /\ ~stream.budgetOut
    /\ stream' =
         IF stream.probes >= MaxProbes
         THEN [stream EXCEPT !.budgetOut = TRUE]
         ELSE LET next == [stream EXCEPT !.pair = @ + 1] IN
              [next EXCEPT !.probes = @ + 1, !.anchor = 1, !.vehicle = 1,
                           !.starts = AnchorStarts(PairCommitment(next.pair), PairWorker(next.pair)),
                           !.vehicles = VehicleOptions(PairCommitment(next.pair), PairWorker(next.pair))]
    /\ UNCHANGED <<world, pending, candidates, seen, found, result>>

\* The loop has ended: the budget is used, or there is no draft left.
LoopEnded ==
    /\ result = None /\ stream # None
    /\ \/ Len(candidates) >= MaxEvaluated
       \/ pending = <<>> /\ ~AtDraft /\ (stream.pair >= TotalPairs \/ stream.budgetOut)

\* Mutation: the end of the probes is not traced.
BudgetTraceOfEvaluations ==
    IF /\ Len(candidates) >= MaxEvaluated
       /\ found.truncated \/ pending # <<>> \/ HasUnexplored
    THEN {Trace("SEARCH_ENVELOPE_LIMIT", OfKind("SINGLE"))}
    ELSE {}

\* The limits of the seed pairs and of the evaluations, as they are traced.
BudgetTrace ==
    LET limit == Trace("SEARCH_ENVELOPE_LIMIT", OfKind("SINGLE"))
        spent == /\ Len(candidates) >= MaxEvaluated
                 /\ found.truncated \/ pending # <<>> \/ HasUnexplored
    IN  IF stream.budgetOut \/ spent THEN {limit} ELSE {}

Finish ==
    /\ LoopEnded
    /\ found' = [found EXCEPT !.exhausted = @ \/ BudgetTrace # {} \/ stream.budgetOut,
                             !.trace = @ \cup BudgetTrace]
    /\ Return(MakeResult(Outcome(found'), found'))

Next ==
    \/ RefuseBinding
    \/ ReturnAtOnce
    \/ Begin
    \/ TakePending
    \/ TakeSeed
    \/ RefuseSeed
    \/ SkipSeedBeyondHorizon
    \/ ProbeNextPair
    \/ Finish

\* One call of the search runs to its end.
Spec == Init /\ [][Next]_vars /\ WF_vars(Next)

(***************************************************************************)
(* Properties                                                              *)
(***************************************************************************)

\* The instants a commitment takes, and who and what it takes, under a draft.
StartOf(d, c) == IF c \in DOMAIN d THEN d[c].start ELSE world.plan[c].start

LengthOf(d, c) == IF c \in DOMAIN d THEN world.task[c].dur ELSE world.plan[c].dur

OnSite(d, c) == StartOf(d, c)..(StartOf(d, c) + LengthOf(d, c) - 1)

Takes(d, c) ==
    IF c \in DOMAIN d
    THEN {<<"worker", d[c].worker>>, <<"vehicle", d[c].vehicle>>} \ {<<"vehicle", None>>}
    ELSE ({<<"worker", w>> : w \in world.plan[c].workers}
          \cup {<<"vehicle", world.plan[c].vehicle>>}) \ {<<"vehicle", None>>}

TakenTwice(d, c, o) == Takes(d, c) \cap Takes(d, o) # {} /\ OnSite(d, c) \cap OnSite(d, o) # {}

\* A stop of r comes right after another one: nothing of r in between.
Between(d, a, b) == (StartOf(d, a) + LengthOf(d, a))..(StartOf(d, b) - 1)

InTime(d, a, b) ==
    LET before == \A x \in OnSite(d, a), y \in OnSite(d, b) : x < y
        idle   == Between(d, a, b)
        next   == \E r \in Takes(d, a) \cap Takes(d, b) : \A c \in Active :
                      r \in Takes(d, c) => OnSite(d, c) \cap idle = {}
    IN  before /\ next /\ ~SamePlace(a, b) =>
            RouteBetween(a, b) # None /\ Cardinality(idle) >= RouteBetween(a, b)

Covered(avail, instants) ==
    avail.known /\ \E x \in avail.windows : instants \subseteq (x[1]..(x[2] - 1))

Inside(window, instants) ==
    \/ window.state = "ABSENT"
    \/ window.state = "KNOWN" /\ instants \subseteq (window.from..(window.to - 1))

\* A draft that can be carried out, told from the instants alone.
CanBeCarriedOut(d) ==
    \A c \in DOMAIN d :
        LET task == world.task[c]
            site == OnSite(d, c)
        IN  /\ world.worker[d[c].worker].level # None
            /\ world.worker[d[c].worker].level >= task.level
            /\ Covered(world.worker[d[c].worker].avail, site)
            /\ task.ready = "READY"
            /\ task.class # None =>
                 /\ d[c].vehicle # None
                 /\ task.class \in world.vehicle[d[c].vehicle].classes
                 /\ Covered(world.vehicle[d[c].vehicle].avail, site)
            /\ Inside(task.window, site) /\ Inside(task.deadline, site)
            /\ site \subseteq 0..(Horizon - 1)
            /\ \A o \in Active \ {c} :
                 /\ ~TakenTwice(d, c, o)
                 /\ InTime(d, c, o) /\ InTime(d, o, c)
                 /\ <<c, o>> \in world.edges => \A x \in site, y \in OnSite(d, o) : x < y
                 /\ <<o, c>> \in world.edges => \A x \in site, y \in OnSite(d, o) : y < x

\* In a plan that books nothing twice, a candidate called FEASIBLE can be
\* carried out: nobody and no vehicle of a changed commitment is in two places
\* at once or late from its last stop, the evidence is there, and no explicit
\* dependency is turned round (_evaluate_draft).
FeasibleMeansFeasible ==
    (\A c, o \in Active : c # o => ~TakenTwice(<<>>, c, o)) =>
        \A i \in Feasible : CanBeCarriedOut(candidates[i].draft)

Evaluated == {candidates[i].draft : i \in DOMAIN candidates}

\* Every seed the anchors, workers and vehicles allow inside the horizon.
AllSeeds ==
    {d \in UNION {[{x[1]} -> [worker : {x[2]}, vehicle : Range(VehicleOptions(x[1], x[2])),
                              start : AnchorSet(x[1], x[2])]] :
                        x \in OfKind("SINGLE") \X (Workers \ {world.unavailable})} :
        \A c \in DOMAIN d : d[c].start + world.task[c].dur <= Horizon}

\* The search came to a result: no constructor raised.
Answered == result # None /\ result.outcome \notin {"PLACEMENT_REFUSED", "RESULT_REFUSED"}

\* The whole budget went to the drafts of one commitment for one worker.
WholeBudgetOn(c, w) ==
    /\ Len(candidates) = MaxEvaluated
    /\ \A e \in Evaluated : DOMAIN e = {c} /\ e[c].worker = w

\* The one cut the search does not report: the placement planned for today runs
\* over the end of the horizon, is an anchor all the same and is passed over
\* (next_draft), so that as many anchors fit as there are evaluations, and the
\* anchors cut off behind them are forgotten with the pair (_anchor_starts,
\* has_unexplored).
CutUnreported ==
    {d \in AllSeeds : \E c \in DOMAIN d :
        /\ world.plan[c].start \in 0..(Horizon - 1)
        /\ world.plan[c].start + world.task[c].dur > Horizon
        /\ d[c].start \notin Range(AnchorStarts(c, d[c].worker))
        /\ WholeBudgetOn(c, d[c].worker)}

\* A search that does not report an exhausted envelope has left nothing out
\* but the one cut above, which can only be when a direct commitment is planned
\* over the end of the horizon: every other seed inside the horizon and every
\* expansion was validated, however the anchors, the pairs and the evaluations
\* are capped; and a conclusive rejection rests on known evidence about every
\* affected commitment (generate_bounded_repair_candidates).
ExhaustionHonest ==
    /\ Answered
    /\ stream # None
    /\ ~result.exhausted
    =>
    /\ AllSeeds \subseteq Evaluated \cup CutUnreported
    /\ \A i \in DOMAIN candidates : LET x == ExpandFirst(candidates[i]) IN
           /\ x.draft # <<>> => x.draft[1] \in Evaluated
           /\ \A n \in DOMAIN x.trace : x.trace[n].reason # "SEARCH_ENVELOPE_LIMIT"
    /\ result.outcome = "ALL_EVALUATED_CANDIDATES_REJECTED" =>
           /\ world.direct = OfKind("SINGLE")
           /\ \A i \in DOMAIN candidates : \A c \in candidates[i].rejected : c.status = "FAIL"

\* The instants a seed can be anchored to: the planned starts and ends, and the
\* known shifts and customer windows.
AnchoringInstants ==
    {world.plan[c].start : c \in Active} \cup {EndOf(world.plan[c]) : c \in Active}
    \cup (UNION {{x[1], x[2]} : x \in
             UNION {world.worker[w].avail.windows :
                 w \in {v \in Workers \ {world.unavailable} : world.worker[v].avail.known}}})
    \cup UNION {{world.task[c].window.from, world.task[c].window.to} :
            c \in {a \in OfKind("SINGLE") : world.task[a].window.state = "KNOWN"}}

\* A placement is refused on a fraction of a second in those instants only:
\* nothing a repair is expanded from, no vehicle's shift, no deadline and no
\* route is a reason to raise (ProposedWorkerPlacement.__post_init__,
\* next_draft, _expand_overlap, _expand_dependency).
RefusedOnFractionsOnly ==
    result # None /\ result.outcome = "PLACEMENT_REFUSED" =>
        \E t \in AnchoringInstants : ~OnTheSecond(t)

\* Every search ends.  It comes to a result its constructor accepts or to a
\* refusal of the pair of inputs, and is never cut off by its own check of the
\* exhaustion flag against the trace (_make_result); it raises only where an
\* instant it anchors a seed to has a fraction of a second, which the evidence
\* may have and a proposed placement may not.
SearchConcludes == <>(result # None /\ result.outcome # "RESULT_REFUSED" /\ RefusedOnFractionsOnly)
=============================================================================
