--------------------------- MODULE DispatchPlanner ---------------------------
(***************************************************************************)
(* M7: the deterministic daily planner (dispatch/planner.py and the facts  *)
(* of dispatch/models.py), as operators.                                   *)
(*                                                                         *)
(* A world w holds the facts no operation of M7 changes: the assignments   *)
(* with their job, worker, skills, vehicle, hard deadline and status, the  *)
(* jobs with a confirmed address, the worker, the vehicles, the valid      *)
(* routes and the working day.  The placements cal and the material        *)
(* readiness mat change.  An assignment is a number: the numbers are in    *)
(* the order of the names (job, task) that break the last tie, and one     *)
(* number stands for the assignment and for its task.  A job has one       *)
(* workflow; the job stands for it.  Times are numbers.                    *)
(***************************************************************************)
EXTENDS Integers, Sequences, FiniteSets, SequencesExt

CONSTANT None

(* What the constructors of the facts accept.                              *)
CalendarStatus == {"CONFIRMED", "IN_PROGRESS", "COMPLETED", "CANCELLED"}

AssignmentOK(t) ==
    /\ t.start \in Nat /\ t.end \in Nat /\ t.start < t.end
    /\ t.deadline \in Nat \cup {None}
    /\ t.status \in CalendarStatus
    /\ t.job # None

MaterialOK(x) ==
    /\ x.status \in {"READY", "EXPECTED", "BLOCKED"}
    /\ x.at \in Nat \cup {None} /\ x.blocking \in BOOLEAN /\ x.rev \in Nat
    /\ x.blocking /\ x.status = "EXPECTED" => x.at # None

RouteOK(r) == r.time \in Nat

WindowsOK(windows) == \A x \in windows : x[1] < x[2]

WorldOK(w) ==
    /\ DOMAIN w.assign \subseteq Nat /\ IsFiniteSet(DOMAIN w.assign)
    /\ DOMAIN w.materials = DOMAIN w.assign
    /\ \A a \in DOMAIN w.assign :
          /\ AssignmentOK(w.assign[a])
          /\ w.materials[a] = None \/ MaterialOK(w.materials[a])
    /\ \A r \in w.routes : RouteOK(r)
    /\ WindowsOK(w.worker.windows) /\ \A v \in DOMAIN w.vehicles : WindowsOK(w.vehicles[v])
    /\ w.now \in Nat /\ w.day \in Nat \X Nat /\ w.day[1] < w.day[2]

(* DispatchWorker, DispatchVehicle: availability is a set of windows.      *)
Covers(from, to, windows) == \E x \in windows : x[1] <= from /\ to <= x[2]

(* A fold's state: the candidate of an ordering, or ok = FALSE.            *)
Fresh(from) ==
    [ok |-> TRUE, cursor |-> from, prev |-> None, place |-> <<>>,
     idle |-> 0, travel |-> 0, legs |-> <<>>, conditional |-> FALSE]

Rejected(c) == [c EXCEPT !.ok = FALSE]

RoutesBetween(w, a, b) == { r \in w.routes : r.from = a /\ r.to = b }

(* One assignment of an ordering: travel from the previous job, the wait   *)
(* for expected material, then the hard constraints in the order of the    *)
(* code.  The duration is the one of the confirmed placement.              *)
PlaceNext(w, cal, mat, c, a) ==
    LET job      == w.assign[a].job
        moves    == c.prev # None /\ c.prev # job
        legs     == IF moves THEN RoutesBetween(w, c.prev, job) ELSE {}
        leg      == CHOOSE r \in legs : TRUE
        cursor   == c.cursor + (IF legs # {} THEN leg.time ELSE 0)
        waits    == mat[a].blocking /\ mat[a].status = "EXPECTED"
        earliest == IF waits /\ mat[a].at > cursor THEN mat[a].at ELSE cursor
        end      == earliest + (cal[a].end - cal[a].start)
    IN  IF \/ ~ c.ok
           \/ moves /\ legs = {}
           \/ mat[a] = None
        THEN Rejected(c)
        ELSE IF \/ mat[a].blocking /\ mat[a].status = "BLOCKED"
                \/ end > w.day[2]
                \/ w.assign[a].deadline # None /\ end > w.assign[a].deadline
                \/ ~ Covers(earliest, end, w.worker.windows)
                \/ /\ w.assign[a].vehicle # None
                   /\ \/ w.assign[a].vehicle \notin DOMAIN w.vehicles
                      \/ ~ Covers(earliest, end, w.vehicles[w.assign[a].vehicle])
        THEN Rejected(c)
        ELSE [c EXCEPT !.cursor = end, !.prev = job,
                       !.place = Append(@, [id |-> a, start |-> earliest, end |-> end]),
                       !.idle = @ + (earliest - cursor),
                       !.travel = @ + (IF moves THEN leg.time ELSE 0),
                       !.legs = IF moves THEN Append(@, leg) ELSE @,
                       !.conditional = @ \/ waits]

(* The assignments of an ordering, one after the other.                    *)
PlaceAll(w, cal, mat, order, from) ==
    LET placed[i \in 0 .. Len(order)] ==
            IF i = 0 THEN Fresh(from)
            ELSE PlaceNext(w, cal, mat, placed[i - 1], order[i])
    IN  placed[Len(order)]

EvaluateOrderFromDayStart(w, cal, mat, order) == PlaceAll(w, cal, mat, order, w.day[1])

EvaluateOrder(w, cal, mat, order) ==
    PlaceAll(w, cal, mat, order, IF w.day[1] > w.now THEN w.day[1] ELSE w.now)

-----------------------------------------------------------------------------
(* plan.                                                                   *)

(* The unfinished assignments of the jobs that start on the planning day.  *)
Candidates(w, cal, jobs) ==
    { a \in DOMAIN w.assign : /\ w.assign[a].job \in jobs
                              /\ w.assign[a].status \notin {"COMPLETED", "CANCELLED"}
                              /\ cal[a].start \in w.date }

MaxReordered == 3

(* The conditions that end the planning before an ordering is tried.       *)
PlanRefused(w, cand) ==
    \/ cand = {}
    \/ Cardinality(cand) > MaxReordered
    \/ \E a \in cand :
          \/ w.assign[a].status = "IN_PROGRESS"
          \/ w.assign[a].worker # w.worker.id
          \/ w.assign[a].job \notin w.confirmed
          \/ ~ w.assign[a].skills \subseteq w.worker.skills
    \/ \E r \in w.routes : Cardinality(RoutesBetween(w, r.from, r.to)) > 1

Orderings(S) ==
    { o \in [1 .. Cardinality(S) -> S] : \A i, j \in DOMAIN o : o[i] = o[j] => i = j }

OriginalOrder(cal, cand) ==
    CHOOSE o \in Orderings(cand) :
        \A i, j \in DOMAIN o :
            i < j => \/ cal[o[i]].start < cal[o[j]].start
                     \/ cal[o[i]].start = cal[o[j]].start /\ o[i] < o[j]

Moved(cal, p) == p.start # cal[p.id].start \/ p.end # cal[p.id].end

(* The ranking: changed commitments, idle time, travel time, names.        *)
Rank(cal, c) ==
    <<Cardinality({ i \in DOMAIN c.place : Moved(cal, c.place[i]) }), c.idle, c.travel>>
        \o [ i \in DOMAIN c.place |-> c.place[i].id ]

RanksBefore(r, s) ==
    \E i \in DOMAIN r : r[i] < s[i] /\ \A j \in 1 .. i - 1 : r[j] = s[j]

Best(cal, evaluated) ==
    CHOOSE c \in evaluated :
        \A d \in evaluated : d = c \/ RanksBefore(Rank(cal, c), Rank(cal, d))

OrderOf(c) == [ i \in DOMAIN c.place |-> c.place[i].id ]

(* The proposal: its content is what the fingerprint hashes, and stands    *)
(* for the fingerprint and for the id made of it.  Only the assignments    *)
(* that move, and their jobs, are bound to revisions.                      *)
Proposal(w, cal, mat, rev, initiating, best) ==
    LET after == [ a \in { p.id : p \in ToSet(best.place) } |->
                     CHOOSE p \in ToSet(best.place) : p.id = a ]
        moved == { a \in DOMAIN after : Moved(cal, after[a]) }
        jobs  == { w.assign[a].job : a \in moved }
    IN  [initiating |-> initiating,
         moved      |-> moved,
         jobs       |-> jobs,
         before     |-> [ a \in DOMAIN after |-> [start |-> cal[a].start, end |-> cal[a].end] ],
         after      |-> [ a \in DOMAIN after |-> [start |-> after[a].start, end |-> after[a].end] ],
         jobRev     |-> [ j \in jobs |-> rev[j] ],
         calRev     |-> [ a \in moved |-> cal[a].rev ],
         matRev     |-> [ a \in { b \in DOMAIN w.assign :
                                    mat[b] # None /\ w.assign[b].job \in jobs } |->
                            mat[a].rev ],
         legs       |-> best.legs]

Answer(status, proposal) == [status |-> status, proposal |-> proposal]

Plan(w, cal, mat, rev, initiating, jobs) ==
    LET cand      == Candidates(w, cal, jobs)
        evaluated == { c \in { EvaluateOrder(w, cal, mat, o) : o \in Orderings(cand) } : c.ok }
        best      == Best(cal, evaluated)
        original  == OriginalOrder(cal, cand)
    IN  IF PlanRefused(w, cand) \/ evaluated = {}
        THEN Answer("NO_FEASIBLE_REPLAN", None)
        ELSE IF OrderOf(best) # original
        THEN Answer("PROPOSAL_CREATED", Proposal(w, cal, mat, rev, initiating, best))
        ELSE Answer(IF \E i \in DOMAIN best.place : Moved(cal, best.place[i])
                    THEN "NO_FEASIBLE_REPLAN" ELSE "NO_CHANGE", None)
=============================================================================
