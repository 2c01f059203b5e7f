--------------------------- MODULE PlanningProofs ---------------------------
(***************************************************************************)
(* Theorems about M3.  First the bounded repair search, for every plan,    *)
(* every support, every horizon and every bound; then the plan chains and  *)
(* evaluation inputs, for every set of companies and contents, any number  *)
(* of revisions, and every order of imports, field events, reports and     *)
(* recordings.  The two are state machines that share no variable.         *)
(***************************************************************************)
EXTENDS EvaluationInput, BoundedFeasibility, FiniteSetTheorems, TLAPS

(* What the stream and the expansions propose: between one and MaxModified *)
(* commitments of the plan, each for a worker of the support, on a second  *)
(* and inside the horizon.                                                 *)
DraftOK(d) ==
    /\ DOMAIN d \subseteq Active /\ Cardinality(DOMAIN d) \in 1 .. MaxModified
    /\ \A c \in DOMAIN d : /\ d[c].worker \in Workers
                           /\ d[c].start \in Nat /\ d[c].start + world.task[c].dur <= Horizon
                           /\ OnTheSecond(d[c].start)

(* The evidence of a search that has begun. *)
Evidenced == world \in Worlds /\ ContextOK

(* Whole seconds add up to whole seconds. *)
LEMMA WholeSeconds ==
    ASSUME EvidenceOK
    PROVE  /\ OnTheSecond(0)
           /\ \A a, b, c \in Int : OnTheSecond(a) /\ OnTheSecond(b) /\ c \in {a + b, a - b} => OnTheSecond(c)
  <1> DEFINE S == Second
  <1>1. S \in Nat /\ S >= 1
    BY DEF EvidenceOK, BoundsOK
  <1> HIDE DEF S
  <1>2. ASSUME NEW q \in Int PROVE (S * q) % S = 0
    <2> DEFINE x == S * q
               k == x \div S
               m == q - k
    <2>1. x \in Int
      BY <1>1
    <2> HIDE DEF x
    <2>2. x % S \in 0 .. S - 1 /\ k \in Int /\ x = S * k + (x % S)
      BY <1>1, <2>1
    <2> HIDE DEF k
    <2>3. m \in Int /\ S * q = S * k + S * m
      BY <1>1, <2>2
    <2> HIDE DEF m
    <2>4. x % S = S * m
      <3>1. S * k \in Int /\ S * m \in Int
        BY <1>1, <2>2, <2>3
      <3> QED
        BY <2>1, <2>2, <2>3, <3>1 DEF x
    <2>5. ~(m >= 1)
      <3> SUFFICES ASSUME m >= 1 PROVE FALSE
        OBVIOUS
      <3>1. S * m >= S
        BY <1>1, <2>3
      <3> QED
        BY <1>1, <2>2, <2>4, <3>1
    <2>6. ~(m <= -1)
      <3> SUFFICES ASSUME m <= -1 PROVE FALSE
        OBVIOUS
      <3>1. S * m <= -S
        BY <1>1, <2>3
      <3> QED
        BY <1>1, <2>2, <2>4, <3>1
    <2>7. m = 0
      BY <2>3, <2>5, <2>6
    <2> QED
      BY <1>1, <2>4, <2>7 DEF x
  <1>3. \A a \in Int : a % S = 0 => \E q \in Int : a = S * q
    <2> SUFFICES ASSUME NEW a \in Int, a % S = 0 PROVE a = S * (a \div S) /\ a \div S \in Int
      OBVIOUS
    <2> QED
      BY <1>1
  <1>4. ASSUME NEW a \in Int, NEW b \in Int, a % S = 0, b % S = 0
        PROVE  (a + b) % S = 0 /\ (a - b) % S = 0
    <2>1. PICK q \in Int : a = S * q
      BY <1>3, <1>4
    <2>2. PICK t \in Int : b = S * t
      BY <1>3, <1>4
    <2>3. a + b = S * (q + t) /\ a - b = S * (q - t)
      BY <1>1, <2>1, <2>2
    <2>4. q + t \in Int /\ q - t \in Int
      OBVIOUS
    <2> QED
      BY <1>2, <2>3, <2>4
  <1>5. 0 % S = 0
    <2>1. 0 \in Int /\ S * 0 = 0
      BY <1>1
    <2> QED
      BY <1>2, <2>1
  <1> QED
    BY <1>4, <1>5 DEF S, OnTheSecond

(* The whole seconds of a length are no more than the length. *)
LEMMA TruncatedBelow ==
    ASSUME EvidenceOK, NEW t \in Nat
    PROVE  Truncated(t) \in Nat /\ Truncated(t) <= t
  <1>1. Second \in Nat /\ Second >= 1
    BY DEF EvidenceOK, BoundsOK
  <1>2. t % Second \in 0 .. Second - 1 /\ t \div Second \in Nat /\ t = Second * (t \div Second) + (t % Second)
    BY <1>1
  <1>3. Second * (t \div Second) \in Nat
    BY <1>1, <1>2
  <1> QED
    BY <1>2, <1>3 DEF Truncated

(* The commitments of a draft are finitely many and at least one.          *)
LEMMA DraftSize ==
    ASSUME Evidenced, NEW d, DraftOK(d)
    PROVE  /\ DOMAIN d \subseteq Active /\ DOMAIN d \subseteq Nat /\ DOMAIN d # {} /\ IsFiniteSet(DOMAIN d)
           /\ Cardinality(DOMAIN d) \in Nat /\ MaxModified \in Nat
  <1>1. IsFiniteSet(Active) /\ Active \subseteq Nat /\ MaxModified \in Nat
    BY EvidenceAssumption DEF Evidenced, EvidenceOK, BoundsOK, WorldOK, Active
  <1>2. DOMAIN d \subseteq Active /\ Cardinality(DOMAIN d) \in 1 .. MaxModified
    BY DEF DraftOK
  <1>3. IsFiniteSet(DOMAIN d)
    BY <1>1, <1>2, FS_Subset
  <1>4. DOMAIN d # {}
    <2>1. Cardinality({}) = 0
      BY FS_EmptySet
    <2> QED
      BY <1>2, <2>1
  <1>5. DOMAIN d \subseteq Nat
    BY <1>1, <1>2
  <1>6. Cardinality(DOMAIN d) \in Nat
    BY <1>1, <1>2
  <1> QED
    BY <1>1, <1>2, <1>3, <1>4, <1>5, <1>6

(* A task takes some whole seconds. *)
LEMMA TaskLength ==
    ASSUME Evidenced, NEW c \in Active
    PROVE  world.task[c].dur \in Nat \ {0} /\ world.task[c].dur \in Int /\ OnTheSecond(world.task[c].dur)
  BY EvidenceAssumption DEF Evidenced, EvidenceOK, WorldOK, ContextOK, Active

(* The final schedule of a draft, in the terms of instants and takings. *)
LEMMA ScheduleIs ==
    ASSUME Evidenced, NEW d, DraftOK(d), NEW c \in Active
    PROVE  LET p == FinalSchedule(d)[c] IN
           /\ world.task[c].dur \in Nat \ {0} /\ OnTheSecond(world.task[c].dur)
           /\ world.plan[c].start \in Int
           /\ p.start = StartOf(d, c) /\ p.start \in Int
           /\ p.end = p.start + LengthOf(d, c) /\ p.end \in Int /\ p.start < p.end
           /\ OnSite(d, c) = p.start .. (p.end - 1)
           /\ p.workers = (IF c \in DOMAIN d THEN {d[c].worker} ELSE world.plan[c].workers)
           /\ p.vehicle = (IF c \in DOMAIN d THEN d[c].vehicle ELSE world.plan[c].vehicle)
  <1>1. /\ world.task[c].dur \in Nat \ {0} /\ OnTheSecond(world.task[c].dur)
        /\ world.plan[c].dur \in Nat \ {0} /\ world.plan[c].start \in Int
    BY EvidenceAssumption DEF Evidenced, EvidenceOK, WorldOK, ContextOK, Active
  <1>2. c \in DOMAIN d => d[c].start \in Nat
    BY DEF DraftOK
  <1>3. StartOf(d, c) \in Int /\ LengthOf(d, c) \in Nat \ {0}
    BY <1>1, <1>2 DEF StartOf, LengthOf
  <1>4. /\ FinalSchedule(d)[c].start = StartOf(d, c)
        /\ FinalSchedule(d)[c].end = StartOf(d, c) + LengthOf(d, c)
        /\ FinalSchedule(d)[c].workers = (IF c \in DOMAIN d THEN {d[c].worker} ELSE world.plan[c].workers)
        /\ FinalSchedule(d)[c].vehicle = (IF c \in DOMAIN d THEN d[c].vehicle ELSE world.plan[c].vehicle)
    BY DEF FinalSchedule, StartOf, LengthOf, EndOf
  <1>5. OnSite(d, c) = StartOf(d, c) .. (StartOf(d, c) + LengthOf(d, c) - 1)
    BY DEF OnSite
  <1> QED
    BY <1>1, <1>3, <1>4, <1>5

(* Who and what a commitment takes, in the final schedule.                 *)
LEMMA TakesIs ==
    ASSUME NEW d, NEW c \in Active, NEW r
    PROVE  LET p == FinalSchedule(d)[c] IN
           r \in Takes(d, c) <=> \/ \E w \in p.workers : r = <<"worker", w>>
                                 \/ p.vehicle # None /\ r = <<"vehicle", p.vehicle>>
  BY DEF FinalSchedule, Takes

(* Two commitments share a resource in the final schedule exactly when     *)
(* they take the same worker or vehicle.                                   *)
LEMMA SharedIs ==
    ASSUME NEW d, NEW a \in Active, NEW b \in Active
    PROVE  LET f == FinalSchedule(d) IN
           SharedResource(f[a], f[b]) <=> Takes(d, a) \cap Takes(d, b) # {}
  <1> DEFINE p == FinalSchedule(d)[a]
             q == FinalSchedule(d)[b]
  <1>1. \A r : r \in Takes(d, a) <=> \/ \E w \in p.workers : r = <<"worker", w>>
                                     \/ p.vehicle # None /\ r = <<"vehicle", p.vehicle>>
    BY TakesIs
  <1>2. \A r : r \in Takes(d, b) <=> \/ \E w \in q.workers : r = <<"worker", w>>
                                     \/ q.vehicle # None /\ r = <<"vehicle", q.vehicle>>
    BY TakesIs
  <1> HIDE DEF p, q
  <1>3. SharedResource(p, q) <=> Takes(d, a) \cap Takes(d, b) # {}
    <2>1. ASSUME SharedResource(p, q) PROVE Takes(d, a) \cap Takes(d, b) # {}
      <3>1. CASE p.workers \cap q.workers # {}
        BY <1>1, <1>2, <3>1
      <3>2. CASE p.vehicle # None /\ p.vehicle = q.vehicle
        BY <1>1, <1>2, <3>2
      <3> QED
        BY <2>1, <3>1, <3>2 DEF SharedResource, SharedVehicle
    <2>2. ASSUME NEW r \in Takes(d, a) \cap Takes(d, b) PROVE SharedResource(p, q)
      <3>1. /\ \/ \E w \in p.workers : r = <<"worker", w>>
               \/ p.vehicle # None /\ r = <<"vehicle", p.vehicle>>
            /\ \/ \E w \in q.workers : r = <<"worker", w>>
               \/ q.vehicle # None /\ r = <<"vehicle", q.vehicle>>
        BY <1>1, <1>2, <2>2
      <3> QED
        BY <3>1 DEF SharedResource, SharedVehicle
    <2> QED
      BY <2>1, <2>2
  <1> QED
    BY <1>3 DEF p, q

(* Two intervals overlap exactly when they have an instant in common.      *)
LEMMA OverlapIs ==
    ASSUME Evidenced, NEW d, DraftOK(d), NEW a \in Active, NEW b \in Active
    PROVE  LET f == FinalSchedule(d) IN
           IntervalsOverlap(f[a], f[b]) <=> OnSite(d, a) \cap OnSite(d, b) # {}
  <1> DEFINE p == FinalSchedule(d)[a]
             q == FinalSchedule(d)[b]
  <1>1. /\ p.start \in Int /\ p.end \in Int /\ p.start < p.end /\ OnSite(d, a) = p.start .. (p.end - 1)
        /\ q.start \in Int /\ q.end \in Int /\ q.start < q.end /\ OnSite(d, b) = q.start .. (q.end - 1)
    BY ScheduleIs
  <1> HIDE DEF p, q
  <1>2. ASSUME p.start < q.end, q.start < p.end
        PROVE  OnSite(d, a) \cap OnSite(d, b) # {}
    <2>1. CASE p.start <= q.start
      <3>1. q.start \in p.start .. (p.end - 1) /\ q.start \in q.start .. (q.end - 1)
        BY <1>1, <1>2, <2>1
      <3> QED
        BY <1>1, <3>1
    <2>2. CASE q.start < p.start
      <3>1. p.start \in p.start .. (p.end - 1) /\ p.start \in q.start .. (q.end - 1)
        BY <1>1, <1>2, <2>2
      <3> QED
        BY <1>1, <3>1
    <2> QED
      BY <1>1, <2>1, <2>2
  <1>3. ASSUME NEW x \in OnSite(d, a), x \in OnSite(d, b)
        PROVE  p.start < q.end /\ q.start < p.end
    BY <1>1, <1>3
  <1>4. IntervalsOverlap(p, q) <=> OnSite(d, a) \cap OnSite(d, b) # {}
    BY <1>2, <1>3 DEF IntervalsOverlap
  <1> QED
    BY <1>4 DEF p, q

-----------------------------------------------------------------------------
(* What a draft without rejections has passed.                             *)

Passed(d) == Rejections(d, FinalSchedule(d)) = {}

(* A draft that is not rejected has passed the checks of its placements,   *)
LEMMA PlacementPassed ==
    ASSUME NEW d, Passed(d), NEW c \in DOMAIN d,
           NEW x \in PlacementChecks(c, d[c].worker, FinalSchedule(d)[c])
    PROVE  x.status = "PASS"
  BY DEF Passed, Rejections

(* and those of its overlaps, routes and dependencies.                     *)
LEMMA ChecksPassed ==
    ASSUME NEW d, Passed(d),
           NEW x \in OverlapChecks(FinalSchedule(d), DOMAIN d) \cup RouteChecks(FinalSchedule(d), DOMAIN d)
                     \cup DependencyChecks(FinalSchedule(d), DOMAIN d)
    PROVE  x.status = "PASS"
  BY DEF Passed, Rejections

(* A changed commitment overlaps no other one it shares a resource with.   *)
LEMMA NoOverlap ==
    ASSUME NEW d, Passed(d), NEW a \in Active, NEW b \in DOMAIN d, a # b
    PROVE  LET f == FinalSchedule(d) IN ~(SharedResource(f[a], f[b]) /\ IntervalsOverlap(f[a], f[b]))
  <1> DEFINE f == FinalSchedule(d)
             ab == <<a, b>>
             x == Check("OVERLAP", "FAIL", {a, b})
  <1> SUFFICES ASSUME SharedResource(f[a], f[b]), IntervalsOverlap(f[a], f[b])
               PROVE  FALSE
    OBVIOUS
  <1>1. ab \in {y \in Active \X DOMAIN d : /\ y[1] # y[2]
                                           /\ SharedResource(f[y[1]], f[y[2]])
                                           /\ IntervalsOverlap(f[y[1]], f[y[2]])}
    <2> HIDE DEF f
    <2>1. ab \in Active \X DOMAIN d /\ ab[1] = a /\ ab[2] = b
      OBVIOUS
    <2> QED
      BY <2>1
  <1> HIDE DEF f
  <1>2. {a, b} \in {{z[1], z[2]} : z \in {y \in Active \X DOMAIN d :
                                           /\ y[1] # y[2]
                                           /\ SharedResource(f[y[1]], f[y[2]])
                                           /\ IntervalsOverlap(f[y[1]], f[y[2]])}}
    BY <1>1
  <1>3. x \in OverlapChecks(f, DOMAIN d)
    BY <1>2 DEF OverlapChecks
  <1>4. x.status = "FAIL"
    BY DEF Check
  <1> QED
    BY <1>3, <1>4, ChecksPassed DEF f

(* No two commitments share anybody or anything at the same time. *)
LEMMA NothingTakenTwice ==
    ASSUME Evidenced, NEW d, DraftOK(d), Passed(d), NEW a \in Active, NEW b \in Active, a # b,
           \A c, o \in Active : c # o => ~TakenTwice(<<>>, c, o)
    PROVE  ~TakenTwice(d, a, b)
  <1> DEFINE f == FinalSchedule(d)
  <1>1. /\ SharedResource(f[a], f[b]) <=> Takes(d, a) \cap Takes(d, b) # {}
        /\ SharedResource(f[b], f[a]) <=> Takes(d, a) \cap Takes(d, b) # {}
    <2>1. Takes(d, a) \cap Takes(d, b) = Takes(d, b) \cap Takes(d, a)
      OBVIOUS
    <2> QED
      BY SharedIs, <2>1
  <1>2. /\ IntervalsOverlap(f[a], f[b]) <=> OnSite(d, a) \cap OnSite(d, b) # {}
        /\ IntervalsOverlap(f[b], f[a]) <=> OnSite(d, a) \cap OnSite(d, b) # {}
    <2>1. OnSite(d, a) \cap OnSite(d, b) = OnSite(d, b) \cap OnSite(d, a)
      OBVIOUS
    <2> QED
      BY OverlapIs, <2>1
  <1>3. CASE a \in DOMAIN d \/ b \in DOMAIN d
    BY <1>1, <1>2, <1>3, NoOverlap DEF TakenTwice
  <1>4. CASE a \notin DOMAIN d /\ b \notin DOMAIN d
    <2>1. DOMAIN <<>> = {}
      OBVIOUS
    <2>2. \A c \in {a, b} : Takes(d, c) = Takes(<<>>, c) /\ OnSite(d, c) = OnSite(<<>>, c)
      BY <1>4, <2>1 DEF Takes, OnSite, StartOf, LengthOf
    <2> QED
      BY <2>2 DEF TakenTwice
  <1> QED
    BY <1>3, <1>4

(* The travel the search allows for is a number of seconds.                *)
LEMMA TravelType ==
    ASSUME Evidenced, NEW a \in Active, NEW b \in Active
    PROVE  KnownTravel(a, b) \in Nat /\ OnTheSecond(KnownTravel(a, b))
  <1> DEFINE places == {world.task[c].loc : c \in Active}
             r == <<world.task[a].loc, world.task[b].loc>>
  <1>1. CASE SamePlace(a, b)
    BY <1>1, WholeSeconds, EvidenceAssumption DEF KnownTravel
  <1>2. CASE ~SamePlace(a, b)
    <2>1. r \in places \X places /\ r[1] # r[2]
      BY <1>2 DEF SamePlace
    <2>2. DOMAIN world.route = {q \in places \X places : q[1] # q[2]}
      BY DEF Evidenced, ContextOK
    <2>3. r \in DOMAIN world.route
      BY <2>1, <2>2
    <2>4. world.route[r] \in {n \in Nat : OnTheSecond(n)} \cup {None}
      BY <2>3, EvidenceAssumption DEF Evidenced, EvidenceOK, WorldOK
    <2> QED
      BY <1>2, <2>4, WholeSeconds, EvidenceAssumption DEF KnownTravel, RouteBetween
  <1> QED
    BY <1>1, <1>2

(* The stops of a worker or a vehicle. *)
Tour(d, r) == {c \in Active : r \in Takes(d, c)}

(* Two stops that follow each other on a tour, one of them changed, have   *)
(* passed the route check: the tour of the resource they share is one of   *)
(* those RouteChecks walks.                                                *)
LEMMA RoutePassed ==
    ASSUME NEW d, Passed(d), NEW r, NEW a, NEW b, DOMAIN d \subseteq Active,
           <<a, b>> \in Consecutive(FinalSchedule(d), Tour(d, r)), a \in DOMAIN d \/ b \in DOMAIN d
    PROVE  RouteStatus(FinalSchedule(d), a, b) = "PASS"
  <1> DEFINE f == FinalSchedule(d)
             modified == DOMAIN d
             workers  == UNION {f[c].workers : c \in modified}
             vehicles == {f[c].vehicle : c \in modified} \ {None}
             tours    == {{c \in Active : w \in f[c].workers} : w \in workers}
                         \cup {{c \in Active : f[c].vehicle = v} : v \in vehicles}
             x == Check("ROUTE", RouteStatus(f, a, b), {a, b})
             ab == <<a, b>>
  <1>1. a \in Tour(d, r) /\ b \in Tour(d, r)
    BY DEF Consecutive
  <1>2. PICK m \in modified : m \in Tour(d, r)
    BY <1>1
  <1>3. \A c \in Active : r \in Takes(d, c) <=> \/ \E w \in f[c].workers : r = <<"worker", w>>
                                                \/ f[c].vehicle # None /\ r = <<"vehicle", f[c].vehicle>>
    <2> TAKE c \in Active
    <2> QED
      BY TakesIs
  <1> HIDE DEF f
  <1>4. Tour(d, r) \in tours
    <2>1. CASE \E w \in f[m].workers : r = <<"worker", w>>
      <3>1. PICK w \in f[m].workers : r = <<"worker", w>>
        BY <2>1
      <3>2. \A c \in Active : r \in Takes(d, c) <=> w \in f[c].workers
        BY <1>3, <3>1
      <3>4. Tour(d, r) = {c \in Active : w \in f[c].workers}
        BY <3>2 DEF Tour
      <3>3. w \in workers
        BY <3>1, <1>2
      <3> QED
        BY <3>4, <3>3
    <2>2. CASE f[m].vehicle # None /\ r = <<"vehicle", f[m].vehicle>>
      <3>3. \A c \in Active : r \in Takes(d, c) <=> f[c].vehicle = f[m].vehicle
        BY <1>3, <2>2
      <3>1. Tour(d, r) = {c \in Active : f[c].vehicle = f[m].vehicle}
        BY <3>3 DEF Tour
      <3>2. f[m].vehicle \in vehicles
        BY <2>2, <1>2
      <3> QED
        BY <3>1, <3>2
    <2> QED
      BY <1>2, <1>3, <2>1, <2>2 DEF Tour
  <1>5. ab \in UNION {Consecutive(f, t) : t \in tours}
    <2>1. ab \in Consecutive(f, Tour(d, r))
      BY DEF f
    <2> HIDE DEF tours, ab
    <2> QED
      BY <1>4, <2>1
  <1>6. ab[1] = a /\ ab[2] = b
    OBVIOUS
  <1>7. x \in RouteChecks(f, modified)
    <2> DEFINE cs == UNION {Consecutive(f, t) : t \in tours}
               S == {y \in cs : y[1] \in modified \/ y[2] \in modified}
    <2>1. ab \in S
      BY <1>5, <1>6
    <2>2. RouteChecks(f, modified) = {Check("ROUTE", RouteStatus(f, y[1], y[2]), {y[1], y[2]}) : y \in S}
      BY DEF RouteChecks
    <2> HIDE DEF S, ab
    <2> QED
      BY <2>1, <2>2, <1>6
  <1>8. x.status = RouteStatus(f, a, b)
    BY DEF Check
  <1> QED
    BY <1>7, <1>8, ChecksPassed DEF f

(* Whoever goes from one stop straight to the next has the time for it. *)
LEMMA TravelInTime ==
    ASSUME Evidenced, NEW d, DraftOK(d), Passed(d), NEW a \in Active, NEW b \in Active, a # b,
           \A c, o \in Active : c # o => ~TakenTwice(<<>>, c, o),
           a \in DOMAIN d \/ b \in DOMAIN d
    PROVE  InTime(d, a, b)
  <1> DEFINE f == FinalSchedule(d)
             idle == Between(d, a, b)
  <1> SUFFICES ASSUME \A x \in OnSite(d, a), y \in OnSite(d, b) : x < y,
                      NEW r \in Takes(d, a) \cap Takes(d, b),
                      \A c \in Active : r \in Takes(d, c) => OnSite(d, c) \cap idle = {},
                      ~SamePlace(a, b)
               PROVE  RouteBetween(a, b) # None /\ Cardinality(idle) >= RouteBetween(a, b)
    BY DEF InTime
  <1>1. \A c \in Active : /\ f[c].start = StartOf(d, c) /\ f[c].start \in Int /\ f[c].end \in Int
                          /\ f[c].start < f[c].end /\ f[c].end = f[c].start + LengthOf(d, c)
                          /\ OnSite(d, c) = f[c].start .. (f[c].end - 1)
    <2> TAKE c \in Active
    <2> QED
      BY ScheduleIs
  <1>2. \A c, o \in Active : c # o /\ r \in Takes(d, c) /\ r \in Takes(d, o) => ~IntervalsOverlap(f[c], f[o])
    <2> TAKE c \in Active, o \in Active
    <2> HAVE c # o /\ r \in Takes(d, c) /\ r \in Takes(d, o)
    <2>1. ~TakenTwice(d, c, o)
      BY NothingTakenTwice
    <2> QED
      BY <2>1, OverlapIs DEF TakenTwice
  <1> HIDE DEF f
  <1>3. f[a].end - 1 \in OnSite(d, a) /\ f[b].start \in OnSite(d, b)
    BY <1>1
  <1>4. f[a].end <= f[b].start
    BY <1>1, <1>3
  <1>5. idle = f[a].end .. (f[b].start - 1)
    BY <1>1 DEF Between
  <1> HIDE DEF idle
  <1>6. <<a, b>> \in Consecutive(f, Tour(d, r))
    <2>1. Precedes(f, a, b)
      BY <1>1, <1>4 DEF Precedes
    <2>2. a \in Tour(d, r) /\ b \in Tour(d, r)
      BY DEF Tour
    <2>3. ASSUME NEW x \in Tour(d, r), Precedes(f, a, x), Precedes(f, x, b)
          PROVE  FALSE
      <3>1. x \in Active /\ r \in Takes(d, x)
        BY DEF Tour
      <3>2. a \in Int /\ b \in Int /\ x \in Int
        BY <3>1, EvidenceAssumption DEF Evidenced, EvidenceOK, WorldOK, Active
      <3>3. x # a /\ x # b
        BY <1>1, <2>3, <3>1, <3>2 DEF Precedes
      <3>4. f[a].start <= f[x].start /\ f[x].start <= f[b].start
        BY <1>1, <2>3, <3>1, <3>2 DEF Precedes
      <3>5. ~IntervalsOverlap(f[a], f[x]) /\ ~IntervalsOverlap(f[x], f[b])
        BY <1>2, <3>1, <3>3
      <3>6. f[a].end <= f[x].start /\ f[x].end <= f[b].start
        BY <1>1, <3>1, <3>4, <3>5 DEF IntervalsOverlap
      <3>7. f[x].start \in OnSite(d, x) /\ f[x].start \in idle
        BY <1>1, <1>5, <3>1, <3>6
      <3> QED
        BY <3>1, <3>7
    <2>4. <<a, b>> \in Tour(d, r) \X Tour(d, r) /\ <<a, b>>[1] = a /\ <<a, b>>[2] = b
      BY <2>2
    <2> QED
      BY <2>1, <2>3, <2>4 DEF Consecutive
  <1>7. RouteStatus(f, a, b) = "PASS"
    BY <1>6, RoutePassed DEF f, DraftOK
  <1>8. RouteBetween(a, b) # None /\ f[b].start - f[a].end >= RouteBetween(a, b)
    <2>1. RouteBetween(a, b) # None /\ Truncated(f[b].start - f[a].end) >= RouteBetween(a, b)
      BY <1>7 DEF RouteStatus, Verdict
    <2>2. RouteBetween(a, b) \in Nat
      BY <2>1, TravelType DEF KnownTravel
    <2>3. f[b].start - f[a].end \in Nat
      BY <1>1, <1>4
    <2> DEFINE gap == f[b].start - f[a].end
    <2>4. Truncated(gap) \in Nat /\ Truncated(gap) <= gap
      BY <2>3, TruncatedBelow, EvidenceAssumption
    <2> QED
      BY <2>1, <2>2, <2>3, <2>4
  <1>9. Cardinality(idle) = f[b].start - f[a].end
    <2>1. f[b].start - 1 \in Int
      BY <1>1
    <2>2. Cardinality(idle) = IF f[a].end > f[b].start - 1 THEN 0 ELSE f[b].start - 1 - f[a].end + 1
      BY <1>1, <1>5, <2>1, FS_Interval
    <2> QED
      BY <1>1, <1>4, <2>2
  <1> QED
    BY <1>8, <1>9

(* An explicit dependency of a changed commitment is kept. *)
LEMMA DependencyKept ==
    ASSUME Evidenced, NEW d, DraftOK(d), Passed(d), NEW a \in Active, NEW b \in Active,
           a \in DOMAIN d \/ b \in DOMAIN d, <<a, b>> \in world.edges
    PROVE  \A x \in OnSite(d, a), y \in OnSite(d, b) : x < y
  <1> DEFINE f == FinalSchedule(d)
             e == <<a, b>>
             x == Check("DEPENDENCY", Verdict(f[a].end <= f[b].start), {a, b})
  <1>1. e \in ActiveEdges /\ e[1] = a /\ e[2] = b
    BY DEF ActiveEdges
  <1>2. DOMAIN d \subseteq Downstream(ActiveEdges, DOMAIN d)
    BY DEF Downstream, DraftOK
  <1>3. e \in AffectedDependencies(DOMAIN d)
    BY <1>1, <1>2 DEF AffectedDependencies
  <1> HIDE DEF e, f
  <1>4. x \in DependencyChecks(f, DOMAIN d)
    BY <1>1, <1>3 DEF DependencyChecks
  <1>5. f[a].end <= f[b].start
    BY <1>4, ChecksPassed DEF Check, Verdict, f
  <1>6. \A c \in {a, b} : /\ f[c].start \in Int /\ f[c].end \in Int
                          /\ OnSite(d, c) = f[c].start .. (f[c].end - 1)
    <2> TAKE c \in {a, b}
    <2> QED
      BY ScheduleIs DEF f
  <1> QED
    BY <1>5, <1>6

(* An interval that passes _availability_result lies in a known shift.     *)
LEMMA AvailabilityCovers ==
    ASSUME NEW v, AvailabilityOK(v), NEW p, p.start \in Int, p.end \in Int, Availability(v, p) = "PASS"
    PROVE  Covered(v, p.start .. (p.end - 1))
  BY DEF AvailabilityOK, Availability, Verdict, Covered

(* One that passes the check of a window or a deadline lies inside it.     *)
LEMMA WindowHolds ==
    ASSUME NEW x, WindowOK(x), NEW p, p.start \in Int, p.end \in Int, WindowStatus(x, p) = "PASS"
    PROVE  Inside(x, p.start .. (p.end - 1))
  BY DEF WindowOK, WindowStatus, Verdict, Inside

(* What _evaluate_draft asks of one changed commitment suffices for it. *)
LEMMA PlacementHolds ==
    ASSUME Evidenced, NEW d, DraftOK(d), Passed(d), NEW c \in DOMAIN d
    PROVE  LET task == world.task[c]
               site == OnSite(d, c)
           IN  /\ world.worker[d[c].worker].level # None
               /\ world.worker[d[c].worker].level >= task.level
               /\ Covered(world.worker[d[c].worker].avail, site)
               /\ task.ready = "READY"
               /\ task.class # None =>
                    /\ d[c].vehicle # None
                    /\ task.class \in world.vehicle[d[c].vehicle].classes
                    /\ Covered(world.vehicle[d[c].vehicle].avail, site)
               /\ Inside(task.window, site) /\ Inside(task.deadline, site)
               /\ site \subseteq 0..(Horizon - 1)
  <1> DEFINE p == FinalSchedule(d)[c]
             task == world.task[c]
             w == d[c].worker
             level == world.worker[w].level
             S == PlacementChecks(c, w, p)
  <1>1. c \in Active /\ w \in Workers /\ d[c].start \in Nat /\ d[c].start + task.dur <= Horizon
    BY DEF DraftOK
  <1>2. /\ p.start = d[c].start /\ p.start \in Int /\ p.end \in Int /\ p.end = p.start + task.dur
        /\ OnSite(d, c) = p.start .. (p.end - 1) /\ p.vehicle = d[c].vehicle
    BY <1>1, ScheduleIs DEF StartOf, LengthOf
  <1>3. /\ WindowOK(task.window) /\ WindowOK(task.deadline)
        /\ AvailabilityOK(world.worker[w].avail)
        /\ \A v \in DOMAIN world.vehicle : v # None /\ AvailabilityOK(world.vehicle[v].avail)
        /\ Horizon \in Nat
    BY <1>1, EvidenceAssumption DEF Evidenced, EvidenceOK, BoundsOK, NoneOK, WorldOK, ContextOK, Active, Workers
  <1>4. \A x \in S : x.status = "PASS"
    BY PlacementPassed
  <1> HIDE DEF p
  <1>5. /\ Check("SKILL", IF level = None THEN "UNKNOWN" ELSE Verdict(level >= task.level), {c}) \in S
        /\ Check("WORKER", Availability(world.worker[w].avail, p), {c}) \in S
        /\ Check("READINESS", IF task.ready = "UNKNOWN" THEN "UNKNOWN" ELSE Verdict(task.ready = "READY"), {c}) \in S
        /\ Check("VEHICLE", VehicleStatus(c, p), {c}) \in S
        /\ Check("WINDOW", WindowStatus(task.window, p), {c}) \in S
        /\ Check("DEADLINE", WindowStatus(task.deadline, p), {c}) \in S
    BY DEF PlacementChecks
  <1>6. \A reason, verdict, related : Check(reason, verdict, related).status = verdict
    BY DEF Check
  <1> HIDE DEF S
  <1>7. /\ (IF level = None THEN "UNKNOWN" ELSE Verdict(level >= task.level)) = "PASS"
        /\ Availability(world.worker[w].avail, p) = "PASS"
        /\ (IF task.ready = "UNKNOWN" THEN "UNKNOWN" ELSE Verdict(task.ready = "READY")) = "PASS"
        /\ VehicleStatus(c, p) = "PASS"
        /\ WindowStatus(task.window, p) = "PASS"
        /\ WindowStatus(task.deadline, p) = "PASS"
    BY <1>4, <1>5, <1>6
  <1>8. level # None /\ level >= task.level /\ task.ready = "READY"
    BY <1>7 DEF Verdict
  <1>9. Covered(world.worker[w].avail, OnSite(d, c))
    BY <1>2, <1>3, <1>7, AvailabilityCovers
  <1>10. Inside(task.window, OnSite(d, c)) /\ Inside(task.deadline, OnSite(d, c))
    BY <1>2, <1>3, <1>7, WindowHolds
  <1>11. ASSUME task.class # None
         PROVE  /\ d[c].vehicle # None /\ task.class \in world.vehicle[d[c].vehicle].classes
                /\ Covered(world.vehicle[d[c].vehicle].avail, OnSite(d, c))
    <2>1. /\ p.vehicle \in DOMAIN world.vehicle /\ task.class \in world.vehicle[p.vehicle].classes
          /\ Availability(world.vehicle[p.vehicle].avail, p) = "PASS"
      BY <1>7, <1>11 DEF VehicleStatus
    <2> QED
      BY <1>2, <1>3, <2>1, AvailabilityCovers
  <1>12. OnSite(d, c) \subseteq 0..(Horizon - 1)
    BY <1>1, <1>2, <1>3
  <1> QED
    BY <1>8, <1>9, <1>10, <1>11, <1>12

(* A draft that _evaluate_draft does not reject can be carried out. *)
LEMMA PassedCanBeCarriedOut ==
    ASSUME Evidenced, NEW d, DraftOK(d), Passed(d),
           \A c, o \in Active : c # o => ~TakenTwice(<<>>, c, o)
    PROVE  CanBeCarriedOut(d)
  <1> SUFFICES ASSUME NEW c \in DOMAIN d, NEW o \in Active \ {c}
               PROVE  /\ ~TakenTwice(d, c, o)
                      /\ InTime(d, c, o) /\ InTime(d, o, c)
                      /\ <<c, o>> \in world.edges => \A x \in OnSite(d, c), y \in OnSite(d, o) : x < y
                      /\ <<o, c>> \in world.edges => \A x \in OnSite(d, c), y \in OnSite(d, o) : y < x
    BY PlacementHolds DEF CanBeCarriedOut
  <1>1. c \in Active /\ o \in Active /\ c # o
    BY DEF DraftOK
  <1>2. ~TakenTwice(d, c, o)
    BY <1>1, NothingTakenTwice
  <1>3. InTime(d, c, o) /\ InTime(d, o, c)
    BY <1>1, TravelInTime
  <1>4. /\ <<c, o>> \in world.edges => \A x \in OnSite(d, c), y \in OnSite(d, o) : x < y
        /\ <<o, c>> \in world.edges => \A y \in OnSite(d, o), x \in OnSite(d, c) : y < x
    BY <1>1, DependencyKept
  <1> QED
    BY <1>2, <1>3, <1>4

-----------------------------------------------------------------------------
(* Least elements, and sets in order.                                      *)

(* A set of numbers that is not empty has a least one.                     *)
LEMMA LeastNat ==
    ASSUME NEW S \in SUBSET Nat, S # {}
    PROVE  \E x \in S : \A y \in S : x <= y
  <1>1. PICK x \in S : \A y \in S : ~(<<y, x>> \in OpToRel(<, Nat))
    BY NatLessThanWellFounded, WFMin
  <1>2. \A y \in S : ~(y < x)
    BY <1>1 DEF OpToRel
  <1> QED
    BY <1>2

(* In a finite set, where what beats one element beats whatever that one   *)
(* beats and never itself, somebody is not beaten.                         *)
LEMMA SomeUnbeaten ==
    ASSUME NEW S, IsFiniteSet(S), S # {}, NEW B \in [S -> SUBSET S],
           \A x \in S : \A y \in B[x] : B[y] \subseteq B[x] /\ y \notin B[y]
    PROVE  \E x \in S : B[x] = {}
  <1> DEFINE N == {Cardinality(B[x]) : x \in S}
  <1>1. \A x \in S : IsFiniteSet(B[x]) /\ Cardinality(B[x]) \in Nat
    BY FS_Subset, FS_CardinalityType
  <1>2. N \in SUBSET Nat /\ N # {}
    BY <1>1
  <1>3. PICK n \in N : \A m \in N : n <= m
    BY <1>2, LeastNat
  <1>4. PICK x \in S : n = Cardinality(B[x])
    BY <1>3
  <1>5. ASSUME NEW y \in B[x] PROVE FALSE
    <2>1. B[y] \in SUBSET B[x] /\ B[x] # B[y] /\ y \in S
      BY <1>5
    <2>2. Cardinality(B[y]) <= Cardinality(B[x]) /\ Cardinality(B[x]) # Cardinality(B[y])
      BY <1>1, <2>1, FS_Subset
    <2>3. Cardinality(B[y]) \in N
      BY <2>1
    <2>4. Cardinality(B[x]) <= Cardinality(B[y])
      BY <1>3, <1>4, <2>3
    <2>5. Cardinality(B[x]) \in Nat /\ Cardinality(B[y]) \in Nat
      BY <1>1, <2>1
    <2> QED
      BY <2>2, <2>4, <2>5
  <1> QED
    BY <1>5

(* Sorted is the sequence of all elements of its set, in ascending order.  *)
LEMMA SortedIs ==
    ASSUME NEW S \in SUBSET Int, IsFiniteSet(S)
    PROVE  /\ Cardinality(S) \in Nat
           /\ Sorted(S) \in Seq(S) /\ Len(Sorted(S)) = Cardinality(S)
           /\ \A i \in 1 .. Cardinality(S) : Sorted(S)[i] \in S
           /\ \A x \in S : \E i \in 1 .. Cardinality(S) : Sorted(S)[i] = x
           /\ \A i, j \in 1 .. Cardinality(S) : i < j => Sorted(S)[i] < Sorted(S)[j]
  <1> DEFINE n == Cardinality(S)
             below(x) == {z \in S : z <= x}
             rank == [x \in S |-> Cardinality(below(x))]
  <1>1. n \in Nat
    BY FS_CardinalityType
  <1>2. \A x \in S : IsFiniteSet(below(x)) /\ Cardinality(below(x)) \in 1 .. n
    <2> TAKE x \in S
    <2>1. below(x) \in SUBSET S /\ below(x) # {}
      OBVIOUS
    <2> HIDE DEF below
    <2>2. IsFiniteSet(below(x)) /\ Cardinality(below(x)) <= n
      BY <2>1, FS_Subset
    <2>3. Cardinality(below(x)) \in Nat /\ Cardinality(below(x)) # 0
      BY <2>1, <2>2, FS_CardinalityType, FS_EmptySet
    <2> QED
      BY <1>1, <2>2, <2>3
  <1>3. ASSUME NEW x \in S, NEW y \in S, x < y
        PROVE  Cardinality(below(x)) < Cardinality(below(y))
    <2>2. x \in Int /\ y \in Int /\ \A z \in S : z \in Int
      OBVIOUS
    <2>3. \A z \in S : z <= x => z <= y
      BY <1>3, <2>2
    <2>1. below(x) \in SUBSET below(y) /\ y \in below(y) /\ y \notin below(x)
      <3>1. \A z \in below(x) : z \in below(y)
        BY <2>3
      <3>2. y <= y /\ ~(y <= x)
        BY <1>3, <2>2
      <3> QED
        BY <3>1, <3>2
    <2> HIDE DEF below
    <2>4. /\ Cardinality(below(x)) <= Cardinality(below(y))
          /\ Cardinality(below(x)) = Cardinality(below(y)) => below(x) = below(y)
      BY <1>2, <2>1, FS_Subset
    <2>5. Cardinality(below(x)) \in Nat /\ Cardinality(below(y)) \in Nat
      BY <1>2
    <2> QED
      BY <2>1, <2>4, <2>5
  <1>4. rank \in [S -> 1 .. n] /\ \A x \in S : rank[x] = Cardinality(below(x))
    BY <1>2
  <1>5. rank \in Injection(S, 1 .. n)
    <2>1. \A x, y \in S : rank[x] = rank[y] => x = y
      <3> SUFFICES ASSUME NEW x \in S, NEW y \in S, x # y
                   PROVE  rank[x] # rank[y]
        OBVIOUS
      <3>1. x < y \/ y < x
        OBVIOUS
      <3>2. rank[x] < rank[y] \/ rank[y] < rank[x]
        BY <1>3, <1>4, <3>1
      <3>3. rank[x] \in Nat /\ rank[y] \in Nat
        BY <1>4
      <3> QED
        BY <3>2, <3>3
    <2> HIDE DEF rank
    <2> QED
      BY <1>4, <2>1 DEF Injection, IsInjective
  <1>6. IsFiniteSet(1 .. n) /\ Cardinality(1 .. n) = n
    BY <1>1, FS_Interval
  <1>7. rank \in Surjection(S, 1 .. n)
    BY <1>5, <1>6, FS_Injection
  <1>8. \A i \in 1 .. n : \E x \in S : Cardinality(below(x)) = i
    BY <1>4, <1>7 DEF Surjection
  <1>9. \A i \in 1 .. n : Sorted(S)[i] \in S
    BY <1>8 DEF Sorted
  <1>10. DOMAIN Sorted(S) = 1 .. n /\ Sorted(S) = [i \in 1 .. n |-> Sorted(S)[i]]
    <2> DEFINE at(i) == CHOOSE x \in S : Cardinality(below(x)) = i
    <2>1. Sorted(S) = [i \in 1 .. n |-> at(i)]
      BY Zenon DEF Sorted
    <2> HIDE DEF at
    <2> QED
      BY <2>1
  <1>11. Sorted(S) \in Seq(S)
    BY <1>1, <1>9, <1>10
  <1>12. \A i \in 1 .. n : rank[Sorted(S)[i]] = i
    <2> TAKE i \in 1 .. n
    <2> DEFINE x == CHOOSE z \in S : Cardinality(below(z)) = i
    <2>1. Sorted(S)[i] = x
      BY Zenon DEF Sorted
    <2>2. x \in S /\ Cardinality(below(x)) = i
      BY <1>8
    <2> HIDE DEF x
    <2> QED
      BY <1>4, <2>1, <2>2
  <1> HIDE DEF rank
  <1>13. ASSUME NEW x \in S PROVE \E i \in 1 .. n : Sorted(S)[i] = x
    <2>1. rank[x] \in 1 .. n /\ rank[Sorted(S)[rank[x]]] = rank[x] /\ Sorted(S)[rank[x]] \in S
      BY <1>4, <1>9, <1>12
    <2>2. Sorted(S)[rank[x]] = x
      BY <1>5, <2>1 DEF Injection, IsInjective
    <2> QED
      BY <2>1, <2>2
  <1>14. ASSUME NEW i \in 1 .. n, NEW j \in 1 .. n, i < j
         PROVE  Sorted(S)[i] < Sorted(S)[j]
    <2> DEFINE x == Sorted(S)[i]
               y == Sorted(S)[j]
    <2>1. x \in S /\ y \in S /\ rank[x] = i /\ rank[y] = j
      BY <1>9, <1>12
    <2> HIDE DEF x, y
    <2>2. x # y /\ ~(rank[y] < rank[x])
      BY <1>1, <1>14, <2>1
    <2>3. ~(y < x)
      BY <1>3, <1>4, <2>1, <2>2
    <2>4. x < y
      BY <2>1, <2>2, <2>3
    <2> QED
      BY <2>4 DEF x, y
  <1> QED
    BY <1>1, <1>9, <1>10, <1>11, <1>13, <1>14

-----------------------------------------------------------------------------
(* The expansions.                                                         *)

(* Nothing, or one draft.  So much is ever pending: a draft that is        *)
(* expanded was drawn before its expansion is put in its place.            *)
Queue(q) == q = <<>> \/ \E e : q = <<e>> /\ DraftOK(e)

Offers(x) == Queue(x.draft) /\ ~x.refused

(* _expanded_draft keeps a draft a draft, within the bound of changes, and *)
(* a placement on a second is not refused.                                 *)
LEMMA ExpandedOK ==
    ASSUME Evidenced, NEW d, DraftOK(d), NEW c \in Active,
           c \in DOMAIN d \/ Cardinality(DOMAIN d) < MaxModified,
           NEW p, p.worker \in Workers, p.start \in Int, OnTheSecond(p.start), NEW ids
    PROVE  Offers(Expanded(d, c, p, ids))
  <1> DEFINE e == [x \in {c} \cup DOMAIN d |-> IF x = c THEN p ELSE d[x]]
  <1>1. CASE 0 <= p.start /\ p.start + world.task[c].dur <= Horizon
    <2>1. DOMAIN e = {c} \cup DOMAIN d /\ e[c] = p /\ \A o \in DOMAIN d : o # c => e[o] = d[o]
      OBVIOUS
    <2> HIDE DEF e
    <2>4. Cardinality(DOMAIN e) \in 1 .. MaxModified
      <3>1. CASE c \in DOMAIN d
        <4>1. DOMAIN e = DOMAIN d
          BY <2>1, <3>1
        <4> QED
          BY <4>1 DEF DraftOK
      <3>2. CASE c \notin DOMAIN d
        <4>1. Cardinality(DOMAIN d \cup {c}) = Cardinality(DOMAIN d) + 1
          BY <3>2, DraftSize, FS_AddElement
        <4>2. DOMAIN e = DOMAIN d \cup {c}
          BY <2>1
        <4> QED
          BY <3>2, <4>1, <4>2, DraftSize
      <3> QED
        BY <3>1, <3>2
    <2>5. DOMAIN e \subseteq Active
      BY <2>1 DEF DraftOK
    <2>6. ASSUME NEW x \in DOMAIN e
          PROVE  /\ e[x].worker \in Workers /\ e[x].start \in Nat /\ OnTheSecond(e[x].start)
                 /\ e[x].start + world.task[x].dur <= Horizon
      BY <1>1, <2>1 DEF DraftOK
    <2>2. DraftOK(e)
      BY <2>4, <2>5, <2>6 DEF DraftOK
    <2>7. Proposable(p.start, world.task[c].dur)
      <3>1. world.task[c].dur \in Int /\ OnTheSecond(world.task[c].dur)
        BY TaskLength, Zenon
      <3> QED
        BY <3>1, WholeSeconds, EvidenceAssumption DEF Proposable
    <2>3. Expanded(d, c, p, ids).draft = <<e>> /\ ~Expanded(d, c, p, ids).refused
      BY <1>1, <2>7 DEF Expanded, Expansion, e
    <2> QED
      BY <2>2, <2>3 DEF Offers, Queue
  <1>2. CASE ~(0 <= p.start /\ p.start + world.task[c].dur <= Horizon)
    BY <1>2 DEF Expanded, NoExpansion, Offers, Queue
  <1> QED
    BY <1>1, <1>2

(* An eligible commitment has a worker the support knows.                  *)
LEMMA EligibleWorker ==
    ASSUME Evidenced, NEW c, Ineligible(c) = None
    PROVE  OnlyWorker(c) \in Workers
  <1>1. world.plan[c].workers # {} /\ world.plan[c].workers \subseteq Workers
    BY EvidenceAssumption DEF Ineligible, Evidenced, EvidenceOK, NoneOK, CommitmentKind
  <1> QED
    BY <1>1 DEF OnlyWorker

(* _expand_overlap offers a draft or nothing: there is a latest change,    *)
(* and the commitment in the way goes behind it.                           *)
LEMMA ExpandOverlapOK ==
    ASSUME Evidenced, NEW d, DraftOK(d), NEW c \in Active
    PROVE  Offers(ExpandOverlap(d, c))
  <1> DEFINE modified == DOMAIN d
             end(x) == ChangeEnd(d, x)
             last(x) == \A y \in modified \ {x} : end(y) < end(x) \/ (end(y) = end(x) /\ y < x)
             latest == LatestChange(d)
             B == [x \in modified |-> {y \in modified : end(x) < end(y) \/ (end(x) = end(y) /\ x < y)}]
  <1>1. modified \subseteq Active /\ modified # {} /\ IsFiniteSet(modified) /\ modified \subseteq Nat
    BY DraftSize
  <1>2. \A x \in modified : end(x) \in Int /\ OnTheSecond(end(x))
    <2> TAKE x \in modified
    <2> DEFINE begun == d[x].start
               dur   == world.task[x].dur
    <2>1. begun \in Int /\ OnTheSecond(begun)
      BY DEF DraftOK
    <2>2. dur \in Int /\ OnTheSecond(dur)
      BY <1>1, TaskLength, Zenon
    <2>3. end(x) = begun + dur
      BY DEF ChangeEnd
    <2> HIDE DEF begun, dur, end
    <2> QED
      BY <2>1, <2>2, <2>3, WholeSeconds, EvidenceAssumption
  <1>3. \E x \in modified : last(x)
    <2>1. B \in [modified -> SUBSET modified]
      OBVIOUS
    <2>2. ASSUME NEW x \in modified, NEW y \in B[x] PROVE B[y] \subseteq B[x] /\ y \notin B[y]
      <3>1. y \in modified /\ (end(x) < end(y) \/ (end(x) = end(y) /\ x < y))
        BY <2>2
      <3>2. \A z \in modified : /\ z \in Int /\ end(z) \in Int
        BY <1>1, <1>2
      <3>3. \A z \in modified : end(y) < end(z) \/ (end(y) = end(z) /\ y < z)
                                 => end(x) < end(z) \/ (end(x) = end(z) /\ x < z)
        BY <3>1, <3>2
      <3> QED
        BY <3>1, <3>2, <3>3
    <2>3. PICK x \in modified : B[x] = {}
      <3> HIDE DEF B
      <3> QED
        BY <1>1, <2>1, <2>2, SomeUnbeaten
    <2>4. last(x)
      <3> SUFFICES ASSUME NEW y \in modified \ {x}
                   PROVE  end(y) < end(x) \/ (end(y) = end(x) /\ y < x)
        OBVIOUS
      <3>1. ~(end(x) < end(y) \/ (end(x) = end(y) /\ x < y))
        BY <2>3
      <3>2. x \in Nat /\ y \in Nat /\ end(x) \in Int /\ end(y) \in Int /\ x # y
        BY <1>1, <1>2
      <3> QED
        BY <3>1, <3>2
    <2> QED
      BY <2>4
  <1>4. latest \in modified
    BY <1>3 DEF LatestChange
  <1> HIDE DEF latest
  <1>5. end(latest) + KnownTravel(latest, c) \in Int /\ OnTheSecond(end(latest) + KnownTravel(latest, c))
    <2>1. /\ end(latest) \in Int /\ KnownTravel(latest, c) \in Nat
          /\ OnTheSecond(end(latest)) /\ OnTheSecond(KnownTravel(latest, c))
      BY <1>1, <1>2, <1>4, TravelType
    <2> QED
      BY <2>1, WholeSeconds, EvidenceAssumption
  <1> DEFINE p == [worker |-> OnlyWorker(c), vehicle |-> world.plan[c].vehicle,
                   start |-> end(latest) + KnownTravel(latest, c)]
  <1>9. Cardinality(modified) \in Nat /\ MaxModified \in Nat
    BY DraftSize
  <1>6. CASE Cardinality(modified) >= MaxModified
    BY <1>6 DEF ExpandOverlap, NoExpansion, Offers, Queue
  <1>7. CASE ~(Cardinality(modified) >= MaxModified) /\ Ineligible(c) # None
    BY <1>7, <1>9 DEF ExpandOverlap, NoExpansion, Offers, Queue
  <1>8. CASE ~(Cardinality(modified) >= MaxModified) /\ Ineligible(c) = None
    <2>1. ExpandOverlap(d, c) = Expanded(d, c, p, {c})
      BY <1>8, <1>9 DEF ExpandOverlap, latest
    <2>2. p.worker \in Workers /\ p.start \in Int /\ OnTheSecond(p.start)
      BY <1>5, <1>8, EligibleWorker
    <2>3. Cardinality(modified) < MaxModified
      BY <1>8, <1>9
    <2> HIDE DEF p
    <2> QED
      BY <2>1, <2>2, <2>3, ExpandedOK
  <1> QED
    BY <1>6, <1>7, <1>8

(* There is a first dependency violation where there is one at all.        *)
LEMMA FirstViolationIs ==
    ASSUME Evidenced, NEW k, DependencyViolations(k) # {}
    PROVE  FirstDependencyViolation(k) \in DependencyViolations(k)
  <1> DEFINE V == DependencyViolations(k)
             N == {e[1] : e \in V}
  <1>1. \A e \in V : e[1] \in Nat /\ e[2] \in Nat
    <2>1. V \subseteq world.edges
      BY DEF DependencyViolations, AffectedDependencies, ActiveEdges
    <2>2. world.edges \subseteq Nat \X Nat
      BY EvidenceAssumption DEF Evidenced, EvidenceOK, WorldOK
    <2> QED
      BY <2>1, <2>2
  <1>2. V # {}
    OBVIOUS
  <1> HIDE DEF V
  <1>3. PICK n \in N : \A m \in N : n <= m
    <2>1. N \in SUBSET Nat /\ N # {}
      BY <1>1, <1>2
    <2> QED
      BY <2>1, LeastNat
  <1> DEFINE M == {e[2] : e \in {f \in V : f[1] = n}}
  <1>4. PICK l \in M : \A m \in M : l <= m
    <2>1. M \in SUBSET Nat /\ M # {}
      BY <1>1, <1>3
    <2> QED
      BY <2>1, LeastNat
  <1>5. PICK e \in V : e[1] = n /\ e[2] = l
    BY <1>4
  <1>6. \A f \in V : e[1] < f[1] \/ (e[1] = f[1] /\ e[2] <= f[2])
    <2> TAKE f \in V
    <2>1. n <= f[1]
      BY <1>3
    <2>2. CASE f[1] = n
      <3>1. f[2] \in M
        BY <2>2
      <3> QED
        BY <1>4, <1>5, <2>2, <3>1
    <2>3. CASE f[1] # n
      BY <1>1, <1>5, <2>1, <2>3
    <2> QED
      BY <2>2, <2>3
  <1> QED
    BY <1>5, <1>6 DEF V, FirstDependencyViolation

(* _expand_dependency offers a draft or nothing.                           *)
LEMMA ExpandDependencyOK ==
    ASSUME Evidenced, NEW d, DraftOK(d), NEW e, e[1] \in Active, e[2] \in Active,
           e[1] \in DOMAIN d \/ e[2] \in DOMAIN d
    PROVE  Offers(ExpandDependency(d, e))
  <1> DEFINE modified == DOMAIN d
             final    == FinalSchedule(d)
             after    == e[1] \in modified
             target   == IF after THEN e[2] ELSE e[1]
             dur      == world.task[target].dur
             worker   == IF target \in modified THEN d[target].worker ELSE OnlyWorker(target)
             vehicle  == IF target \in modified THEN d[target].vehicle ELSE world.plan[target].vehicle
             shape    == [workers |-> {worker}, vehicle |-> vehicle]
             start    == IF after
                         THEN final[e[1]].end + SharedRoute(e[1], final[e[1]], target, shape)
                         ELSE final[e[2]].start - SharedRoute(target, shape, e[2], final[e[2]]) - dur
             p        == [worker |-> worker, vehicle |-> vehicle, start |-> start]
             full     == target \notin modified /\ Cardinality(modified) >= MaxModified
  <1>1. target \in Active
    OBVIOUS
  <1>2. \A c \in Active : /\ final[c].start \in Int /\ final[c].end \in Int
                          /\ world.task[c].dur \in Int /\ OnTheSecond(world.task[c].dur)
                          /\ c \in modified => OnTheSecond(final[c].start) /\ OnTheSecond(final[c].end)
    <2> TAKE c \in Active
    <2>1. /\ final[c].start \in Int /\ final[c].end \in Int
          /\ world.task[c].dur \in Nat \ {0} /\ OnTheSecond(world.task[c].dur)
          /\ final[c].start = StartOf(d, c) /\ final[c].end = final[c].start + LengthOf(d, c)
      BY ScheduleIs
    <2> HIDE DEF final
    <2>2. ASSUME c \in modified PROVE OnTheSecond(final[c].start) /\ OnTheSecond(final[c].end)
      <3>1. final[c].start = d[c].start /\ final[c].end = final[c].start + world.task[c].dur
        BY <2>1, <2>2 DEF StartOf, LengthOf
      <3>2. OnTheSecond(d[c].start)
        BY <2>2 DEF DraftOK
      <3> QED
        BY <2>1, <3>1, <3>2, WholeSeconds, EvidenceAssumption
    <2> QED
      BY <2>1, <2>2
  <1>3. \A a, b \in Active : \A x, y : SharedRoute(a, x, b, y) \in Nat /\ OnTheSecond(SharedRoute(a, x, b, y))
    BY TravelType, WholeSeconds, EvidenceAssumption DEF SharedRoute
  <1>4. ExpandDependency(d, e) =
          CASE full -> NoExpansion(<<Trace("SEARCH_ENVELOPE_LIMIT", modified \cup {target})>>)
            [] ~full /\ Ineligible(target) # None -> NoExpansion(<<Trace(Ineligible(target), {target})>>)
            [] OTHER -> Expanded(d, target, p, modified \cup {target})
    BY DEF ExpandDependency
  <1>5. ASSUME Ineligible(target) = None PROVE worker \in Workers
    <2>1. target \in modified => d[target].worker \in Workers
      BY DEF DraftOK
    <2>2. OnlyWorker(target) \in Workers
      BY <1>5, EligibleWorker
    <2> QED
      BY <2>1, <2>2
  <1> HIDE DEF final, target, worker, vehicle, shape
  <1>6. start \in Int /\ OnTheSecond(start)
    <2>1. CASE after
      <3> DEFINE route == SharedRoute(e[1], final[e[1]], target, shape)
      <3>1. route \in Nat /\ OnTheSecond(route) /\ final[e[1]].end \in Int /\ OnTheSecond(final[e[1]].end)
        BY <1>1, <1>2, <1>3, <2>1
      <3> HIDE DEF route
      <3>2. start = final[e[1]].end + route
        BY <2>1 DEF route
      <3> QED
        BY <3>1, <3>2, WholeSeconds, EvidenceAssumption
    <2>2. CASE ~after
      <3> DEFINE route == SharedRoute(target, shape, e[2], final[e[2]])
      <3>1. /\ route \in Nat /\ OnTheSecond(route) /\ dur \in Int /\ OnTheSecond(dur)
            /\ final[e[2]].start \in Int /\ OnTheSecond(final[e[2]].start)
        BY <1>1, <1>2, <1>3, <2>2
      <3>2. start = final[e[2]].start - route - dur
        BY <2>2 DEF route
      <3> HIDE DEF route, dur
      <3>3. final[e[2]].start - route \in Int /\ OnTheSecond(final[e[2]].start - route)
        BY <3>1, WholeSeconds, EvidenceAssumption
      <3> QED
        BY <3>1, <3>2, <3>3, WholeSeconds, EvidenceAssumption
    <2> QED
      BY <2>1, <2>2
  <1> HIDE DEF start
  <1>7. CASE full
    BY <1>4, <1>7 DEF NoExpansion, Offers, Queue
  <1>8. CASE ~full /\ Ineligible(target) # None
    BY <1>4, <1>8 DEF NoExpansion, Offers, Queue
  <1>9. CASE ~full /\ Ineligible(target) = None
    <2>1. ExpandDependency(d, e) = Expanded(d, target, p, modified \cup {target})
      BY <1>4, <1>9
    <2>2. p.worker \in Workers /\ p.start \in Int /\ OnTheSecond(p.start)
      BY <1>5, <1>6, <1>9
    <2>3. target \in modified \/ Cardinality(modified) < MaxModified
      BY <1>9, DraftSize
    <2> HIDE DEF p
    <2> QED
      BY <1>1, <2>1, <2>2, <2>3, ExpandedOK
  <1> QED
    BY <1>7, <1>8, <1>9

(* _expand_first_repairable_rejection offers a draft or nothing, whatever  *)
(* _evaluate_draft has rejected.                                           *)
LEMMA ExpandFirstOK ==
    ASSUME Evidenced, NEW d, DraftOK(d),
           NEW k, k = EvaluateDraft(d, FinalSchedule(d), Rejections(d, FinalSchedule(d)))
    PROVE  Offers(ExpandFirst(k))
  <1>1. k.draft = d /\ k.rejected = Rejections(d, FinalSchedule(d))
    BY DEF EvaluateDraft
  <1>2. OverlapConflictIds(k) \subseteq Active
    <2> DEFINE f == FinalSchedule(d)
    <2> SUFFICES ASSUME NEW x \in Rejections(d, f), x.reason = "OVERLAP"
                 PROVE  x.related \subseteq Active
      BY <1>1 DEF OverlapConflictIds
    <2>1. /\ \A c, w, p : \A y \in PlacementChecks(c, w, p) : y.reason # "OVERLAP"
          /\ \A y \in RouteChecks(f, DOMAIN d) : y.reason # "OVERLAP"
          /\ \A y \in DependencyChecks(f, DOMAIN d) : y.reason # "OVERLAP"
      <3>1. \A c, w, p : \A y \in PlacementChecks(c, w, p) : y.reason # "OVERLAP"
        BY DEF PlacementChecks, Check
      <3>2. \A y \in RouteChecks(f, DOMAIN d) : y.reason # "OVERLAP"
        BY DEF RouteChecks, Check
      <3>3. \A y \in DependencyChecks(f, DOMAIN d) : y.reason # "OVERLAP"
        BY DEF DependencyChecks, Check
      <3> QED
        BY <3>1, <3>2, <3>3
    <2> HIDE DEF f
    <2>2. x \in OverlapChecks(f, DOMAIN d)
      BY <2>1 DEF Rejections
    <2>3. PICK z \in Active \X DOMAIN d : x = Check("OVERLAP", "FAIL", {z[1], z[2]})
      BY <2>2 DEF OverlapChecks
    <2> QED
      BY <2>3 DEF Check, DraftOK
  <1>3. CASE OverlapConflictIds(k) # {}
    <2>1. OverlapConflictIds(k) \in SUBSET Nat
      BY <1>2, EvidenceAssumption DEF Evidenced, EvidenceOK, WorldOK, Active
    <2>2. Smallest(OverlapConflictIds(k)) \in Active
      BY <1>2, <1>3, <2>1, LeastNat DEF Smallest
    <2>3. ExpandFirst(k) = ExpandOverlap(d, Smallest(OverlapConflictIds(k)))
      BY <1>1, <1>3 DEF ExpandFirst
    <2> QED
      BY <2>2, <2>3, ExpandOverlapOK
  <1>4. CASE OverlapConflictIds(k) = {} /\ DependencyViolations(k) # {}
    <2> DEFINE e == FirstDependencyViolation(k)
    <2>1. e \in DependencyViolations(k)
      BY <1>4, FirstViolationIs
    <2>2. ExpandFirst(k) = ExpandDependency(d, e)
      BY <1>1, <1>4 DEF ExpandFirst
    <2> HIDE DEF e
    <2>3. /\ e[1] \in Active /\ e[2] \in Active
          /\ e[1] \in DOMAIN d \/ e[2] \in DOMAIN d
      BY <1>1, <2>1 DEF DependencyViolations, AffectedDependencies, ActiveEdges
    <2> QED
      BY <2>2, <2>3, ExpandDependencyOK
  <1>5. CASE OverlapConflictIds(k) = {} /\ DependencyViolations(k) = {}
    BY <1>5 DEF ExpandFirst, NoExpansion, Offers, Queue
  <1> QED
    BY <1>3, <1>4, <1>5

-----------------------------------------------------------------------------
(* The stream of seed drafts.                                              *)

(* A sequence over a set is one over every larger set.                     *)
LEMMA SeqMono ==
    ASSUME NEW S, NEW T, S \subseteq T, NEW s \in Seq(S)
    PROVE  s \in Seq(T)
  <1>1. Len(s) \in Nat /\ s \in [1 .. Len(s) -> S]
    OBVIOUS
  <1>2. s \in [1 .. Len(s) -> T]
    BY <1>1
  <1> QED
    BY <1>1, <1>2

(* The number of a seed pair, split into the numbers of its two parts.     *)
LEMMA PairNumbers ==
    ASSUME NEW a \in Nat, NEW b \in Nat, NEW n \in 1 .. a * b
    PROVE  /\ ((n - 1) \div b) + 1 \in 1 .. a
           /\ ((n - 1) % b) + 1 \in 1 .. b
  <1>1. b # 0
    OBVIOUS
  <1> DEFINE q == (n - 1) \div b
             r == (n - 1) % b
  <1>2. q \in Int /\ r \in 0 .. b - 1 /\ n - 1 = b * q + r
    BY <1>1
  <1> HIDE DEF q, r
  <1>3. q >= 0
    BY <1>1, <1>2
  <1>4. q < a
    BY <1>1, <1>2
  <1> QED
    BY <1>1, <1>2, <1>3, <1>4 DEF q, r

(* The repairable commitments and the workers left are finitely many.      *)
LEMMA SeedsFinite ==
    ASSUME Evidenced
    PROVE  /\ OfKind("SINGLE") \in SUBSET Int /\ OfKind("SINGLE") \subseteq Active
           /\ IsFiniteSet(OfKind("SINGLE"))
           /\ Workers \ {world.unavailable} \in SUBSET Int /\ IsFiniteSet(Workers \ {world.unavailable})
  <1>1. /\ IsFiniteSet(Active) /\ Active \subseteq Nat /\ world.direct \subseteq Active
        /\ IsFiniteSet(Workers) /\ Workers \subseteq Nat
    BY EvidenceAssumption DEF Evidenced, EvidenceOK, WorldOK, Active, Workers
  <1>2. OfKind("SINGLE") \subseteq Active
    BY <1>1 DEF OfKind
  <1>3. Workers \ {world.unavailable} \subseteq Workers
    OBVIOUS
  <1>4. IsFiniteSet(OfKind("SINGLE"))
    BY <1>1, <1>2, FS_Subset
  <1>5. IsFiniteSet(Workers \ {world.unavailable})
    BY <1>1, <1>3, FS_Subset
  <1>6. ASSUME NEW x \in OfKind("SINGLE") PROVE x \in Int
    <2>1. x \in Active
      BY <1>2
    <2>2. x \in Nat
      BY <1>1, <2>1
    <2> QED
      BY <2>2
  <1>7. ASSUME NEW x \in Workers \ {world.unavailable} PROVE x \in Int
    <2>1. x \in Workers
      BY <1>3
    <2>2. x \in Nat
      BY <1>1, <2>1
    <2> QED
      BY <2>2
  <1>8. OfKind("SINGLE") \subseteq Int
    BY <1>6
  <1>9. Workers \ {world.unavailable} \subseteq Int
    BY <1>7
  <1> QED
    BY <1>2, <1>4, <1>5, <1>8, <1>9

(* Every seed pair is a commitment of the plan and a worker of the         *)
(* support.                                                                *)
LEMMA PairsOK ==
    ASSUME Evidenced
    PROVE  /\ TotalPairs \in Nat
           /\ \A n \in 1 .. TotalPairs :
                /\ PairCommitment(n) \in Active /\ PairWorker(n) \in Workers
                /\ PairCommitment(n) \in OfKind("SINGLE") /\ PairWorker(n) # world.unavailable
  <1> DEFINE C == OfKind("SINGLE")
             W == Workers \ {world.unavailable}
             a == Len(SingleIds)
             b == Len(SeedWorkers)
  <1>7. /\ C \in SUBSET Int /\ IsFiniteSet(C) /\ SingleIds = Sorted(C)
        /\ W \in SUBSET Int /\ IsFiniteSet(W) /\ SeedWorkers = Sorted(W)
    BY SeedsFinite DEF SingleIds, SeedWorkers
  <1>3. /\ C \subseteq Active /\ W \subseteq Workers
        /\ C \subseteq OfKind("SINGLE") /\ world.unavailable \notin W
    BY SeedsFinite
  <1> HIDE DEF C, W
  <1>1. a \in Nat /\ \A i \in 1 .. a : SingleIds[i] \in C
    BY <1>7, SortedIs
  <1>2. b \in Nat /\ \A i \in 1 .. b : SeedWorkers[i] \in W
    BY <1>7, SortedIs
  <1> HIDE DEF a, b
  <1>4. TotalPairs = a * b
    BY DEF TotalPairs, a, b
  <1>5. a * b \in Nat
    BY <1>1, <1>2
  <1>6. ASSUME NEW n \in 1 .. a * b
        PROVE  /\ PairCommitment(n) \in Active /\ PairWorker(n) \in Workers
               /\ PairCommitment(n) \in OfKind("SINGLE") /\ PairWorker(n) # world.unavailable
    <2>1. ((n - 1) \div b) + 1 \in 1 .. a /\ ((n - 1) % b) + 1 \in 1 .. b
      BY <1>1, <1>2, PairNumbers
    <2>2. /\ PairCommitment(n) = SingleIds[((n - 1) \div b) + 1]
          /\ PairWorker(n) = SeedWorkers[((n - 1) % b) + 1]
      BY DEF PairCommitment, PairWorker, b
    <2> QED
      BY <1>1, <1>2, <1>3, <2>1, <2>2
  <1> QED
    BY <1>4, <1>5, <1>6

(* The anchors of a seed pair are instants of the horizon.                 *)
LEMMA AnchorsAreInstants ==
    ASSUME Evidenced, NEW c \in Active, NEW w \in Workers
    PROVE  AnchorSet(c, w) \subseteq 0 .. Horizon
  <1> DEFINE dur    == world.task[c].dur
             avail  == world.worker[w].avail
             shifts == IF avail.known THEN avail.windows ELSE {}
             window == world.task[c].window
             others == {o \in Active \ {c} : w \in world.plan[o].workers}
             A == {x[1] : x \in shifts} \cup {x[2] - dur : x \in {y \in shifts : y[2] - dur >= y[1]}}
             B == IF window.state = "KNOWN" THEN {window.from, window.to - dur} ELSE {}
             C == {EndOf(world.plan[o]) : o \in others}
                  \cup {EndOf(world.plan[o]) + KnownTravel(o, c) : o \in others}
             D == {EndOf(world.plan[e[1]]) : e \in {f \in world.edges : f[2] = c /\ f[1] \in Active}}
             E == {world.plan[e[2]].start - dur : e \in {f \in world.edges : f[1] = c /\ f[2] \in Active}}
  <1>1. /\ \A o \in Active : world.plan[o].start \in Int /\ world.plan[o].dur \in Nat
        /\ dur \in Nat
        /\ WindowOK(window) /\ AvailabilityOK(avail) /\ Horizon \in Nat
    BY EvidenceAssumption DEF Evidenced, EvidenceOK, BoundsOK, WorldOK, ContextOK, Active, Workers
  <1>2. \A o \in Active : EndOf(world.plan[o]) \in Int
    BY <1>1 DEF EndOf
  <1>3. dur \in Int /\ world.plan[c].start \in Int
    BY <1>1
  <1> HIDE DEF dur, avail, window
  <1>4. A \subseteq Int
    <2>1. shifts \subseteq Int \X Int
      BY <1>1 DEF AvailabilityOK
    <2> HIDE DEF shifts
    <2> QED
      BY <1>3, <2>1
  <1>5. B \subseteq Int
    BY <1>1, <1>3 DEF WindowOK
  <1>6. C \subseteq Int
    <2>1. \A o \in others : EndOf(world.plan[o]) \in Int /\ KnownTravel(o, c) \in Nat
      BY <1>2, TravelType
    <2>2. \A o \in others : EndOf(world.plan[o]) + KnownTravel(o, c) \in Int
      BY <2>1
    <2> HIDE DEF others
    <2> QED
      BY <2>1, <2>2
  <1>7. D \subseteq Int /\ E \subseteq Int
    BY <1>1, <1>2, <1>3
  <1>8. AnchorSet(c, w) = {t \in {world.plan[c].start} \cup A \cup B \cup C \cup D \cup E : 0 <= t /\ t < Horizon}
    BY DEF AnchorSet, dur, avail, window
  <1> HIDE DEF A, B, C, D, E
  <1>9. ASSUME NEW t \in AnchorSet(c, w) PROVE t \in 0 .. Horizon
    <2>1. t \in Int /\ 0 <= t /\ t < Horizon
      BY <1>3, <1>4, <1>5, <1>6, <1>7, <1>8
    <2> QED
      BY <1>1, <2>1
  <1> QED
    BY <1>9

(* _anchor_starts is a sequence of them, however it is cut.                *)
LEMMA StartsOK ==
    ASSUME Evidenced, NEW c \in Active, NEW w \in Workers
    PROVE  AnchorStarts(c, w) \in Seq(Nat)
  <1> DEFINE planned == world.plan[c].start
             anchors == AnchorSet(c, w)
             first   == IF planned \in anchors THEN <<planned>> ELSE <<>>
             ordered == first \o Sorted(anchors \ {planned})
  <1>1. anchors \subseteq 0 .. Horizon /\ Horizon \in Nat /\ MaxEvaluated \in Nat
    BY AnchorsAreInstants, EvidenceAssumption DEF EvidenceOK, BoundsOK
  <1>2. IsFiniteSet(anchors \ {planned}) /\ anchors \ {planned} \in SUBSET Int
    <2>1. IsFiniteSet(0 .. Horizon)
      BY <1>1, FS_Interval
    <2>2. anchors \ {planned} \subseteq 0 .. Horizon
      BY <1>1
    <2>3. IsFiniteSet(anchors \ {planned})
      BY <2>1, <2>2, FS_Subset
    <2>4. anchors \ {planned} \subseteq Int
      BY <2>2
    <2> QED
      BY <2>3, <2>4
  <1>3. Sorted(anchors \ {planned}) \in Seq(Nat)
    <2> DEFINE T == anchors \ {planned}
    <2>1. T \subseteq Nat
      BY <1>1
    <2>2. Sorted(T) \in Seq(T)
      BY <1>2, SortedIs
    <2> HIDE DEF T
    <2>3. Sorted(T) \in Seq(Nat)
      BY <2>1, <2>2, SeqMono
    <2> QED
      BY <2>3 DEF T
  <1>4. first \in Seq(Nat)
    BY <1>1
  <1> HIDE DEF planned, anchors, first
  <1>5. ordered \in Seq(Nat)
    BY <1>3, <1>4
  <1>6. AnchorStarts(c, w) = SubSeq(ordered, 1, IF Len(ordered) < MaxAnchors THEN Len(ordered) ELSE MaxAnchors)
    BY DEF AnchorStarts, planned, anchors, first
  <1> HIDE DEF ordered
  <1>7. MaxAnchors \in Nat
    BY <1>1 DEF MaxAnchors
  <1> QED
    BY <1>5, <1>6, <1>7

(* _vehicle_options is a sequence of vehicles, or of none.                 *)
LEMMA OptionsOK ==
    ASSUME Evidenced, NEW c, NEW w
    PROVE  VehicleOptions(c, w) \in Seq(Nat \cup {None})
  <1> DEFINE class   == world.task[c].class
             matches == {v \in DOMAIN world.vehicle :
                             /\ class \in world.vehicle[v].classes
                             /\ world.vehicle[v].owner \in {None, w}}
  <1>1. DOMAIN world.vehicle \subseteq Nat /\ IsFiniteSet(DOMAIN world.vehicle)
    BY EvidenceAssumption DEF Evidenced, EvidenceOK, WorldOK
  <1>2. matches \subseteq DOMAIN world.vehicle
    OBVIOUS
  <1>3. VehicleOptions(c, w) = IF class = None \/ matches = {} THEN <<None>> ELSE Sorted(matches)
    BY DEF VehicleOptions
  <1> HIDE DEF class, matches
  <1>4. IsFiniteSet(matches)
    BY <1>1, <1>2, FS_Subset
  <1>5. matches \subseteq Nat
    BY <1>1, <1>2
  <1>6. matches \subseteq Int /\ matches \subseteq Nat \cup {None}
    BY <1>5
  <1>7. Sorted(matches) \in Seq(matches)
    BY <1>4, <1>6, SortedIs
  <1>8. Sorted(matches) \in Seq(Nat \cup {None})
    BY <1>6, <1>7, SeqMono
  <1>9. <<None>> \in Seq(Nat \cup {None})
    OBVIOUS
  <1> QED
    BY <1>3, <1>8, <1>9

-----------------------------------------------------------------------------
(* The inductive invariant.                                                *)

(* The stream stands at a seed pair, and nowhere before the first one.     *)
StreamOK ==
    /\ stream \in Streams
    /\ stream.pair <= TotalPairs
    /\ stream.pair = 0 => stream.starts = <<>>
    /\ stream.anchor # 0

(* The draft the stream stands at is a draft, once it fits the horizon.    *)
LEMMA SeedOK ==
    ASSUME Evidenced, StreamOK, AtDraft, SeedFits, SeedProposable
    PROVE  DraftOK(SeedDraft)
  <1>1. stream.starts[stream.anchor] \in Nat /\ stream.pair # 0
    <2>1. stream.starts \in Seq(Nat) /\ stream.anchor \in Nat
      BY DEF StreamOK, Streams
    <2> QED
      BY <2>1 DEF StreamOK, AtDraft
  <1>2. stream.pair \in 1 .. TotalPairs
    <2>1. stream.pair \in Nat
      BY DEF StreamOK, Streams
    <2> QED
      BY <1>1, <2>1, PairsOK DEF StreamOK
  <1>3. SeedCommitment \in Active /\ SeedWorker \in Workers
    BY <1>2, PairsOK DEF SeedCommitment, SeedWorker
  <1> DEFINE d == SeedDraft
  <1>4. /\ DOMAIN d = {SeedCommitment} /\ d[SeedCommitment].worker = SeedWorker
        /\ d[SeedCommitment].start = stream.starts[stream.anchor]
    BY DEF SeedDraft
  <1> HIDE DEF d
  <1>6. Cardinality(DOMAIN d) \in 1 .. MaxModified
    <2>1. Cardinality({SeedCommitment}) = 1
      BY FS_Singleton
    <2>2. MaxModified \in Nat /\ MaxModified >= 1
      BY EvidenceAssumption DEF EvidenceOK, BoundsOK
    <2> QED
      BY <1>4, <2>1, <2>2
  <1>5. DraftOK(d)
    BY <1>1, <1>3, <1>4, <1>6 DEF DraftOK, SeedFits, SeedProposable, Proposable
  <1> QED
    BY <1>5 DEF d

(* What is pending and what the stream stands at are drafts of this plan;  *)
(* a candidate called feasible can be carried out.                         *)
Inv ==
    /\ world \in Worlds
    /\ stream # None => ContextOK /\ StreamOK
    /\ Queue(pending)
    /\ \E S : candidates \in Seq(S)
    /\ FeasibleMeansFeasible

(* Nothing here depends on the search but on the evidence. *)
LEMMA EvidenceFrozen ==
    ASSUME world' = world
    PROVE  /\ Active' = Active /\ (ContextOK' <=> ContextOK) /\ TotalPairs' = TotalPairs
           /\ \A d : DraftOK(d)' <=> DraftOK(d)
           /\ \A d : CanBeCarriedOut(d)' <=> CanBeCarriedOut(d)
           /\ \A d, a, b : TakenTwice(d, a, b)' <=> TakenTwice(d, a, b)
  <1>1. Active' = Active /\ (ContextOK' <=> ContextOK)
    BY DEF Active, ContextOK
  <1>2. TotalPairs' = TotalPairs
    BY DEF TotalPairs, SingleIds, SeedWorkers, OfKind, CommitmentKind, Workers
  <1>3. \A d : DraftOK(d)' <=> DraftOK(d)
    BY DEF DraftOK, Active, Workers
  <1>4. \A d : CanBeCarriedOut(d)' <=> CanBeCarriedOut(d)
    BY DEF CanBeCarriedOut, OnSite, StartOf, LengthOf, Covered, Inside, TakenTwice, InTime, Takes, Between,
           SamePlace, RouteBetween, Active
  <1>5. \A d, a, b : TakenTwice(d, a, b)' <=> TakenTwice(d, a, b)
    BY DEF TakenTwice, Takes, OnSite, StartOf, LengthOf
  <1> QED
    BY <1>1, <1>2, <1>3, <1>4, <1>5

(* What was found stays, and a draft is added whose checks all passed if it*)
(* is called feasible; its expansion is not refused.                       *)
LEMMA ExamineOK ==
    ASSUME Inv, Evidenced, world' = world, NEW d, DraftOK(d), Examine(d, <<>>)
    PROVE  /\ Queue(pending)' /\ (\E S : candidates \in Seq(S))' /\ FeasibleMeansFeasible'
           /\ result' = result
  <1> DEFINE rejected == Rejections(d, FinalSchedule(d))
             k == EvaluateDraft(d, FinalSchedule(d), rejected)
             x == ExpandFirst(k)
  <1>1. /\ candidates' = Append(candidates, k) /\ pending' \in {x.draft \o <<>>, <<>>}
        /\ result' = IF x.refused THEN PlacementRefused ELSE result
    BY DEF Examine
  <1>2. Offers(x)
    BY ExpandFirstOK
  <1>3. k.draft = d /\ (k.feasible <=> Passed(d))
    BY DEF EvaluateDraft, Passed
  <1> HIDE DEF k, x
  <1>4. Queue(pending)'
    <2>1. <<>> \o <<>> = <<>> /\ \A e : <<e>> \o <<>> = <<e>>
      OBVIOUS
    <2>2. Queue(pending')
      BY <1>1, <1>2, <2>1 DEF Offers, Queue
    <2> QED
      BY <2>2, EvidenceFrozen DEF Queue
  <1>5. PICK S : candidates \in Seq(S)
    BY DEF Inv
  <1>6. candidates \in Seq(S \cup {k})
    BY <1>5, SeqMono
  <1>7. candidates' \in Seq(S \cup {k})
    BY <1>1, <1>6
  <1>8. ASSUME NEW i \in DOMAIN candidates'
        PROVE  candidates'[i] = k \/ (i \in DOMAIN candidates /\ candidates'[i] = candidates[i])
    BY <1>1, <1>6
  <1>9. FeasibleMeansFeasible'
    <2> SUFFICES ASSUME \A c, o \in Active : c # o => ~TakenTwice(<<>>, c, o),
                        NEW i \in DOMAIN candidates', candidates'[i].feasible
                 PROVE  CanBeCarriedOut(candidates'[i].draft)
      BY EvidenceFrozen DEF FeasibleMeansFeasible, Feasible
    <2>1. CASE candidates'[i] = k
      BY <1>3, <2>1, PassedCanBeCarriedOut
    <2>2. CASE i \in DOMAIN candidates /\ candidates'[i] = candidates[i]
      BY <2>2 DEF Inv, FeasibleMeansFeasible, Feasible
    <2> QED
      BY <1>8, <2>1, <2>2
  <1>10. result' = result
    BY <1>1, <1>2 DEF Offers
  <1> QED
    BY <1>4, <1>7, <1>9, <1>10

(* A signature looked at before changes nothing; a new one is examined.    *)
LEMMA DrawOK ==
    ASSUME Inv, Evidenced, world' = world, NEW d, DraftOK(d), Draw(d, <<>>)
    PROVE  /\ Queue(pending)' /\ (\E S : candidates \in Seq(S))' /\ FeasibleMeansFeasible'
           /\ result' = result
  <1>1. CASE d \in seen
    <2>1. pending' = <<>> /\ candidates' = candidates /\ result' = result
      BY <1>1 DEF Draw
    <2>2. FeasibleMeansFeasible'
      BY <2>1, EvidenceFrozen DEF Inv, FeasibleMeansFeasible, Feasible
    <2> QED
      BY <2>1, <2>2 DEF Inv, Queue
  <1>2. CASE d \notin seen
    BY <1>2, ExamineOK DEF Draw
  <1> QED
    BY <1>1, <1>2

(* The candidates and the expansions stay as they are. *)
LEMMA NothingDrawn ==
    ASSUME Inv, world' = world, pending' = pending, candidates' = candidates
    PROVE  world' \in Worlds /\ Queue(pending)' /\ (\E S : candidates \in Seq(S))' /\ FeasibleMeansFeasible'
  <1>1. FeasibleMeansFeasible'
    BY EvidenceFrozen DEF Inv, FeasibleMeansFeasible, Feasible
  <1>2. Queue(pending)'
    BY EvidenceFrozen DEF Inv, Queue
  <1> QED
    BY <1>1, <1>2 DEF Inv

(* The stream behind a draft is a stream.                                  *)
LEMMA AdvancedOK ==
    ASSUME StreamOK, world' = world, AtDraft, stream' = Advanced
    PROVE  StreamOK'
  <1>1. stream.vehicle + 1 \in Nat /\ stream.anchor + 1 \in Nat /\ stream.anchor + 1 # 0
    BY DEF StreamOK, Streams
  <1>2. /\ Advanced \in Streams /\ Advanced.pair = stream.pair
        /\ Advanced.starts = stream.starts /\ Advanced.anchor # 0
    BY <1>1 DEF StreamOK, Advanced, Streams
  <1> QED
    BY <1>2, EvidenceFrozen DEF StreamOK

(* The stream _probe_next_pair leaves is a stream.                         *)
LEMMA ProbedOK ==
    ASSUME Evidenced, StreamOK, world' = world, stream # None, ProbeNextPair
    PROVE  StreamOK'
  <1> DEFINE n == stream.pair + 1
             starts == AnchorStarts(PairCommitment(n), PairWorker(n))
             vehicles == VehicleOptions(PairCommitment(n), PairWorker(n))
             probed == [pair |-> n, probes |-> stream.probes + 1, budgetOut |-> stream.budgetOut,
                        starts |-> starts, vehicles |-> vehicles, anchor |-> 1, vehicle |-> 1]
  <1>1. /\ stream.pair \in Nat /\ stream.probes \in Nat /\ stream.budgetOut \in BOOLEAN
        /\ stream \in Streams
    BY DEF StreamOK, Streams
  <1>2. n \in 1 .. TotalPairs /\ n # 0
    BY <1>1, PairsOK DEF ProbeNextPair
  <1>3. starts \in Seq(Nat) /\ vehicles \in Seq(Nat \cup {None})
    <2>1. PairCommitment(n) \in Active /\ PairWorker(n) \in Workers
      BY <1>2, PairsOK
    <2> QED
      BY <2>1, StartsOK, OptionsOK
  <1>4. stream' \in {[stream EXCEPT !.budgetOut = TRUE], probed}
    BY <1>1 DEF ProbeNextPair, Streams
  <1> HIDE DEF starts, vehicles
  <1>5. CASE stream' = probed
    <2>1. probed \in Streams /\ probed.pair = n /\ probed.anchor = 1
      BY <1>1, <1>2, <1>3 DEF Streams
    <2> HIDE DEF probed
    <2> QED
      BY <1>2, <1>5, <2>1, EvidenceFrozen, PairsOK DEF StreamOK
  <1>6. CASE stream' = [stream EXCEPT !.budgetOut = TRUE]
    <2>1. /\ stream' \in Streams /\ stream'.pair = stream.pair /\ stream'.starts = stream.starts
          /\ stream'.anchor = stream.anchor
      BY <1>1, <1>6 DEF Streams
    <2> QED
      BY <2>1, EvidenceFrozen DEF StreamOK
  <1> QED
    BY <1>4, <1>5, <1>6

(* The search starts in the invariant.                                     *)
LEMMA InitInv == Init => Inv
  <1> SUFFICES ASSUME Init PROVE Inv
    OBVIOUS
  <1>1. candidates \in Seq({}) /\ DOMAIN candidates = {}
    BY DEF Init
  <1> QED
    BY <1>1 DEF Init, Inv, Queue, FeasibleMeansFeasible, Feasible

(* The stream stays a stream once the search has begun. *)
LEMMA StreamStep ==
    ASSUME Inv, Next, stream # None
    PROVE  stream' # None /\ StreamOK' /\ ContextOK' /\ world' = world
  <1>1. Evidenced /\ StreamOK
    BY DEF Inv, Evidenced
  <1>2. world' = world
    BY DEF Next, RefuseBinding, ReturnAtOnce, Begin, TakePending, TakeSeed, RefuseSeed, SkipSeedBeyondHorizon,
           ProbeNextPair, Finish, Return
  <1>3. ASSUME stream' = stream PROVE StreamOK'
    BY <1>1, <1>2, <1>3, EvidenceFrozen DEF StreamOK
  <1>4. ASSUME AtDraft, stream' = Advanced PROVE StreamOK'
    BY <1>1, <1>2, <1>4, AdvancedOK
  <1>5. ASSUME ProbeNextPair PROVE StreamOK'
    BY <1>1, <1>2, <1>5, ProbedOK
  <1>6. StreamOK'
    BY <1>3, <1>4, <1>5 DEF Next, RefuseBinding, ReturnAtOnce, Begin, TakePending, TakeSeed, RefuseSeed,
           SkipSeedBeyondHorizon, Finish, Return, Fresh
  <1>7. stream' # None
    BY <1>6, EvidenceAssumption DEF StreamOK, EvidenceOK, NoneOK, Streams
  <1> QED
    BY <1>1, <1>2, <1>6, <1>7, EvidenceFrozen DEF Evidenced

(* Every step keeps it.                                                    *)
LEMMA StepInv == Inv /\ [Next]_vars => Inv'
  <1> SUFFICES ASSUME Inv, [Next]_vars PROVE Inv'
    OBVIOUS
  <1>1. world' = world
    BY DEF Next, vars, RefuseBinding, ReturnAtOnce, Begin, TakePending, TakeSeed, RefuseSeed, SkipSeedBeyondHorizon,
           ProbeNextPair, Finish, Return
  <1>2. stream # None => Evidenced /\ StreamOK /\ Evidenced'
    BY <1>1, EvidenceFrozen DEF Inv, Evidenced
  <1>3. ASSUME stream' = stream PROVE (stream # None => ContextOK /\ StreamOK)'
    BY <1>1, <1>3, EvidenceFrozen DEF Inv, StreamOK
  <1>4. CASE RefuseBinding \/ ReturnAtOnce \/ RefuseSeed \/ Finish \/ UNCHANGED vars
    BY <1>1, <1>3, <1>4, NothingDrawn DEF Inv, RefuseBinding, ReturnAtOnce, RefuseSeed, Finish, Return, vars
  <1>5. CASE Begin
    <2>1. pending' = pending /\ candidates' = candidates /\ stream' = NoStream /\ ContextOK
      BY <1>5 DEF Begin
    <2>2. Evidenced /\ TotalPairs \in Nat
      BY <2>1, PairsOK DEF Inv, Evidenced
    <2>3. StreamOK'
      <3>1. NoStream \in Streams /\ NoStream.pair = 0 /\ NoStream.starts = <<>> /\ NoStream.anchor = 1
        BY DEF NoStream, Streams
      <3> QED
        BY <1>1, <2>1, <2>2, <3>1, EvidenceFrozen DEF StreamOK
    <2> QED
      BY <1>1, <2>1, <2>3, NothingDrawn, EvidenceFrozen DEF Inv
  <1>6. CASE TakePending
    <2>1. stream # None /\ pending # <<>> /\ Draw(Head(pending), Tail(pending)) /\ stream' = stream
      BY <1>6 DEF TakePending, Searching
    <2>2. PICK e : pending = <<e>> /\ DraftOK(e)
      BY <2>1 DEF Inv, Queue
    <2>3. Head(pending) = e /\ Tail(pending) = <<>>
      BY <2>2
    <2>4. Queue(pending)' /\ (\E S : candidates \in Seq(S))' /\ FeasibleMeansFeasible'
      BY <1>1, <1>2, <2>1, <2>2, <2>3, DrawOK
    <2> QED
      BY <1>1, <1>3, <2>1, <2>4 DEF Inv
  <1>7. CASE TakeSeed
    <2>1. /\ stream # None /\ AtDraft /\ SeedFits /\ SeedProposable
          /\ Draw(SeedDraft, <<>>) /\ stream' = Advanced
      BY <1>7 DEF TakeSeed, Searching
    <2>2. Queue(pending)' /\ (\E S : candidates \in Seq(S))' /\ FeasibleMeansFeasible'
      BY <1>1, <1>2, <2>1, SeedOK, DrawOK
    <2> QED
      BY <1>1, <1>2, <1>7, <2>1, <2>2, StreamStep DEF Inv, Next
  <1>8. CASE SkipSeedBeyondHorizon \/ ProbeNextPair
    <2>1. stream # None /\ pending' = pending /\ candidates' = candidates
      BY <1>8 DEF SkipSeedBeyondHorizon, ProbeNextPair, Searching
    <2> QED
      BY <1>1, <1>2, <1>8, <2>1, StreamStep, NothingDrawn DEF Inv, Next
  <1> QED
    BY <1>4, <1>5, <1>6, <1>7, <1>8 DEF Next

(* _evaluate_draft calls a draft feasible that can be carried out, in      *)
(* every plan, with every support that answers it, and within every bound: *)
(* nobody and nothing is booked twice or late, all evidence is known, no   *)
(* dependency is turned round.                                             *)
THEOREM FeasibleAlwaysFeasible == Spec => []FeasibleMeansFeasible
  <1>1. Inv => FeasibleMeansFeasible
    BY DEF Inv
  <1> QED
    BY <1>1, InitInv, StepInv, PTL DEF Spec

-----------------------------------------------------------------------------
(* The result.                                                             *)

(* The envelope is exhausted when a limit is traced or an expansion was    *)
(* left out; the latter is traced only at the end, but the budget is used  *)
(* by then.                                                                *)
FlagsOK(f, n) ==
    /\ DOMAIN f = {"exhausted", "truncated", "insufficient", "trace"}
    /\ f.exhausted <=> (Limits(f.trace) # {} \/ f.truncated)
    /\ f.truncated => n >= MaxEvaluated

(* What M3RepairCandidate and M3BoundedFeasibilityResult check again.      *)
Accounts ==
    /\ stream = None => candidates = <<>>
    /\ Len(candidates) <= MaxEvaluated
    /\ \A i \in DOMAIN candidates : Cardinality(DOMAIN candidates[i].draft) \in 1 .. MaxModified
    /\ FlagsOK(found, Len(candidates))

(* No result has been refused by its constructor.                          *)
AlwaysAccepted == result # None => result.outcome # "RESULT_REFUSED"

(* A limit is traced in a union when it is traced in one part.             *)
LEMMA LimitsOfUnion ==
    ASSUME NEW A, NEW B
    PROVE  Limits(A \cup B) # {} <=> (Limits(A) # {} \/ Limits(B) # {})
  BY DEF Limits

(* A draft examined keeps the accounts: an expansion left out for want of  *)
(* room is only ever left out when the budget of evaluations is used.      *)
LEMMA ExamineAccounts ==
    ASSUME Inv, Accounts, Searching, NEW d, DraftOK(d), Examine(d, <<>>)
    PROVE  /\ Len(candidates') <= MaxEvaluated
           /\ \A i \in DOMAIN candidates' : Cardinality(DOMAIN candidates'[i].draft) \in 1 .. MaxModified
           /\ FlagsOK(found', Len(candidates'))
  <1> DEFINE rejected == Rejections(d, FinalSchedule(d))
             k == EvaluateDraft(d, FinalSchedule(d), rejected)
             x == ExpandFirst(k)
             trace == {x.trace[i] : i \in DOMAIN x.trace}
             fresh == x.draft # <<>> /\ x.draft[1] \notin seen \cup {d}
             room  == Len(candidates) + 1 < MaxEvaluated
  <1>1. /\ candidates' = Append(candidates, k)
        /\ \E missing : found' = [exhausted |-> found.exhausted \/ Limits(trace) # {} \/ (fresh /\ ~room),
                                  truncated |-> found.truncated \/ (fresh /\ ~room),
                                  insufficient |-> missing, trace |-> found.trace \cup trace]
    <2> DEFINE missing == found.insufficient
                          \cup (IF \E c \in k.rejected : c.status = "UNKNOWN" THEN DOMAIN d ELSE {})
                          \cup UNION {t.ids : t \in {y \in trace : y.reason \in EvidenceTraces}}
    <2>1. /\ candidates' = Append(candidates, k)
          /\ found' = [exhausted |-> found.exhausted \/ Limits(trace) # {} \/ (fresh /\ ~room),
                       truncated |-> found.truncated \/ (fresh /\ ~room),
                       insufficient |-> missing, trace |-> found.trace \cup trace]
      BY SMTT(20) DEF Examine
    <2> HIDE DEF k, x, trace, fresh, room, missing
    <2> QED
      BY <2>1, Zenon
  <1>12. /\ DOMAIN found' = {"exhausted", "truncated", "insufficient", "trace"}
         /\ found'.exhausted <=> (found.exhausted \/ Limits(trace) # {} \/ (fresh /\ ~room))
         /\ found'.truncated <=> (found.truncated \/ (fresh /\ ~room))
         /\ found'.trace = found.trace \cup trace
    <2> DEFINE E == found.exhausted \/ Limits(trace) # {} \/ (fresh /\ ~room)
               T == found.truncated \/ (fresh /\ ~room)
    <2>1. PICK missing : found' = [exhausted |-> E, truncated |-> T, insufficient |-> missing,
                                   trace |-> found.trace \cup trace]
      BY <1>1
    <2>2. found'.exhausted = E /\ found'.truncated = T
      <3> HIDE DEF E, T
      <3> QED
        BY <2>1
    <2>3. DOMAIN found' = {"exhausted", "truncated", "insufficient", "trace"} /\ found'.trace = found.trace \cup trace
      <3> HIDE DEF E, T
      <3> QED
        BY <2>1
    <2>4. (found'.exhausted <=> E) /\ (found'.truncated <=> T)
      BY <2>2, Zenon
    <2> QED
      BY <2>3, <2>4, Zenon
  <1>2. k.draft = d
    BY DEF EvaluateDraft
  <1> HIDE DEF k, x, trace, fresh
  <1>3. PICK S : candidates \in Seq(S)
    BY DEF Inv
  <1>4. candidates \in Seq(S \cup {k})
    BY <1>3, SeqMono
  <1>5. Len(candidates) \in Nat /\ Len(candidates') = Len(candidates) + 1
    BY <1>1, <1>4
  <1>6. MaxEvaluated \in Nat /\ Len(candidates) < MaxEvaluated
    BY EvidenceAssumption DEF EvidenceOK, BoundsOK, Searching
  <1>7. ASSUME NEW i \in DOMAIN candidates'
        PROVE  candidates'[i] = k \/ (i \in DOMAIN candidates /\ candidates'[i] = candidates[i])
    BY <1>1, <1>4
  <1>8. \A i \in DOMAIN candidates' : Cardinality(DOMAIN candidates'[i].draft) \in 1 .. MaxModified
    BY <1>2, <1>7 DEF DraftOK, Accounts
  <1>9. ~found.truncated /\ (found.exhausted <=> Limits(found.trace) # {})
    BY <1>5, <1>6 DEF Accounts, FlagsOK
  <1>10. found'.exhausted <=> (Limits(found'.trace) # {} \/ found'.truncated)
    BY <1>9, <1>12, LimitsOfUnion
  <1>11. found'.truncated => Len(candidates') >= MaxEvaluated
    BY <1>5, <1>6, <1>9, <1>12
  <1>13. FlagsOK(found', Len(candidates'))
    BY <1>10, <1>11, <1>12 DEF FlagsOK
  <1>14. Len(candidates') <= MaxEvaluated
    BY <1>5, <1>6
  <1> QED
    BY <1>8, <1>13, <1>14

(* So does a draft drawn.                                                  *)
LEMMA DrawAccounts ==
    ASSUME Inv, Accounts, Searching, NEW d, DraftOK(d), Draw(d, <<>>), stream' # None
    PROVE  Accounts'
  <1>1. CASE d \in seen
    BY <1>1 DEF Draw, Accounts, FlagsOK, Limits
  <1>2. CASE d \notin seen
    BY <1>2, ExamineAccounts DEF Draw, Accounts, FlagsOK, Limits
  <1> QED
    BY <1>1, <1>2

(* The constructors accept a result that fits the accounts.                *)
LEMMA ResultAccepted ==
    ASSUME Inv, Accounts, NEW o, NEW f,
           f.exhausted <=> Limits(f.trace) # {},
           o = "FEASIBLE_CANDIDATES_FOUND" <=> Feasible # {},
           f.exhausted /\ Feasible = {} => o = "SEARCH_ENVELOPE_EXHAUSTED",
           o = "SEARCH_ENVELOPE_EXHAUSTED" => f.exhausted,
           o = "ALL_EVALUATED_CANDIDATES_REJECTED" => ~f.exhausted,
           o # "RESULT_REFUSED"
    PROVE  MakeResult(o, f).outcome # "RESULT_REFUSED"
  <1>1. ResultOK(o, f)
    BY DEF ResultOK, Accounts
  <1> QED
    BY <1>1 DEF MakeResult, ResultOf

(* The accounts are in order at the start.                                 *)
LEMMA AccountsInit == Init => Accounts /\ AlwaysAccepted
  <1> SUFFICES ASSUME Init PROVE Accounts /\ AlwaysAccepted
    OBVIOUS
  <1>1. MaxEvaluated \in Nat
    BY EvidenceAssumption DEF EvidenceOK, BoundsOK
  <1> QED
    BY <1>1 DEF Init, Accounts, AlwaysAccepted, FlagsOK, NothingFound, Limits

(* Every step keeps them, and every result is accepted.                    *)
LEMMA AccountsStep == Inv /\ Accounts /\ AlwaysAccepted /\ [Next]_vars => Accounts' /\ AlwaysAccepted'
  <1> SUFFICES ASSUME Inv, Accounts, AlwaysAccepted, [Next]_vars PROVE Accounts' /\ AlwaysAccepted'
    OBVIOUS
  <1>1. Limits({}) = {} /\ Limits(KindTrace) = {}
    BY DEF Limits, KindTrace, Trace
  <1>2. stream = None => Feasible = {}
    BY DEF Accounts, Feasible
  <1> DEFINE started == [NothingFound EXCEPT !.insufficient = OfKind(None), !.trace = KindTrace]
  <1>3. /\ DOMAIN started = {"exhausted", "truncated", "insufficient", "trace"}
        /\ ~started.exhausted /\ ~started.truncated /\ started.trace = KindTrace
    BY DEF NothingFound
  <1> HIDE DEF started
  <1>4. CASE RefuseBinding
    <2>1. /\ stream = None /\ UNCHANGED <<stream, candidates, found>>
          /\ result' = MakeResult("BINDING_ERROR", NothingFound)
      BY <1>4 DEF RefuseBinding, Fresh, Return
    <2>2. MakeResult("BINDING_ERROR", NothingFound).outcome # "RESULT_REFUSED"
      <3>1. ~NothingFound.exhausted /\ NothingFound.trace = {}
        BY DEF NothingFound
      <3> QED
        BY <1>1, <1>2, <2>1, <3>1, ResultAccepted
    <2> QED
      BY <2>1, <2>2 DEF Accounts, AlwaysAccepted, FlagsOK, Limits
  <1>5. CASE ReturnAtOnce
    <2> DEFINE o == CASE world.direct = {} -> "NO_REPAIR_REQUIRED"
                      [] world.direct # {} /\ OfKind(None) = {} -> "CREW_REPAIR_UNSUPPORTED"
                      [] OTHER -> "INSUFFICIENT_CRITICAL_EVIDENCE"
    <2>1. /\ stream = None /\ UNCHANGED <<stream, candidates>> /\ found' = started
          /\ result' = MakeResult(o, started)
      BY <1>5 DEF ReturnAtOnce, Fresh, Return, started
    <2>2. o \in {"NO_REPAIR_REQUIRED", "CREW_REPAIR_UNSUPPORTED", "INSUFFICIENT_CRITICAL_EVIDENCE"}
      OBVIOUS
    <2> HIDE DEF o
    <2>3. MakeResult(o, started).outcome # "RESULT_REFUSED"
      BY <1>1, <1>2, <1>3, <2>1, <2>2, ResultAccepted
    <2>4. FlagsOK(started, Len(candidates))
      BY <1>1, <1>3 DEF FlagsOK
    <2> QED
      BY <2>1, <2>3, <2>4 DEF Accounts, AlwaysAccepted, FlagsOK, Limits
  <1>6. CASE Begin
    <2>1. UNCHANGED <<candidates, result>> /\ found' = started /\ stream = None
      BY <1>6 DEF Begin, Fresh, started
    <2>2. FlagsOK(started, Len(candidates))
      BY <1>1, <1>3 DEF FlagsOK
    <2> QED
      BY <2>1, <2>2 DEF Accounts, AlwaysAccepted, FlagsOK, Limits
  <1>7. CASE TakePending
    <2>1. /\ Searching /\ stream # None /\ pending # <<>>
          /\ Draw(Head(pending), Tail(pending)) /\ UNCHANGED <<world, stream>>
      BY <1>7 DEF TakePending, Searching
    <2>2. PICK e : pending = <<e>> /\ DraftOK(e)
      BY <2>1 DEF Inv, Queue
    <2>3. Head(pending) = e /\ Tail(pending) = <<>>
      BY <2>2
    <2>4. Evidenced
      BY <2>1 DEF Inv, Evidenced
    <2>5. result' = result
      BY <2>1, <2>2, <2>3, <2>4, DrawOK
    <2> QED
      BY <2>1, <2>2, <2>3, <2>5, DrawAccounts DEF AlwaysAccepted
  <1>8. CASE TakeSeed
    <2>1. /\ Searching /\ stream # None /\ AtDraft /\ SeedFits /\ SeedProposable
          /\ Draw(SeedDraft, <<>>) /\ stream' = Advanced /\ world' = world
      BY <1>8 DEF TakeSeed, Searching
    <2>2. Evidenced /\ StreamOK
      BY <2>1 DEF Inv, Evidenced
    <2>3. stream' # None
      BY <1>8, <2>1, StreamStep DEF Next
    <2>4. DraftOK(SeedDraft)
      BY <2>1, <2>2, SeedOK
    <2>5. result' = result
      BY <2>1, <2>2, <2>4, DrawOK
    <2> QED
      BY <2>1, <2>3, <2>4, <2>5, DrawAccounts DEF AlwaysAccepted
  <1>11. CASE RefuseSeed
    <2>1. UNCHANGED <<stream, candidates, found>> /\ result' = PlacementRefused
      BY <1>11 DEF RefuseSeed, Return
    <2> QED
      BY <2>1 DEF Accounts, AlwaysAccepted, FlagsOK, Limits, PlacementRefused, ResultOf
  <1>9. CASE SkipSeedBeyondHorizon \/ ProbeNextPair \/ UNCHANGED vars
    <2>1. /\ UNCHANGED <<candidates, found, result>>
          /\ stream' = stream \/ stream # None
      BY <1>9 DEF SkipSeedBeyondHorizon, ProbeNextPair, vars, Searching
    <2>2. stream # None => stream' # None
      BY <1>9, StreamStep DEF Next, vars
    <2> QED
      BY <2>1, <2>2 DEF Accounts, AlwaysAccepted, FlagsOK, Limits
  <1>10. CASE Finish
    <2> DEFINE f == [found EXCEPT !.exhausted = @ \/ BudgetTrace # {} \/ stream.budgetOut,
                                  !.trace = @ \cup BudgetTrace]
    <2>1. /\ UNCHANGED <<stream, candidates>> /\ found' = f /\ result' = MakeResult(Outcome(f), f)
      BY <1>10 DEF Finish, Return
    <2>2. /\ DOMAIN f = DOMAIN found /\ f.truncated = found.truncated
          /\ f.exhausted <=> (found.exhausted \/ BudgetTrace # {} \/ stream.budgetOut)
          /\ f.trace = found.trace \cup BudgetTrace
      BY DEF Accounts, FlagsOK
    <2>3. Limits(BudgetTrace) = BudgetTrace
      BY DEF BudgetTrace, Limits, Trace
    <2>4. /\ stream.budgetOut => BudgetTrace # {}
          /\ found.truncated => BudgetTrace # {}
      BY DEF BudgetTrace, Accounts, FlagsOK
    <2> HIDE DEF f
    <2>5. Limits(f.trace) # {} <=> (Limits(found.trace) # {} \/ BudgetTrace # {})
      BY <2>2, <2>3, LimitsOfUnion
    <2>6. f.exhausted <=> Limits(f.trace) # {}
      BY <2>2, <2>4, <2>5 DEF Accounts, FlagsOK
    <2>7. MakeResult(Outcome(f), f).outcome # "RESULT_REFUSED"
      <3>1. /\ Outcome(f) = "FEASIBLE_CANDIDATES_FOUND" <=> Feasible # {}
            /\ f.exhausted /\ Feasible = {} => Outcome(f) = "SEARCH_ENVELOPE_EXHAUSTED"
            /\ Outcome(f) = "SEARCH_ENVELOPE_EXHAUSTED" => f.exhausted
            /\ Outcome(f) = "ALL_EVALUATED_CANDIDATES_REJECTED" => ~f.exhausted
            /\ Outcome(f) # "RESULT_REFUSED"
        BY DEF Outcome
      <3> QED
        BY <2>6, <3>1, ResultAccepted
    <2>8. FlagsOK(f, Len(candidates))
      BY <2>2, <2>4, <2>5, <2>6 DEF Accounts, FlagsOK
    <2> QED
      BY <2>1, <2>7, <2>8 DEF Accounts, AlwaysAccepted, FlagsOK, Limits
  <1> QED
    BY <1>4, <1>5, <1>6, <1>7, <1>8, <1>9, <1>10, <1>11 DEF Next

(* M3BoundedFeasibilityResult checks the outcome, the exhaustion flag, the *)
(* trace and the sizes against each other again and raises on a mismatch:  *)
(* it never refuses what generate_bounded_repair_candidates hands it,      *)
(* although the flag is set in one place and the trace that goes with it   *)
(* in another.                                                             *)
THEOREM ResultNeverRefused == Spec => []AlwaysAccepted
  <1> QED
    BY InitInv, StepInv, AccountsInit, AccountsStep, PTL DEF Spec

-----------------------------------------------------------------------------
(* An envelope that is not reported exhausted was searched to its end.     *)

(* The starts, the vehicles and the drafts of the seed pair n, and whether *)
(* the stream has them behind it.                                          *)
StartsOf(n) == AnchorStarts(PairCommitment(n), PairWorker(n))

OptionsOf(n) == VehicleOptions(PairCommitment(n), PairWorker(n))

SeedAt(n, i, j) ==
    [c \in {PairCommitment(n)} |->
        [worker |-> PairWorker(n), vehicle |-> OptionsOf(n)[j], start |-> StartsOf(n)[i]]]

FitsAt(n, i) == StartsOf(n)[i] + world.task[PairCommitment(n)].dur <= Horizon

Behind(n, i, j) ==
    \/ n < stream.pair
    \/ n = stream.pair /\ (i < stream.anchor \/ (i = stream.anchor /\ j < stream.vehicle))

(* The stream stands at the starts and the vehicles of its pair. *)
AtPair ==
    /\ stream.vehicle >= 1
    /\ stream.pair # 0 => /\ stream.starts = StartsOf(stream.pair)
                          /\ stream.vehicles = OptionsOf(stream.pair)
                          /\ stream.vehicle <= Len(stream.vehicles)

(* Every seed behind the stream was looked at. *)
Walked ==
    \A n \in 1 .. TotalPairs : \A i \in DOMAIN StartsOf(n), j \in DOMAIN OptionsOf(n) :
        Behind(n, i, j) /\ FitsAt(n, i) => SeedAt(n, i, j) \in seen

(* The candidate _evaluate_draft makes of a draft. *)
Judged(d) == EvaluateDraft(d, FinalSchedule(d), Rejections(d, FinalSchedule(d)))

(* What was looked at was evaluated, each draft once more than nothing. *)
Kept ==
    /\ seen = Evaluated
    /\ \A i \in DOMAIN candidates : \E d : DraftOK(d) /\ candidates[i] = Judged(d)

(* The expansion of a candidate was looked at, is the next one or fell to  *)
(* the budget, and the limits it met are reported.                         *)
Followed(k) ==
    LET x == ExpandFirst(k) IN
    /\ x.draft # <<>> => x.draft[1] \in seen \/ pending = x.draft \/ found.truncated
    /\ \A n \in DOMAIN x.trace : x.trace[n].reason = "SEARCH_ENVELOPE_LIMIT" => found.exhausted

(* Missing evidence is reported, that of the impact and of every check.    *)
Reported ==
    /\ OfKind(None) \subseteq found.insufficient
    /\ \A i \in DOMAIN candidates :
         (\E c \in candidates[i].rejected : c.status = "UNKNOWN") =>
             DOMAIN candidates[i].draft \subseteq found.insufficient

Told == Kept /\ Reported /\ \A i \in DOMAIN candidates : Followed(candidates[i])

(* The result is what was found, and a search that is not exhausted ended  *)
(* with nothing left.                                                      *)
Concluded ==
    Answered =>
        /\ result.exhausted = found.exhausted
        /\ ~found.exhausted => /\ pending = <<>> /\ ~AtDraft /\ ~found.truncated
                               /\ stream.pair >= TotalPairs
        /\ result.outcome = "ALL_EVALUATED_CANDIDATES_REJECTED" =>
               found.insufficient = {} /\ OfKind("CREW") = {}

Complete ==
    /\ stream = None => pending = <<>> /\ candidates = <<>> /\ seen = {}
    /\ stream # None =>
        AtPair /\ Walked /\ Told /\ Concluded


(* Nothing here depends on the search but on the evidence. *)
LEMMA SearchFrozen ==
    ASSUME world' = world
    PROVE  /\ \A k : OfKind(k)' = OfKind(k)
           /\ \A n : /\ PairCommitment(n)' = PairCommitment(n) /\ PairWorker(n)' = PairWorker(n)
                     /\ StartsOf(n)' = StartsOf(n) /\ OptionsOf(n)' = OptionsOf(n)
           /\ \A n, i, j : SeedAt(n, i, j)' = SeedAt(n, i, j)
           /\ \A n, i : FitsAt(n, i)' <=> FitsAt(n, i)
           /\ \A d : Judged(d)' = Judged(d)
           /\ \A k : ExpandFirst(k)' = ExpandFirst(k)
  <1>1. \A k : OfKind(k)' = OfKind(k)
    BY DEF OfKind, CommitmentKind
  <1>2. Active' = Active /\ Workers' = Workers
    BY DEF Active, Workers
  <1>3. ASSUME NEW n PROVE PairCommitment(n)' = PairCommitment(n) /\ PairWorker(n)' = PairWorker(n)
    BY <1>1, <1>2 DEF PairCommitment, PairWorker, SingleIds, SeedWorkers
  <1>5. ASSUME NEW c, NEW w
        PROVE  AnchorStarts(c, w)' = AnchorStarts(c, w) /\ VehicleOptions(c, w)' = VehicleOptions(c, w)
    <2>1. AnchorSet(c, w)' = AnchorSet(c, w)
      BY DEF AnchorSet, Active, KnownTravel, RouteBetween, SamePlace
    <2>2. AnchorStarts(c, w)' = AnchorStarts(c, w)
      BY <2>1, Zenon DEF AnchorStarts
    <2>3. VehicleOptions(c, w)' = VehicleOptions(c, w)
      BY Zenon DEF VehicleOptions
    <2> QED
      BY <2>2, <2>3
  <1>6. ASSUME NEW n PROVE StartsOf(n)' = StartsOf(n) /\ OptionsOf(n)' = OptionsOf(n)
    BY <1>3, <1>5, Zenon DEF StartsOf, OptionsOf
  <1>7. ASSUME NEW n, NEW i, NEW j
        PROVE  SeedAt(n, i, j)' = SeedAt(n, i, j) /\ (FitsAt(n, i)' <=> FitsAt(n, i))
    BY <1>3, <1>6 DEF SeedAt, FitsAt
  <1>8. ASSUME NEW d PROVE Judged(d)' = Judged(d)
    BY DEF Judged, EvaluateDraft, FinalSchedule, Rejections, PlacementChecks, VehicleStatus,
       OverlapChecks, RouteChecks, RouteStatus, DependencyChecks, CandidateInduced, AffectedDependencies,
       ActiveEdges, Downstream, Active, SamePlace, RouteBetween
  <1>9. ASSUME NEW k PROVE ExpandFirst(k)' = ExpandFirst(k)
    <2>1. ASSUME NEW d, NEW c PROVE ExpandOverlap(d, c)' = ExpandOverlap(d, c)
      BY DEF ExpandOverlap, Expanded, Ineligible, CommitmentKind, OnlyWorker, LatestChange, ChangeEnd,
             KnownTravel, SamePlace, RouteBetween, Workers
    <2>2. ASSUME NEW d, NEW e PROVE ExpandDependency(d, e)' = ExpandDependency(d, e)
      BY DEF ExpandDependency, Expanded, Ineligible, CommitmentKind, OnlyWorker, FinalSchedule, SharedRoute,
             KnownTravel, SamePlace, RouteBetween, Workers, Active
    <2>3. DependencyViolations(k)' = DependencyViolations(k)
      BY DEF DependencyViolations, AffectedDependencies, ActiveEdges, Downstream, Active
    <2>4. FirstDependencyViolation(k)' = FirstDependencyViolation(k)
      BY <2>3, Zenon DEF FirstDependencyViolation
    <2> QED
      BY <2>1, <2>2, <2>3, <2>4, Zenon DEF ExpandFirst
  <1> QED
    BY <1>1, <1>3, <1>6, <1>7, <1>8, <1>9, Zenon
(* What one draft examined leaves.                                         *)
LEMMA ExamineIs ==
    ASSUME Inv, Evidenced, NEW d, DraftOK(d), Examine(d, <<>>)
    PROVE  LET k == Judged(d)
               x == ExpandFirst(k)
           IN  /\ candidates' = Append(candidates, k)
               /\ seen' = seen \cup {d}
               /\ x.draft # <<>> => x.draft[1] \in seen' \/ pending' = x.draft \/ found'.truncated
               /\ \A n \in DOMAIN x.trace : x.trace[n].reason = "SEARCH_ENVELOPE_LIMIT" => found'.exhausted
               /\ found.exhausted => found'.exhausted
               /\ found.truncated => found'.truncated
               /\ found.insufficient \subseteq found'.insufficient
               /\ (\E c \in k.rejected : c.status = "UNKNOWN") => DOMAIN d \subseteq found'.insufficient
  <1> DEFINE k == Judged(d)
             x == ExpandFirst(k)
             trace == {x.trace[i] : i \in DOMAIN x.trace}
             fresh == x.draft # <<>> /\ x.draft[1] \notin seen \cup {d}
             room  == Len(candidates) + 1 < MaxEvaluated
             E == found.exhausted \/ Limits(trace) # {} \/ (fresh /\ ~room)
             T == found.truncated \/ (fresh /\ ~room)
             missing == found.insufficient
                        \cup (IF \E c \in k.rejected : c.status = "UNKNOWN" THEN DOMAIN d ELSE {})
                        \cup UNION {t.ids : t \in {y \in trace : y.reason \in EvidenceTraces}}
  <1>1. /\ seen' = seen \cup {d}
        /\ candidates' = Append(candidates, k)
        /\ pending' = IF fresh /\ room THEN x.draft \o <<>> ELSE <<>>
        /\ found' = [exhausted |-> E, truncated |-> T, insufficient |-> missing,
                     trace |-> found.trace \cup trace]
    BY SMTT(20) DEF Examine, Judged
  <1>2. Offers(x)
    BY ExpandFirstOK DEF Judged
  <1> HIDE DEF k, x
  <1>3. found'.exhausted = E /\ found'.truncated = T /\ found'.insufficient = missing
    <2> HIDE DEF E, T, missing, trace
    <2> QED
      BY <1>1
  <1>4. (found'.exhausted <=> E) /\ (found'.truncated <=> T)
    BY <1>3, Zenon
  <1>5. x.draft # <<>> => x.draft[1] \in seen' \/ pending' = x.draft \/ found'.truncated
    <2> SUFFICES ASSUME x.draft # <<>>, x.draft[1] \notin seen', ~found'.truncated
                 PROVE  pending' = x.draft
      OBVIOUS
    <2>1. pending' = x.draft \o <<>>
      BY <1>1, <1>4
    <2>2. PICK e : x.draft = <<e>>
      BY <1>2 DEF Offers, Queue
    <2> QED
      BY <2>1, <2>2
  <1>6. ASSUME NEW n \in DOMAIN x.trace, x.trace[n].reason = "SEARCH_ENVELOPE_LIMIT"
        PROVE  found'.exhausted
    <2>1. x.trace[n] \in Limits(trace)
      BY <1>6 DEF Limits
    <2> QED
      BY <1>4, <2>1
  <1>7. /\ found.exhausted => found'.exhausted
        /\ found.truncated => found'.truncated
    BY <1>4
  <1>8. /\ found.insufficient \subseteq found'.insufficient
        /\ (\E c \in k.rejected : c.status = "UNKNOWN") => DOMAIN d \subseteq found'.insufficient
    BY <1>3
  <1> QED
    BY <1>1, <1>5, <1>6, <1>7, <1>8 DEF k, x

(* The set of what was evaluated grows by the draft of the new candidate.  *)
LEMMA EvaluatedGrows ==
    ASSUME Inv, NEW k, candidates' = Append(candidates, k)
    PROVE  /\ Evaluated' = Evaluated \cup {k.draft}
           /\ \A i \in DOMAIN candidates' :
                candidates'[i] = k \/ (i \in DOMAIN candidates /\ candidates'[i] = candidates[i])
  <1>1. PICK S : candidates \in Seq(S)
    BY DEF Inv
  <1>2. candidates \in Seq(S \cup {k})
    BY <1>1, SeqMono
  <1>3. /\ DOMAIN candidates' = DOMAIN candidates \cup {Len(candidates) + 1}
        /\ candidates'[Len(candidates) + 1] = k
        /\ \A i \in DOMAIN candidates : candidates'[i] = candidates[i]
    BY <1>2
  <1> QED
    BY <1>3 DEF Evaluated

(* A draft drawn was looked at, and all that was found is told.            *)
LEMMA DrawTold ==
    ASSUME Inv, Evidenced, Told, world' = world, NEW d, DraftOK(d), Draw(d, <<>>),
           pending = <<>> \/ pending = <<d>>
    PROVE  Told' /\ seen \subseteq seen' /\ d \in seen'
  <1>1. CASE d \in seen
    <2>1. UNCHANGED <<candidates, seen, found>> /\ pending' = <<>>
      BY <1>1 DEF Draw
    <2>2. Kept' /\ Reported'
      BY <2>1, SearchFrozen, EvidenceFrozen DEF Told, Kept, Reported, Evaluated
    <2>3. ASSUME NEW i \in DOMAIN candidates PROVE Followed(candidates[i])'
      BY <1>1, <2>1, SearchFrozen DEF Told, Followed
    <2> QED
      BY <1>1, <2>1, <2>2, <2>3 DEF Told
  <1>2. CASE d \notin seen
    <2> DEFINE k == Judged(d)
    <2>1. Examine(d, <<>>)
      BY <1>2 DEF Draw
    <2>2. k.draft = d
      BY DEF Judged, EvaluateDraft
    <2>3. /\ candidates' = Append(candidates, k)
          /\ seen' = seen \cup {d}
          /\ found.exhausted => found'.exhausted
          /\ found.truncated => found'.truncated
          /\ found.insufficient \subseteq found'.insufficient
          /\ (\E c \in k.rejected : c.status = "UNKNOWN") => DOMAIN d \subseteq found'.insufficient
          /\ LET x == ExpandFirst(k) IN
             /\ x.draft # <<>> => x.draft[1] \in seen' \/ pending' = x.draft \/ found'.truncated
             /\ \A n \in DOMAIN x.trace : x.trace[n].reason = "SEARCH_ENVELOPE_LIMIT" => found'.exhausted
      BY <2>1, ExamineIs
    <2>4. k' = k
      BY SearchFrozen
    <2> HIDE DEF k
    <2>5. /\ Evaluated' = Evaluated \cup {d}
          /\ \A i \in DOMAIN candidates' :
               candidates'[i] = k \/ (i \in DOMAIN candidates /\ candidates'[i] = candidates[i])
      BY <2>2, <2>3, EvaluatedGrows
    <2>6. Kept'
      <3>1. seen' = Evaluated'
        BY <2>3, <2>5 DEF Told, Kept
      <3>2. ASSUME NEW i \in DOMAIN candidates'
            PROVE  \E e : DraftOK(e)' /\ candidates'[i] = Judged(e)'
        <4>1. CASE candidates'[i] = k
          BY <2>2, <4>1, SearchFrozen, EvidenceFrozen DEF k
        <4>2. CASE i \in DOMAIN candidates /\ candidates'[i] = candidates[i]
          BY <4>2, SearchFrozen, EvidenceFrozen DEF Told, Kept
        <4> QED
          BY <2>5, <4>1, <4>2
      <3> QED
        BY <3>1, <3>2 DEF Kept
    <2>7. Reported'
      <3>1. (OfKind(None) \subseteq found.insufficient)'
        BY <2>3, SearchFrozen DEF Told, Reported
      <3>2. ASSUME NEW i \in DOMAIN candidates', \E c \in candidates'[i].rejected : c.status = "UNKNOWN"
            PROVE  DOMAIN candidates'[i].draft \subseteq found'.insufficient
        <4>1. CASE candidates'[i] = k
          BY <2>2, <2>3, <3>2, <4>1
        <4>2. CASE i \in DOMAIN candidates /\ candidates'[i] = candidates[i]
          BY <2>3, <3>2, <4>2 DEF Told, Reported
        <4> QED
          BY <2>5, <4>1, <4>2
      <3> QED
        BY <3>1, <3>2 DEF Reported
    <2>8. ASSUME NEW i \in DOMAIN candidates' PROVE Followed(candidates[i])'
      <3>1. CASE candidates'[i] = k
        BY <2>3, <3>1, SearchFrozen DEF Followed
      <3>2. CASE i \in DOMAIN candidates /\ candidates'[i] = candidates[i]
        <4> DEFINE x == ExpandFirst(candidates[i])
        <4>1. /\ x.draft # <<>> => x.draft[1] \in seen \/ pending = x.draft \/ found.truncated
              /\ \A n \in DOMAIN x.trace : x.trace[n].reason = "SEARCH_ENVELOPE_LIMIT" => found.exhausted
          BY <3>2 DEF Told, Followed
        <4>2. ExpandFirst(candidates[i])' = x
          BY <3>2, SearchFrozen
        <4> HIDE DEF x
        <4>3. pending = x.draft /\ x.draft # <<>> => x.draft[1] = d
          OBVIOUS
        <4> QED
          BY <2>3, <4>1, <4>2, <4>3 DEF Followed
      <3> QED
        BY <2>5, <3>1, <3>2
    <2> QED
      BY <2>3, <2>6, <2>7, <2>8 DEF Told
  <1> QED
    BY <1>1, <1>2

(* There is always a vehicle to try, or none. *)
LEMMA SomeOption ==
    ASSUME Evidenced, NEW c, NEW w
    PROVE  Len(VehicleOptions(c, w)) \in Nat \ {0}
  <1> DEFINE class   == world.task[c].class
             matches == {v \in DOMAIN world.vehicle :
                             /\ class \in world.vehicle[v].classes
                             /\ world.vehicle[v].owner \in {None, w}}
  <1>1. DOMAIN world.vehicle \subseteq Nat /\ IsFiniteSet(DOMAIN world.vehicle)
    BY EvidenceAssumption DEF Evidenced, EvidenceOK, WorldOK
  <1>2. matches \subseteq DOMAIN world.vehicle
    OBVIOUS
  <1>3. VehicleOptions(c, w) = IF class = None \/ matches = {} THEN <<None>> ELSE Sorted(matches)
    BY DEF VehicleOptions
  <1> HIDE DEF class, matches
  <1>4. IsFiniteSet(matches)
    BY <1>1, <1>2, FS_Subset
  <1>5. matches \in SUBSET Int
    BY <1>1, <1>2
  <1>6. Len(Sorted(matches)) = Cardinality(matches) /\ Cardinality(matches) \in Nat
    BY <1>4, <1>5, SortedIs
  <1>7. matches # {} => Cardinality(matches) # 0
    BY <1>4, FS_EmptySet
  <1>8. Len(<<None>>) = 1
    OBVIOUS
  <1> QED
    BY <1>3, <1>6, <1>7, <1>8

(* The stream after it has stood at a seed: what is behind it now was      *)
(* behind it before, or is that seed.                                      *)
LEMMA AdvancedWalks ==
    ASSUME Inv, Evidenced, StreamOK, AtPair, Walked, AtDraft, world' = world, stream' = Advanced,
           seen \subseteq seen', SeedFits => SeedDraft \in seen'
    PROVE  AtPair' /\ Walked'
  <1> DEFINE p == stream.pair
             a == stream.anchor
             v == stream.vehicle
  <1>1. /\ stream \in Streams /\ p \in Nat /\ a \in Nat /\ v \in Nat /\ a # 0
        /\ stream.starts \in Seq(Nat) /\ stream.vehicles \in Seq(Nat \cup {None})
    BY DEF StreamOK, Streams
  <1>2. p # 0 /\ a \in 1 .. Len(stream.starts)
    BY <1>1 DEF StreamOK, AtDraft
  <1>3. /\ v >= 1 /\ v <= Len(stream.vehicles)
        /\ stream.starts = StartsOf(p) /\ stream.vehicles = OptionsOf(p)
    BY <1>2 DEF AtPair
  <1>4. /\ stream'.pair = p /\ stream'.starts = stream.starts /\ stream'.vehicles = stream.vehicles
        /\ IF v < Len(stream.vehicles) THEN stream'.vehicle = v + 1 /\ stream'.anchor = a
                                       ELSE stream'.vehicle = 1 /\ stream'.anchor = a + 1
    BY <1>1 DEF Advanced, Streams
  <1>5. SeedDraft = SeedAt(p, a, v) /\ (SeedFits <=> FitsAt(p, a))
    BY <1>3 DEF SeedDraft, SeedAt, SeedFits, FitsAt, SeedCommitment, SeedWorker
  <1>6. AtPair'
    <2>1. stream'.starts = StartsOf(stream.pair)' /\ stream'.vehicles = OptionsOf(stream.pair)'
      BY <1>3, <1>4, SearchFrozen
    <2>2. stream'.vehicle >= 1 /\ stream'.vehicle <= Len(stream'.vehicles)
      BY <1>1, <1>3, <1>4
    <2> QED
      BY <2>1, <2>2 DEF AtPair
  <1>7. ASSUME NEW n \in 1 .. TotalPairs, NEW i \in DOMAIN StartsOf(n), NEW j \in DOMAIN OptionsOf(n),
               Behind(n, i, j)', FitsAt(n, i)
        PROVE  SeedAt(n, i, j) \in seen'
    <2>1. n = p => i \in Nat /\ j \in 1 .. Len(stream.vehicles)
      BY <1>1, <1>3
    <2>2. Behind(n, i, j) \/ (n = p /\ i = a /\ j = v)
      BY <1>1, <1>3, <1>4, <1>7, <2>1 DEF Behind
    <2>3. CASE Behind(n, i, j)
      BY <1>7, <2>3 DEF Walked
    <2>4. CASE n = p /\ i = a /\ j = v
      BY <1>5, <1>7, <2>4
    <2> QED
      BY <2>2, <2>3, <2>4
  <1>8. Walked'
    BY <1>7, SearchFrozen, EvidenceFrozen DEF Walked
  <1> QED
    BY <1>6, <1>8

(* _probe_next_pair is called when the pair is behind the stream.          *)
LEMMA ProbedWalks ==
    ASSUME Inv, Evidenced, StreamOK, AtPair, Walked, world' = world, ProbeNextPair
    PROVE  AtPair' /\ Walked'
  <1> DEFINE p == stream.pair
             n1 == p + 1
  <1>1. /\ stream \in Streams /\ p \in Nat /\ stream.anchor \in Nat /\ stream.vehicle \in Nat
        /\ stream.starts \in Seq(Nat) /\ seen' = seen
    BY DEF StreamOK, Streams, ProbeNextPair
  <1>2. stream.anchor > Len(stream.starts)
    BY <1>1 DEF ProbeNextPair, AtDraft
  <1>3. CASE stream.probes >= MaxProbes
    <2>1. /\ stream'.pair = p /\ stream'.starts = stream.starts /\ stream'.vehicles = stream.vehicles
          /\ stream'.vehicle = stream.vehicle /\ stream'.anchor = stream.anchor
      BY <1>1, <1>3 DEF ProbeNextPair, Streams
    <2>2. AtPair'
      BY <2>1, SearchFrozen DEF AtPair
    <2>3. Walked'
      BY <1>1, <2>1, SearchFrozen, EvidenceFrozen DEF Walked, Behind
    <2> QED
      BY <2>2, <2>3
  <1>4. CASE ~(stream.probes >= MaxProbes)
    <2>1. /\ stream'.pair = n1 /\ stream'.anchor = 1 /\ stream'.vehicle = 1
          /\ stream'.starts = StartsOf(n1) /\ stream'.vehicles = OptionsOf(n1)
      BY <1>1, <1>4 DEF ProbeNextPair, Streams, StartsOf, OptionsOf
    <2>2. Len(OptionsOf(n1)) \in Nat /\ Len(OptionsOf(n1)) >= 1
      BY SomeOption DEF OptionsOf
    <2>3. AtPair'
      <3>1. stream'.starts = StartsOf(stream.pair)' /\ stream'.vehicles = OptionsOf(stream.pair)'
        BY <2>1, SearchFrozen
      <3> QED
        BY <2>1, <2>2, <3>1 DEF AtPair
    <2>4. ASSUME NEW n \in 1 .. TotalPairs, NEW i \in DOMAIN StartsOf(n), NEW j \in DOMAIN OptionsOf(n),
                 Behind(n, i, j)', FitsAt(n, i)
          PROVE  SeedAt(n, i, j) \in seen'
      <3>1. n \in Nat /\ n # 0
        BY PairsOK
      <3>2. PairCommitment(n) \in Active /\ PairWorker(n) \in Workers
        BY PairsOK
      <3>3. i \in 1 .. Len(StartsOf(n)) /\ j \in 1 .. Len(OptionsOf(n))
        BY <3>2, StartsOK, OptionsOK DEF StartsOf, OptionsOf
      <3>4. n = p => StartsOf(n) = stream.starts
        BY <3>1 DEF AtPair
      <3>5. n < p \/ n = p
        BY <1>1, <2>1, <2>4, <3>1, <3>3 DEF Behind
      <3>6. Behind(n, i, j)
        BY <1>1, <1>2, <3>3, <3>4, <3>5 DEF Behind
      <3> QED
        BY <1>1, <2>4, <3>6 DEF Walked
    <2>5. Walked'
      BY <2>4, SearchFrozen, EvidenceFrozen DEF Walked
    <2> QED
      BY <2>3, <2>5
  <1> QED
    BY <1>3, <1>4

(* The stream that has not moved. *)
LEMMA StreamRests ==
    ASSUME AtPair, Walked, world' = world, stream' = stream, seen \subseteq seen'
    PROVE  AtPair' /\ Walked'
  <1>1. AtPair'
    BY SearchFrozen DEF AtPair
  <1>2. Walked'
    BY SearchFrozen, EvidenceFrozen DEF Walked, Behind
  <1> QED
    BY <1>1, <1>2


(* The invariant holds at the start.                                       *)
LEMMA CompleteInit == Init => Complete
  BY DEF Init, Complete

(* The last step reports the envelope exhausted unless nothing is left.    *)
LEMMA FinishConcludes ==
    ASSUME Inv, Evidenced, StreamOK, Accounts, Told, Finish
    PROVE  Told' /\ Concluded'
  <1> DEFINE f == found'
  <1>1. /\ UNCHANGED <<world, stream, pending, candidates, seen>> /\ result' = MakeResult(Outcome(f), f)
        /\ LoopEnded
    BY DEF Finish, Return
  <1>2. /\ f.exhausted <=> (found.exhausted \/ BudgetTrace # {} \/ stream.budgetOut)
        /\ f.truncated = found.truncated /\ f.insufficient = found.insufficient
    <2> DEFINE E == found.exhausted \/ BudgetTrace # {} \/ stream.budgetOut
               T == found.trace \cup BudgetTrace
    <2>1. f = [found EXCEPT !.exhausted = E, !.trace = T]
      BY DEF Finish
    <2>2. DOMAIN found = {"exhausted", "truncated", "insufficient", "trace"}
      BY DEF Accounts, FlagsOK
    <2> HIDE DEF E, T
    <2>3. f.exhausted = E /\ f.truncated = found.truncated /\ f.insufficient = found.insufficient
      BY <2>1, <2>2
    <2> QED
      BY <2>3, Zenon DEF E
  <1> HIDE DEF f
  <1>3. Told'
    <2>1. Kept'
      BY <1>1, SearchFrozen, EvidenceFrozen DEF Told, Kept, Evaluated
    <2>2. Reported'
      BY <1>1, <1>2, SearchFrozen DEF Told, Reported, f
    <2>3. ASSUME NEW i \in DOMAIN candidates' PROVE Followed(candidates[i])'
      BY <1>1, <1>2, SearchFrozen DEF Told, Followed, f
    <2> QED
      BY <2>1, <2>2, <2>3 DEF Told
  <1>4. result'.exhausted = f.exhausted
    BY <1>1 DEF MakeResult, ResultOf
  <1>5. ASSUME ~f.exhausted
        PROVE  pending = <<>> /\ ~AtDraft /\ ~found.truncated /\ stream.pair >= TotalPairs
    <2>1. BudgetTrace = {} /\ ~stream.budgetOut /\ ~found.exhausted
      BY <1>2, <1>5
    <2>2. ~found.truncated
      BY <2>1 DEF Accounts, FlagsOK
    <2>3. ~(Len(candidates) >= MaxEvaluated /\ (found.truncated \/ pending # <<>> \/ HasUnexplored))
      BY <2>1 DEF BudgetTrace
    <2>4. stream.pair \in Nat /\ TotalPairs \in Nat
      BY PairsOK DEF StreamOK, Streams
    <2> QED
      BY <1>1, <2>1, <2>2, <2>3, <2>4 DEF LoopEnded, HasUnexplored
  <1>6. ASSUME result'.outcome = "ALL_EVALUATED_CANDIDATES_REJECTED"
        PROVE  f.insufficient = {} /\ OfKind("CREW") = {}
    <2>1. Outcome(f) = "ALL_EVALUATED_CANDIDATES_REJECTED"
      BY <1>1, <1>6 DEF MakeResult, ResultOf
    <2> QED
      BY <2>1 DEF Outcome
  <1>7. (AtDraft' <=> AtDraft) /\ TotalPairs' = TotalPairs /\ OfKind("CREW")' = OfKind("CREW")
    BY <1>1, SearchFrozen, EvidenceFrozen DEF AtDraft
  <1> QED
    BY <1>1, <1>2, <1>3, <1>4, <1>5, <1>6, <1>7 DEF Concluded, f

(* Every step keeps it.                                                    *)
LEMMA CompleteStep == Inv /\ Accounts /\ Complete /\ [Next]_vars => Complete'
  <1> SUFFICES ASSUME Inv, Accounts, Complete, [Next]_vars PROVE Complete'
    OBVIOUS
  <1>1. world' = world
    BY DEF Next, vars, RefuseBinding, ReturnAtOnce, Begin, TakePending, TakeSeed, RefuseSeed, SkipSeedBeyondHorizon,
           ProbeNextPair, Finish, Return
  <1>2. stream # None => /\ Evidenced /\ StreamOK /\ AtPair /\ Walked /\ Told /\ Concluded
    BY DEF Inv, Evidenced, Complete
  <1>3. ASSUME ~Answered' PROVE Concluded'
    BY <1>3 DEF Concluded
  <1>4. CASE UNCHANGED vars
    <2>1. UNCHANGED <<world, stream, pending, candidates, seen, found, result>>
      BY <1>4 DEF vars
    <2>2. CASE stream = None
      BY <2>1, <2>2 DEF Complete
    <2>3. CASE stream # None
      <3>1. AtPair' /\ Walked'
        BY <1>2, <2>1, <2>3, StreamRests
      <3>2. Kept'
        BY <1>2, <2>1, <2>3, SearchFrozen, EvidenceFrozen DEF Told, Kept, Evaluated
      <3>3. Reported'
        BY <1>2, <2>1, <2>3, SearchFrozen DEF Told, Reported
      <3>4. ASSUME NEW i \in DOMAIN candidates PROVE Followed(candidates[i])'
        BY <1>2, <2>1, <2>3, SearchFrozen DEF Told, Followed
      <3>5. Concluded'
        BY <1>2, <2>1, <2>3, SearchFrozen, EvidenceFrozen DEF Concluded, Answered, AtDraft
      <3> QED
        BY <2>1, <2>3, <3>1, <3>2, <3>3, <3>4, <3>5 DEF Complete, Told
    <2> QED
      BY <2>2, <2>3
  <1>5. CASE RefuseBinding \/ ReturnAtOnce
    BY <1>5 DEF RefuseBinding, ReturnAtOnce, Fresh, Return, Complete
  <1>6. CASE Begin
    <2>1. /\ stream = None /\ stream' = NoStream /\ result' = None
          /\ UNCHANGED <<world, pending, candidates, seen>>
          /\ found' = [NothingFound EXCEPT !.insufficient = OfKind(None), !.trace = KindTrace]
      BY <1>6 DEF Begin, Fresh
    <2>2. pending = <<>> /\ candidates = <<>> /\ seen = {} /\ DOMAIN candidates = {}
      BY <2>1 DEF Complete
    <2>3. NoStream.pair = 0 /\ NoStream.vehicle = 1
      BY DEF NoStream
    <2>4. found'.insufficient = OfKind(None)
      BY <2>1 DEF NothingFound
    <2>5. AtPair'
      BY <2>1, <2>3 DEF AtPair
    <2>6. Walked'
      <3> SUFFICES ASSUME NEW n \in 1 .. TotalPairs', NEW i, NEW j PROVE ~Behind(n, i, j)'
        BY DEF Walked
      <3> QED
        BY <2>1, <2>3 DEF Behind
    <2>7. Told'
      BY <2>1, <2>2, <2>4, SearchFrozen DEF Told, Kept, Reported, Evaluated
    <2>8. stream' # None
      <3>1. NoStream \in Streams
        BY DEF NoStream, Streams
      <3> QED
        BY <2>1, <3>1, EvidenceAssumption DEF EvidenceOK, NoneOK
    <2> QED
      BY <1>3, <2>1, <2>5, <2>6, <2>7, <2>8 DEF Complete, Answered
  <1>7. CASE TakePending
    <2>1. /\ stream # None /\ pending # <<>> /\ Draw(Head(pending), Tail(pending)) /\ stream' = stream
          /\ result = None
      BY <1>7 DEF TakePending, Searching
    <2>2. PICK e : pending = <<e>> /\ DraftOK(e)
      BY <2>1 DEF Inv, Queue
    <2>3. Head(pending) = e /\ Tail(pending) = <<>>
      BY <2>2
    <2>4. Told' /\ seen \subseteq seen'
      BY <1>1, <1>2, <2>1, <2>2, <2>3, DrawTold
    <2>5. AtPair' /\ Walked'
      BY <1>1, <1>2, <2>1, <2>4, StreamRests
    <2>6. result' = None
      BY <1>1, <1>2, <2>1, <2>2, <2>3, DrawOK
    <2> QED
      BY <1>3, <2>1, <2>4, <2>5, <2>6 DEF Complete, Answered
  <1>8. CASE TakeSeed
    <2>1. /\ stream # None /\ AtDraft /\ SeedFits /\ SeedProposable
          /\ Draw(SeedDraft, <<>>) /\ stream' = Advanced /\ pending = <<>> /\ result = None
      BY <1>8 DEF TakeSeed, Searching
    <2>5. DraftOK(SeedDraft)
      BY <1>2, <2>1, SeedOK
    <2>2. Told' /\ seen \subseteq seen' /\ SeedDraft \in seen'
      BY <1>1, <1>2, <2>1, <2>5, DrawTold
    <2>6. result' = None
      BY <1>1, <1>2, <2>1, <2>5, DrawOK
    <2>3. AtPair' /\ Walked'
      BY <1>1, <1>2, <2>1, <2>2, AdvancedWalks
    <2>4. stream' # None
      BY <1>8, <2>1, StreamStep DEF Next
    <2> QED
      BY <1>3, <2>1, <2>2, <2>3, <2>4, <2>6 DEF Complete, Answered
  <1>9. CASE SkipSeedBeyondHorizon \/ ProbeNextPair \/ RefuseSeed
    <2>1. /\ stream # None /\ ~Answered' /\ UNCHANGED <<pending, candidates, seen, found>>
      BY <1>9 DEF SkipSeedBeyondHorizon, ProbeNextPair, RefuseSeed, Searching, Return, Answered,
                  PlacementRefused, ResultOf
    <2>2. AtPair' /\ Walked'
      <3>1. CASE SkipSeedBeyondHorizon
        BY <1>1, <1>2, <2>1, <3>1, AdvancedWalks DEF SkipSeedBeyondHorizon
      <3>2. CASE ProbeNextPair
        BY <1>1, <1>2, <2>1, <3>2, ProbedWalks
      <3>3. CASE RefuseSeed
        BY <1>1, <1>2, <2>1, <3>3, StreamRests DEF RefuseSeed, Return
      <3> QED
        BY <1>9, <3>1, <3>2, <3>3
    <2>3. Kept'
      BY <1>1, <1>2, <2>1, SearchFrozen, EvidenceFrozen DEF Told, Kept, Evaluated
    <2>4. Reported'
      BY <1>1, <1>2, <2>1, SearchFrozen DEF Told, Reported
    <2>5. ASSUME NEW i \in DOMAIN candidates PROVE Followed(candidates[i])'
      BY <1>1, <1>2, <2>1, SearchFrozen DEF Told, Followed
    <2>6. stream' # None
      BY <1>9, <2>1, StreamStep DEF Next
    <2> QED
      BY <1>3, <2>1, <2>2, <2>3, <2>4, <2>5, <2>6 DEF Complete, Told
  <1>10. CASE Finish
    <2>1. stream # None /\ UNCHANGED <<stream, seen>>
      BY <1>10 DEF Finish, LoopEnded, Return
    <2>2. Told' /\ Concluded'
      BY <1>2, <1>10, <2>1, FinishConcludes
    <2>3. AtPair' /\ Walked'
      BY <1>1, <1>2, <2>1, StreamRests
    <2> QED
      BY <2>1, <2>2, <2>3 DEF Complete
  <1> QED
    BY <1>4, <1>5, <1>6, <1>7, <1>8, <1>9, <1>10 DEF Next


(* A quotient and a remainder are those of the number made of them. *)
LEMMA QuotientAndRemainder ==
    ASSUME NEW b \in Nat, NEW q \in Nat, NEW r \in 0 .. b - 1
    PROVE  (q * b + r) \div b = q /\ (q * b + r) % b = r
  <1> DEFINE x == q * b + r
             Q == x \div b
             R == x % b
  <1>1. b >= 1 /\ x \in Nat
    OBVIOUS
  <1> HIDE DEF x
  <1>2. Q \in Int /\ R \in 0 .. b - 1 /\ x = b * Q + R
    BY <1>1
  <1> HIDE DEF Q, R
  <1>3. ~(Q > q)
    <2> SUFFICES ASSUME Q >= q + 1 PROVE FALSE
      BY <1>2
    <2>1. b * Q >= b * (q + 1)
      BY <1>1, <1>2
    <2> QED
      BY <1>1, <1>2, <2>1 DEF x
  <1>4. ~(Q < q)
    <2> SUFFICES ASSUME q >= Q + 1 PROVE FALSE
      BY <1>2
    <2>1. b * q >= b * (Q + 1)
      BY <1>1, <1>2
    <2> QED
      BY <1>1, <1>2, <2>1 DEF x
  <1>5. Q = q
    BY <1>2, <1>3, <1>4
  <1>6. R = r
    BY <1>1, <1>2, <1>5 DEF x
  <1> QED
    BY <1>5, <1>6 DEF x, Q, R

(* Every repairable commitment meets every worker left in some seed pair.  *)
LEMMA EveryPair ==
    ASSUME Evidenced, NEW c \in OfKind("SINGLE"), NEW w \in Workers \ {world.unavailable}
    PROVE  \E n \in 1 .. TotalPairs : PairCommitment(n) = c /\ PairWorker(n) = w
  <1> DEFINE a == Len(SingleIds)
             b == Len(SeedWorkers)
  <1>1. a \in Nat /\ \E i \in 1 .. a : SingleIds[i] = c
    BY SeedsFinite, SortedIs DEF SingleIds
  <1>2. b \in Nat /\ \E i \in 1 .. b : SeedWorkers[i] = w
    <2> DEFINE W == Workers \ {world.unavailable}
    <2>1. W \in SUBSET Int /\ IsFiniteSet(W) /\ w \in W /\ SeedWorkers = Sorted(W)
      BY SeedsFinite DEF SeedWorkers
    <2> HIDE DEF W
    <2> QED
      BY <2>1, SortedIs
  <1> HIDE DEF a, b
  <1>3. PICK i \in 1 .. a : SingleIds[i] = c
    BY <1>1
  <1>4. PICK j \in 1 .. b : SeedWorkers[j] = w
    BY <1>2
  <1> DEFINE q == i - 1
             r == j - 1
             n == q * b + r + 1
  <1>5. q \in Nat /\ q <= a - 1 /\ r \in 0 .. b - 1
    BY <1>1, <1>2
  <1>6. (q * b + r) \div b = q /\ (q * b + r) % b = r
    BY <1>2, <1>5, QuotientAndRemainder
  <1>7. q * b \in Nat /\ q * b <= (a - 1) * b /\ (a - 1) * b = a * b - b
    BY <1>1, <1>2, <1>5
  <1> DEFINE m == q * b
             t == a * b
  <1>12. m \in Nat /\ t \in Nat /\ m <= t - b
    BY <1>1, <1>2, <1>7
  <1>13. n = m + r + 1
    OBVIOUS
  <1> HIDE DEF m, t, n, q, r
  <1>8. n \in 1 .. t /\ n - 1 = m + r
    BY <1>2, <1>5, <1>12, <1>13
  <1>9. ((n - 1) \div b) + 1 = i /\ ((n - 1) % b) + 1 = j
    <2>1. (n - 1) \div b = q /\ (n - 1) % b = r
      BY <1>6, <1>8 DEF m
    <2> QED
      BY <1>1, <1>2, <2>1 DEF q, r
  <1>10. PairCommitment(n) = c /\ PairWorker(n) = w
    BY <1>3, <1>4, <1>9 DEF PairCommitment, PairWorker, b
  <1>11. TotalPairs = t
    BY DEF TotalPairs, a, b, t
  <1> QED
    BY <1>8, <1>10, <1>11

(* Two sequences, one behind the other. *)
LEMMA ConcatIs ==
    ASSUME NEW S, NEW a \in Seq(S), NEW b \in Seq(S)
    PROVE  /\ a \o b \in Seq(S) /\ Len(a \o b) = Len(a) + Len(b)
           /\ \A i \in 1 .. Len(a) + Len(b) : (a \o b)[i] = IF i <= Len(a) THEN a[i] ELSE b[i - Len(a)]
  OBVIOUS

(* _anchor_starts names no start twice, and one it does not name comes     *)
(* after all the others, which are then as many as the bound.              *)
LEMMA StartsAre ==
    ASSUME Evidenced, NEW c \in Active, NEW w \in Workers
    PROVE  LET s == AnchorStarts(c, w)
               planned == world.plan[c].start
           IN  /\ s \in Seq(Nat)
               /\ \A i, j \in 1 .. Len(s) : s[i] = s[j] => i = j
               /\ \A i \in 1 .. Len(s) : s[i] \in AnchorSet(c, w)
               /\ \A t \in AnchorSet(c, w) :
                    \/ \E i \in 1 .. Len(s) : s[i] = t
                    \/ Len(s) = MaxAnchors /\ \A i \in 1 .. Len(s) : s[i] = planned \/ s[i] < t
  <1> DEFINE s == AnchorStarts(c, w)
             planned == world.plan[c].start
             anchors == AnchorSet(c, w)
             rest    == anchors \ {planned}
             first   == IF planned \in anchors THEN <<planned>> ELSE <<>>
             tail    == Sorted(rest)
             ordered == first \o tail
             f == Len(first)
             n == Cardinality(rest)
             len == IF Len(ordered) < MaxAnchors THEN Len(ordered) ELSE MaxAnchors
  <1>1. anchors \subseteq 0 .. Horizon /\ Horizon \in Nat /\ MaxEvaluated \in Nat
    BY AnchorsAreInstants, EvidenceAssumption DEF EvidenceOK, BoundsOK
  <1>2. rest \in SUBSET Int /\ rest \subseteq Nat /\ IsFiniteSet(rest) /\ rest \subseteq anchors
    <2>1. IsFiniteSet(0 .. Horizon)
      BY <1>1, FS_Interval
    <2>2. rest \subseteq 0 .. Horizon
      BY <1>1
    <2>3. IsFiniteSet(rest)
      BY <2>1, <2>2, FS_Subset
    <2>4. rest \subseteq Int /\ rest \subseteq Nat
      BY <2>2
    <2> QED
      BY <2>3, <2>4
  <1>3. planned \notin rest /\ \A t \in anchors : t = planned \/ t \in rest
    OBVIOUS
  <1>4. first \in Seq(Nat) /\ f \in {0, 1} /\ (planned \in anchors <=> f = 1) /\ (f = 1 => first[1] = planned)
    BY <1>1
  <1>5. s = SubSeq(ordered, 1, len)
    BY DEF AnchorStarts
  <1> HIDE DEF rest, first, anchors, planned, s
  <1>6. /\ n \in Nat /\ tail \in Seq(rest) /\ Len(tail) = n
        /\ \A i \in 1 .. n : tail[i] \in rest
        /\ \A x \in rest : \E i \in 1 .. n : tail[i] = x
        /\ \A i, j \in 1 .. n : i < j => tail[i] < tail[j]
    BY <1>2, SortedIs
  <1>7. tail \in Seq(Nat)
    BY <1>2, <1>6, SeqMono
  <1> HIDE DEF tail, n
  <1>8. /\ ordered \in Seq(Nat) /\ Len(ordered) = f + n
        /\ \A i \in 1 .. f + n : ordered[i] = IF i <= f THEN first[i] ELSE tail[i - f]
    <2>1. /\ ordered \in Seq(Nat) /\ Len(ordered) = Len(first) + Len(tail)
          /\ \A i \in 1 .. Len(first) + Len(tail) :
                ordered[i] = IF i <= Len(first) THEN first[i] ELSE tail[i - Len(first)]
      <3>1. first \in Seq(Nat)
        BY <1>4
      <3> QED
        BY <1>7, <3>1, ConcatIs, Zenon
    <2>2. Len(tail) = n
      BY <1>6
    <2> QED
      BY <2>1, <2>2, Zenon
  <1> HIDE DEF ordered, f
  <1>9. MaxAnchors \in Nat
    BY <1>1 DEF MaxAnchors
  <1>10. len \in Nat /\ len <= f + n /\ (len = f + n \/ len = MaxAnchors)
    BY <1>4, <1>6, <1>8, <1>9
  <1>11. s \in Seq(Nat) /\ Len(s) = len /\ \A i \in 1 .. len : s[i] = ordered[i]
    BY <1>5, <1>8, <1>10
  <1> HIDE DEF len
  <1>12. ASSUME NEW i \in 1 .. len
         PROVE  \/ f = 1 /\ i = 1 /\ s[i] = planned
                \/ i > f /\ i - f \in 1 .. n /\ s[i] = tail[i - f] /\ s[i] \in rest
    <2>1. i \in 1 .. f + n
      BY <1>4, <1>6, <1>10
    <2>2. s[i] = IF i <= f THEN first[i] ELSE tail[i - f]
      BY <1>8, <1>11, <2>1
    <2>3. CASE i <= f
      BY <1>4, <2>1, <2>2, <2>3
    <2>4. CASE ~(i <= f)
      <3>1. i > f /\ i - f \in 1 .. n
        BY <1>4, <1>6, <2>1, <2>4
      <3> QED
        BY <1>6, <2>2, <2>4, <3>1
    <2> QED
      BY <2>3, <2>4
  <1>13. ASSUME NEW i \in 1 .. len, NEW j \in 1 .. len, i < j PROVE s[i] # s[j]
    <2>1. j > f /\ j - f \in 1 .. n /\ s[j] = tail[j - f] /\ s[j] \in rest
      BY <1>10, <1>12, <1>13
    <2>2. CASE s[i] = planned
      BY <1>3, <2>1, <2>2
    <2>3. CASE i > f /\ i - f \in 1 .. n /\ s[i] = tail[i - f]
      <3>1. i - f < j - f
        BY <1>4, <1>10, <1>13
      <3>2. tail[i - f] < tail[j - f]
        BY <1>6, <2>1, <2>3, <3>1
      <3>3. tail[i - f] \in Nat /\ tail[j - f] \in Nat
        BY <1>2, <1>6, <2>1, <2>3
      <3> QED
        BY <2>1, <2>3, <3>2, <3>3
    <2> QED
      BY <1>12, <2>2, <2>3
  <1>14. \A i, j \in 1 .. len : s[i] = s[j] => i = j
    BY <1>10, <1>13
  <1>15. ASSUME NEW i \in 1 .. len PROVE s[i] \in anchors
    BY <1>2, <1>4, <1>12
  <1>16. ASSUME NEW t \in anchors, ~ \E i \in 1 .. len : s[i] = t
         PROVE  len = MaxAnchors /\ \A i \in 1 .. len : s[i] = planned \/ s[i] < t
    <2>1. CASE t = planned
      <3>1. f = 1
        BY <1>4, <2>1
      <3>2. len = 0
        BY <1>4, <1>8, <1>10, <1>11, <1>16, <2>1, <3>1
      <3> QED
        BY <1>6, <1>10, <3>1, <3>2
    <2>2. CASE t \in rest
      <3>1. PICK k \in 1 .. n : tail[k] = t
        BY <1>6, <2>2
      <3>2. ~(k + f <= len)
        <4> SUFFICES ASSUME k + f <= len PROVE FALSE
          OBVIOUS
        <4>1. k + f \in 1 .. len /\ k + f > f /\ (k + f) - f = k
          BY <1>4, <1>6, <1>10
        <4>2. s[k + f] = t
          BY <1>4, <1>8, <1>10, <1>11, <3>1, <4>1
        <4> QED
          BY <1>16, <4>1, <4>2
      <3>3. len = MaxAnchors
        BY <1>4, <1>6, <1>10, <3>2
      <3>4. ASSUME NEW i \in 1 .. len, s[i] # planned PROVE s[i] < t
        <4>1. i > f /\ i - f \in 1 .. n /\ s[i] = tail[i - f]
          BY <1>12, <3>4
        <4>2. i - f < k
          BY <1>4, <1>6, <1>10, <3>2
        <4> QED
          BY <1>6, <3>1, <4>1, <4>2
      <3> QED
        BY <3>3, <3>4
    <2> QED
      BY <1>3, <2>1, <2>2
  <1> QED
    BY <1>11, <1>14, <1>15, <1>16 DEF s, planned, anchors


(* Not more drafts were looked at than there are candidates. *)
LEMMA NotMoreThanCandidates ==
    ASSUME Inv, Accounts, Kept, NEW n \in Nat, n > Len(candidates), NEW f, DOMAIN f = 1 .. n,
           \A i \in DOMAIN f : f[i] \in seen
    PROVE  \E i, j \in DOMAIN f : i # j /\ f[i] = f[j]
  <1> DEFINE S == 1 .. n
             T == 1 .. Len(candidates)
             g == [i \in S |-> CHOOSE j \in T : candidates[j].draft = f[i]]
  <1>1. Len(candidates) \in Nat /\ DOMAIN candidates = T
    BY DEF Inv
  <1>2. ASSUME NEW i \in S PROVE \E j \in T : candidates[j].draft = f[i]
    <2>1. f[i] \in Evaluated
      BY DEF Kept
    <2> QED
      BY <1>1, <2>1 DEF Evaluated
  <1> HIDE DEF T
  <1>3. g \in [S -> T] /\ \A i \in S : candidates[g[i]].draft = f[i]
    BY <1>2
  <1> HIDE DEF g
  <1>4. IsFiniteSet(S) /\ Cardinality(S) = n
    BY FS_Interval
  <1>5. IsFiniteSet(T) /\ Cardinality(T) = Len(candidates)
    <2> DEFINE m == Len(candidates)
    <2>1. m \in Nat /\ T = 1 .. m
      BY <1>1 DEF T
    <2> HIDE DEF m
    <2>2. IsFiniteSet(1 .. m) /\ Cardinality(1 .. m) = m
      BY <2>1, FS_Interval
    <2> QED
      BY <2>1, <2>2 DEF m
  <1>6. Cardinality(T) < Cardinality(S)
    BY <1>1, <1>4, <1>5
  <1> HIDE DEF S
  <1>7. \E i, j \in S : i # j /\ g[i] = g[j]
    BY <1>3, <1>4, <1>5, <1>6, FS_PigeonHole
  <1> QED
    BY <1>3, <1>7 DEF S

(* A search that ended with nothing left has looked at every seed but those*)
(* of the one cut.  The anchors are cut one behind the budget, so a cut    *)
(* that hides a seed uses the budget up and is reported, unless one of the *)
(* anchors before it is the planned start of a placement that does not fit *)
(* the horizon: then the others are as many as the evaluations.            *)
LEMMA EverySeed ==
    ASSUME Inv, Evidenced, StreamOK, Accounts, AtPair, Walked, Kept, ~AtDraft, stream.pair >= TotalPairs,
           NEW d \in AllSeeds
    PROVE  d \in Evaluated \cup CutUnreported
  <1>1. PICK c \in OfKind("SINGLE"), w \in Workers \ {world.unavailable} :
            d \in [{c} -> [worker : {w}, vehicle : Range(VehicleOptions(c, w)), start : AnchorSet(c, w)]]
    BY DEF AllSeeds
  <1>2. d[c].start + world.task[c].dur <= Horizon
    BY <1>1 DEF AllSeeds
  <1> DEFINE t == d[c].start
             v == d[c].vehicle
  <1>3. /\ t \in AnchorSet(c, w) /\ v \in Range(VehicleOptions(c, w))
        /\ d = [x \in {c} |-> [worker |-> w, vehicle |-> v, start |-> t]]
    <2>1. d[c] \in [worker : {w}, vehicle : Range(VehicleOptions(c, w)), start : AnchorSet(c, w)]
      BY <1>1
    <2>2. d[c] = [worker |-> w, vehicle |-> v, start |-> t]
      BY <2>1
    <2>3. t \in AnchorSet(c, w) /\ v \in Range(VehicleOptions(c, w))
      BY <2>1
    <2>4. d = [x \in {c} |-> d[c]]
      BY <1>1
    <2> QED
      BY <2>2, <2>3, <2>4
  <1> HIDE DEF t, v
  <1>4. c \in Active /\ w \in Workers /\ c \in world.direct
    BY SeedsFinite DEF OfKind
  <1>5. PICK n \in 1 .. TotalPairs : PairCommitment(n) = c /\ PairWorker(n) = w
    BY EveryPair
  <1>6. PICK j \in DOMAIN OptionsOf(n) : OptionsOf(n)[j] = v
    BY <1>3, <1>5 DEF OptionsOf, Range
  <1> DEFINE s == StartsOf(n)
             planned == world.plan[c].start
  <1>7. /\ s \in Seq(Nat)
        /\ \A i, k \in 1 .. Len(s) : s[i] = s[k] => i = k
        /\ \A i \in 1 .. Len(s) : s[i] \in AnchorSet(c, w)
        /\ \/ \E i \in 1 .. Len(s) : s[i] = t
           \/ Len(s) = MaxAnchors /\ \A i \in 1 .. Len(s) : s[i] = planned \/ s[i] < t
    BY <1>3, <1>4, <1>5, StartsAre DEF StartsOf
  <1>8. ASSUME NEW i \in 1 .. Len(s) PROVE Behind(n, i, j)
    <2>1. stream.pair \in Nat /\ stream.anchor \in Nat /\ stream.starts \in Seq(Nat) /\ TotalPairs \in Nat
      BY PairsOK DEF StreamOK, Streams
    <2>2. n < stream.pair \/ n = stream.pair
      BY <2>1
    <2>3. n = stream.pair => stream.starts = s
      BY <2>1 DEF AtPair
    <2>4. Len(stream.starts) < stream.anchor
      BY <2>1 DEF AtDraft
    <2> QED
      BY <1>7, <2>1, <2>2, <2>3, <2>4 DEF Behind
  <1>9. ASSUME NEW i \in 1 .. Len(s), s[i] + world.task[c].dur <= Horizon PROVE SeedAt(n, i, j) \in seen
    <2>1. i \in DOMAIN StartsOf(n) /\ FitsAt(n, i)
      BY <1>5, <1>7, <1>9 DEF FitsAt
    <2> QED
      BY <1>6, <1>8, <2>1 DEF Walked
  <1>10. \A i \in 1 .. Len(s) : SeedAt(n, i, j) = [x \in {c} |-> [worker |-> w, vehicle |-> v, start |-> s[i]]]
    BY <1>5, <1>6 DEF SeedAt
  <1>11. CASE \E i \in 1 .. Len(s) : s[i] = t
    <2>1. PICK i \in 1 .. Len(s) : s[i] = t
      BY <1>11
    <2>2. SeedAt(n, i, j) \in seen
      BY <1>2, <1>9, <2>1 DEF t
    <2>3. SeedAt(n, i, j) = d
      BY <1>3, <1>10, <2>1
    <2> QED
      BY <2>2, <2>3 DEF Kept
  <1>12. CASE (\A i \in 1 .. Len(s) : s[i] # t) /\ Len(s) = MaxAnchors /\ \A i \in 1 .. Len(s) : s[i] = planned \/ s[i] < t
    <2> DEFINE dur  == world.task[c].dur
               B    == MaxEvaluated
               fits(i) == s[i] + dur <= Horizon
               seed(i) == SeedAt(n, i, j)
    <2>1. dur \in Nat /\ Horizon \in Nat /\ B \in Nat /\ Len(candidates) \in Nat /\ Len(candidates) <= B
      BY <1>4, TaskLength, EvidenceAssumption DEF EvidenceOK, BoundsOK, Inv, Accounts
    <2>2. t \in Nat /\ \A x \in AnchorSet(c, w) : x < Horizon /\ x \in Nat
      <3>1. AnchorSet(c, w) \subseteq 0 .. Horizon
        BY <1>4, AnchorsAreInstants
      <3>2. \A x \in AnchorSet(c, w) : x < Horizon
        BY DEF AnchorSet
      <3> QED
        BY <1>3, <2>1, <3>1, <3>2
    <2>3. Len(s) = B + 1
      BY <1>12 DEF MaxAnchors
    <2>4. \A i, k \in 1 .. B + 1 : seed(i) = seed(k) => i = k
      <3> SUFFICES ASSUME NEW i \in 1 .. B + 1, NEW k \in 1 .. B + 1, seed(i) = seed(k) PROVE i = k
        OBVIOUS
      <3>1. seed(i)[c].start = s[i] /\ seed(k)[c].start = s[k]
        BY <1>10, <2>3
      <3> QED
        BY <1>7, <2>3, <3>1
    <2>5. \A i \in 1 .. B + 1 : fits(i) => seed(i) \in seen
      BY <1>9, <2>3
    <2>6. ASSUME NEW i \in 1 .. B + 1, ~fits(i) PROVE s[i] = planned /\ s[i] \in Nat /\ s[i] < Horizon
      <3>1. s[i] \in Nat /\ s[i] < Horizon
        BY <1>7, <2>2, <2>3
      <3>2. ~(s[i] < t)
        BY <1>2, <2>1, <2>2, <2>6, <3>1 DEF t
      <3> QED
        BY <1>12, <2>3, <3>1, <3>2
    <2>7. PICK p \in 1 .. B + 1 : ~fits(p)
      <3> SUFFICES ASSUME \A i \in 1 .. B + 1 : fits(i) PROVE FALSE
        OBVIOUS
      <3> DEFINE f == [i \in 1 .. B + 1 |-> seed(i)]
      <3>1. DOMAIN f = 1 .. B + 1 /\ \A i \in DOMAIN f : f[i] \in seen
        BY <2>5
      <3>2. B + 1 \in Nat /\ B + 1 > Len(candidates)
        BY <2>1
      <3>3. \A i, k \in DOMAIN f : f[i] = f[k] => i = k
        BY <2>4
      <3> HIDE DEF f
      <3> QED
        BY <3>1, <3>2, <3>3, NotMoreThanCandidates
    <2>8. \A i \in 1 .. B + 1 : i # p => fits(i)
      <3> SUFFICES ASSUME NEW i \in 1 .. B + 1, ~fits(i) PROVE i = p
        OBVIOUS
      <3>1. s[i] = planned /\ s[p] = planned
        BY <2>6, <2>7
      <3> QED
        BY <1>7, <2>3, <3>1
    <2> HIDE DEF B, fits, seed
    <2>9. \A i \in 1 .. B + 1 : i # p => seed(i) \in seen
      BY <2>5, <2>8
    <2>10. Len(candidates) = B
      <3> SUFFICES ASSUME Len(candidates) < B PROVE FALSE
        BY <2>1
      <3> DEFINE at(i) == IF i < p THEN i ELSE i + 1
                 f == [i \in 1 .. B |-> seed(at(i))]
      <3>1. \A i \in 1 .. B : at(i) \in 1 .. B + 1 /\ at(i) # p
        BY <2>1
      <3>2. \A i, k \in 1 .. B : at(i) = at(k) => i = k
        BY <2>1
      <3> HIDE DEF at
      <3>3. DOMAIN f = 1 .. B /\ \A i \in DOMAIN f : f[i] \in seen
        BY <2>9, <3>1
      <3>4. \A i, k \in DOMAIN f : f[i] = f[k] => i = k
        BY <2>4, <3>1, <3>2
      <3> HIDE DEF f
      <3> QED
        BY <2>1, <3>3, <3>4, NotMoreThanCandidates
    <2>11. ASSUME NEW e \in Evaluated PROVE DOMAIN e = {c} /\ e[c].worker = w
      <3>1. PICK i \in 1 .. B + 1 : i # p /\ e = seed(i)
        <4> SUFFICES ASSUME \A i \in 1 .. B + 1 : i # p => e # seed(i) PROVE FALSE
          OBVIOUS
        <4> DEFINE f == [i \in 1 .. B + 1 |-> IF i = p THEN e ELSE seed(i)]
        <4>1. DOMAIN f = 1 .. B + 1 /\ \A i \in DOMAIN f : f[i] \in seen
          BY <2>9, <2>11 DEF Kept
        <4>2. B + 1 \in Nat /\ B + 1 > Len(candidates)
          BY <2>1
        <4>3. \A i, k \in DOMAIN f : f[i] = f[k] => i = k
          BY <2>4
        <4> HIDE DEF f
        <4> QED
          BY <4>1, <4>2, <4>3, NotMoreThanCandidates
      <3>2. e = [x \in {c} |-> [worker |-> w, vehicle |-> v, start |-> s[i]]]
        BY <1>10, <2>3, <3>1 DEF seed, B
      <3> QED
        BY <3>2
    <2>12. WholeBudgetOn(c, w)
      BY <2>10, <2>11 DEF WholeBudgetOn, B
    <2>13. planned \in 0 .. (Horizon - 1) /\ planned + dur > Horizon
      <3>1. planned \in Nat /\ planned < Horizon /\ ~(planned + dur <= Horizon)
        BY <2>6, <2>7 DEF fits
      <3> HIDE DEF planned, dur
      <3> QED
        BY <2>1, <3>1
    <2>14. t \notin Range(AnchorStarts(c, w))
      <3>1. \A i \in DOMAIN s : s[i] # t
        BY <1>7, <1>12
      <3>2. s = AnchorStarts(c, w)
        BY <1>5 DEF StartsOf
      <3> HIDE DEF s
      <3> QED
        BY <3>1, <3>2 DEF Range
    <2>15. c \in DOMAIN d /\ d[c].worker = w /\ d[c].start = t
      BY <1>1, <1>3 DEF t
    <2> QED
      BY <2>12, <2>13, <2>14, <2>15 DEF CutUnreported
  <1> QED
    BY <1>7, <1>11, <1>12

(* A check that is not passed has failed or lacks evidence.                *)
LEMMA RejectionStatus ==
    ASSUME Evidenced, NEW d, DraftOK(d), NEW x \in Rejections(d, FinalSchedule(d))
    PROVE  x.status \in {"FAIL", "UNKNOWN"}
  <1> DEFINE f == FinalSchedule(d)
             All == {"PASS", "FAIL", "UNKNOWN"}
  <1>1. \A c \in DOMAIN d : WindowOK(world.task[c].window) /\ WindowOK(world.task[c].deadline)
    BY EvidenceAssumption DEF Evidenced, EvidenceOK, WorldOK, ContextOK, DraftOK
  <1> HIDE DEF f
  <1>2. \A b : Verdict(b) \in All
    BY DEF Verdict
  <1>3. \A avail, p : Availability(avail, p) \in All
    BY <1>2 DEF Availability
  <1>4. \A c, p : VehicleStatus(c, p) \in All
    BY <1>3 DEF VehicleStatus
  <1>5. \A window, p : WindowOK(window) => WindowStatus(window, p) \in All
    BY <1>2 DEF WindowStatus, WindowOK
  <1>6. ASSUME NEW c \in DOMAIN d, NEW w, NEW p, NEW y \in PlacementChecks(c, w, p)
        PROVE  y.status \in All
    BY <1>1, <1>2, <1>3, <1>4, <1>5 DEF PlacementChecks, Check
  <1>7. \A y \in OverlapChecks(f, DOMAIN d) : y.status \in All
    BY DEF OverlapChecks, Check
  <1>8. \A y \in RouteChecks(f, DOMAIN d) : y.status \in All
    BY <1>2 DEF RouteChecks, RouteStatus, Check
  <1>9. \A y \in DependencyChecks(f, DOMAIN d) : y.status \in All
    BY <1>2 DEF DependencyChecks, Check
  <1>10. x.status \in All /\ x.status # "PASS"
    <2>1. x \in Rejections(d, f)
      BY DEF f
    <2> QED
      BY <1>6, <1>7, <1>8, <1>9, <2>1 DEF Rejections
  <1> QED
    BY <1>10

(* generate_bounded_repair_candidates leaves one cut out of its report and *)
(* no other, in every plan, with every support and within every bound.     *)
(* When it comes to a result and the envelope is not reported exhausted,   *)
(* every expansion was validated and every seed inside the horizon but the *)
(* anchors of CutUnreported: those behind a planned placement that runs    *)
(* over the end of the horizon, of the one commitment and worker that took *)
(* the whole budget.  A conclusive rejection rests on known evidence alone.*)
THEOREM ExhaustionAlwaysHonest == Spec => []ExhaustionHonest
  <1>1. Inv /\ Accounts /\ Complete => ExhaustionHonest
    <2> SUFFICES ASSUME Inv, Accounts, Complete, Answered, stream # None, ~result.exhausted
                 PROVE  /\ AllSeeds \subseteq Evaluated \cup CutUnreported
                        /\ \A i \in DOMAIN candidates : LET x == ExpandFirst(candidates[i]) IN
                               /\ x.draft # <<>> => x.draft[1] \in Evaluated
                               /\ \A n \in DOMAIN x.trace : x.trace[n].reason # "SEARCH_ENVELOPE_LIMIT"
                        /\ result.outcome = "ALL_EVALUATED_CANDIDATES_REJECTED" =>
                               /\ world.direct = OfKind("SINGLE")
                               /\ \A i \in DOMAIN candidates : \A c \in candidates[i].rejected :
                                      c.status = "FAIL"
      BY DEF ExhaustionHonest
    <2>1. Evidenced /\ StreamOK /\ AtPair /\ Walked /\ Told /\ Concluded
      BY DEF Inv, Evidenced, Complete
    <2>2. ~found.exhausted /\ pending = <<>> /\ ~AtDraft /\ ~found.truncated /\ stream.pair >= TotalPairs
      BY <2>1 DEF Concluded
    <2>3. AllSeeds \subseteq Evaluated \cup CutUnreported
      BY <2>1, <2>2, EverySeed DEF Told
    <2>4. ASSUME NEW i \in DOMAIN candidates
          PROVE  LET x == ExpandFirst(candidates[i]) IN
                 /\ x.draft # <<>> => x.draft[1] \in Evaluated
                 /\ \A n \in DOMAIN x.trace : x.trace[n].reason # "SEARCH_ENVELOPE_LIMIT"
      BY <2>1, <2>2 DEF Told, Kept, Followed
    <2>5. ASSUME result.outcome = "ALL_EVALUATED_CANDIDATES_REJECTED"
          PROVE  /\ world.direct = OfKind("SINGLE")
                 /\ \A i \in DOMAIN candidates : \A c \in candidates[i].rejected : c.status = "FAIL"
      <3>1. found.insufficient = {} /\ OfKind("CREW") = {} /\ OfKind(None) = {}
        BY <2>1, <2>5 DEF Concluded, Told, Reported
      <3>2. \A c : CommitmentKind(c) \in {"CREW", "SINGLE", None}
        BY DEF CommitmentKind
      <3>3. world.direct = OfKind("SINGLE")
        BY <3>1, <3>2 DEF OfKind
      <3>4. ASSUME NEW i \in DOMAIN candidates, NEW c \in candidates[i].rejected PROVE c.status = "FAIL"
        <4>1. PICK d : DraftOK(d) /\ candidates[i] = Judged(d)
          BY <2>1 DEF Told, Kept
        <4>2. candidates[i].draft = d /\ candidates[i].rejected = Rejections(d, FinalSchedule(d))
          BY <4>1 DEF Judged, EvaluateDraft
        <4>3. c.status \in {"FAIL", "UNKNOWN"}
          BY <2>1, <4>1, <4>2, RejectionStatus
        <4>4. DOMAIN d # {}
          BY <2>1, <4>1, DraftSize
        <4>5. c.status # "UNKNOWN"
          BY <2>1, <3>1, <4>2, <4>4 DEF Told, Reported
        <4> QED
          BY <4>3, <4>5
      <3> QED
        BY <3>3, <3>4
    <2> QED
      BY <2>3, <2>4, <2>5
  <1> QED
    BY <1>1, InitInv, StepInv, AccountsInit, AccountsStep, CompleteInit, CompleteStep, PTL DEF Spec

-----------------------------------------------------------------------------
(* A search that raises. *)

(* Where every instant it can be anchored to is on a second, a seed is.    *)
LEMMA AnchorsOnTheSecond ==
    ASSUME Evidenced, \A x \in AnchoringInstants : OnTheSecond(x),
           NEW c \in OfKind("SINGLE"), c \in Active, NEW w \in Workers \ {world.unavailable},
           NEW t \in AnchorSet(c, w)
    PROVE  OnTheSecond(t)
  <1> DEFINE dur    == world.task[c].dur
             avail  == world.worker[w].avail
             shifts == IF avail.known THEN avail.windows ELSE {}
             window == world.task[c].window
             others == {o \in Active \ {c} : w \in world.plan[o].workers}
  <1>1. /\ \A o \in Active : world.plan[o].start \in Int /\ EndOf(world.plan[o]) \in Int
        /\ dur \in Int /\ OnTheSecond(dur)
        /\ WindowOK(window) /\ AvailabilityOK(avail)
    <2>1. \A o \in Active : world.plan[o].start \in Int /\ world.plan[o].dur \in Nat
      BY EvidenceAssumption DEF Evidenced, EvidenceOK, WorldOK, Active
    <2>2. WindowOK(window) /\ AvailabilityOK(avail)
      BY EvidenceAssumption DEF Evidenced, EvidenceOK, WorldOK, ContextOK, Active, Workers
    <2>3. \A o \in Active : EndOf(world.plan[o]) \in Int
      BY <2>1 DEF EndOf
    <2>4. dur \in Int /\ OnTheSecond(dur)
      BY TaskLength, Zenon
    <2> QED
      BY <2>1, <2>2, <2>3, <2>4
  <1>2. \A o \in Active : OnTheSecond(world.plan[o].start) /\ OnTheSecond(EndOf(world.plan[o]))
    BY DEF AnchoringInstants
  <1>3. \A x \in shifts : x[1] \in Int /\ x[2] \in Int /\ OnTheSecond(x[1]) /\ OnTheSecond(x[2])
    <2> SUFFICES ASSUME NEW x \in shifts PROVE x[1] \in Int /\ x[2] \in Int /\ OnTheSecond(x[1]) /\ OnTheSecond(x[2])
      OBVIOUS
    <2> DEFINE all == UNION {world.worker[v].avail.windows :
                          v \in {u \in Workers \ {world.unavailable} : world.worker[u].avail.known}}
               ends == UNION {{y[1], y[2]} : y \in all}
    <2>1. avail.known /\ x \in avail.windows
      OBVIOUS
    <2>2. x[1] \in AnchoringInstants /\ x[2] \in AnchoringInstants
      <3>1. x \in all
        BY <2>1
      <3> HIDE DEF all
      <3>2. x[1] \in ends /\ x[2] \in ends
        BY <3>1
      <3> HIDE DEF ends
      <3>3. ends \subseteq AnchoringInstants
        BY DEF AnchoringInstants, ends, all
      <3> QED
        BY <3>2, <3>3
    <2> QED
      BY <1>1, <2>1, <2>2 DEF AvailabilityOK
  <1>4. ASSUME window.state = "KNOWN" PROVE OnTheSecond(window.from) /\ OnTheSecond(window.to)
    <2> DEFINE known  == {a \in OfKind("SINGLE") : world.task[a].window.state = "KNOWN"}
               limits == UNION {{world.task[a].window.from, world.task[a].window.to} : a \in known}
    <2>1. c \in known
      BY <1>4
    <2> HIDE DEF known
    <2>2. window.from \in limits /\ window.to \in limits
      BY <2>1
    <2> HIDE DEF limits
    <2>3. limits \subseteq AnchoringInstants
      BY DEF AnchoringInstants, limits, known
    <2>4. window.from \in AnchoringInstants /\ window.to \in AnchoringInstants
      BY <2>2, <2>3
    <2> QED
      BY <2>4
  <1> HIDE DEF dur, avail, window, shifts
  <1>5. \A x \in Int : OnTheSecond(x) => OnTheSecond(x - dur)
    <2> TAKE x \in Int
    <2>1. x - dur \in Int
      BY <1>1
    <2> QED
      BY <1>1, <2>1, WholeSeconds, EvidenceAssumption
  <1>6. CASE t = world.plan[c].start
    BY <1>2, <1>6
  <1>7. CASE t \in {x[1] : x \in shifts} \cup {x[2] - dur : x \in {y \in shifts : y[2] - dur >= y[1]}}
    <2>1. PICK x \in shifts : t = x[1] \/ t = x[2] - dur
      BY <1>7
    <2> QED
      BY <1>3, <1>5, <2>1
  <1>8. CASE window.state = "KNOWN" /\ t \in {window.from, window.to - dur}
    BY <1>1, <1>4, <1>5, <1>8 DEF WindowOK
  <1>9. CASE t \in {EndOf(world.plan[o]) : o \in others} \cup {EndOf(world.plan[o]) + KnownTravel(o, c) : o \in others}
    <2>1. PICK o \in Active : t = EndOf(world.plan[o]) \/ t = EndOf(world.plan[o]) + KnownTravel(o, c)
      BY <1>9
    <2> DEFINE end == EndOf(world.plan[o])
               travel == KnownTravel(o, c)
    <2>2. /\ end \in Int /\ OnTheSecond(end) /\ travel \in Int /\ OnTheSecond(travel)
          /\ t = end \/ t = end + travel
      BY <1>1, <1>2, <2>1, TravelType
    <2> HIDE DEF end, travel
    <2>3. end + travel \in Int
      BY <2>2
    <2> QED
      BY <2>2, <2>3, WholeSeconds, EvidenceAssumption
  <1>10. CASE t \in {EndOf(world.plan[e[1]]) : e \in {f \in world.edges : f[2] = c /\ f[1] \in Active}}
    BY <1>2, <1>10
  <1>11. CASE t \in {world.plan[e[2]].start - dur : e \in {f \in world.edges : f[1] = c /\ f[2] \in Active}}
    BY <1>1, <1>2, <1>5, <1>11
  <1> QED
    BY <1>6, <1>7, <1>8, <1>9, <1>10, <1>11 DEF AnchorSet, dur, avail, window, shifts

(* A seed of such evidence is not refused. *)
LEMMA SeedNotRefused ==
    ASSUME Evidenced, StreamOK, AtPair, AtDraft, \A x \in AnchoringInstants : OnTheSecond(x)
    PROVE  SeedProposable
  <1> DEFINE n == stream.pair
             c == PairCommitment(n)
             w == PairWorker(n)
             start == stream.starts[stream.anchor]
             dur == world.task[c].dur
  <1>1. /\ n \in Nat /\ n # 0 /\ stream.anchor \in 1 .. Len(stream.starts) /\ stream.starts = StartsOf(n)
    <2>1. stream.starts \in Seq(Nat) /\ stream.anchor \in Nat /\ n \in Nat
      BY DEF StreamOK, Streams
    <2>2. stream.anchor \in 1 .. Len(stream.starts) /\ n # 0
      BY <2>1 DEF StreamOK, AtDraft
    <2> QED
      BY <2>1, <2>2 DEF AtPair
  <1>2. n \in 1 .. TotalPairs
    BY <1>1, PairsOK DEF StreamOK
  <1>3. c \in Active /\ w \in Workers /\ c \in OfKind("SINGLE") /\ w # world.unavailable
    BY <1>2, PairsOK
  <1>4. start \in AnchorSet(c, w) /\ start \in Int
    BY <1>1, <1>3, StartsAre DEF StartsOf
  <1>5. OnTheSecond(start)
    BY <1>3, <1>4, AnchorsOnTheSecond
  <1>6. dur \in Int /\ OnTheSecond(dur)
    BY <1>3, TaskLength, Zenon
  <1>7. SeedProposable <=> OnTheSecond(start) /\ OnTheSecond(start + dur)
    BY DEF SeedProposable, Proposable, SeedCommitment
  <1> HIDE DEF start, dur
  <1>8. start + dur \in Int
    BY <1>4, <1>6
  <1> QED
    BY <1>4, <1>5, <1>6, <1>7, <1>8, WholeSeconds, EvidenceAssumption

LEMMA RefusalStep == Inv /\ Complete /\ RefusedOnFractionsOnly /\ [Next]_vars => RefusedOnFractionsOnly'
  <1> SUFFICES ASSUME Inv, Complete, RefusedOnFractionsOnly, [Next]_vars PROVE RefusedOnFractionsOnly'
    OBVIOUS
  <1>1. world' = world
    BY DEF Next, vars, RefuseBinding, ReturnAtOnce, Begin, TakePending, TakeSeed, RefuseSeed, SkipSeedBeyondHorizon,
           ProbeNextPair, Finish, Return
  <1>2. AnchoringInstants' = AnchoringInstants
    BY <1>1 DEF AnchoringInstants, Active, Workers, OfKind, CommitmentKind, EndOf
  <1>3. stream # None => Evidenced /\ StreamOK
    BY DEF Inv, Evidenced
  <1>4. ASSUME result' = result PROVE RefusedOnFractionsOnly'
    BY <1>2, <1>4 DEF RefusedOnFractionsOnly
  <1>5. ASSUME NEW outcome, NEW f, outcome # "PLACEMENT_REFUSED", result' = MakeResult(outcome, f)
        PROVE  RefusedOnFractionsOnly'
    BY <1>5 DEF RefusedOnFractionsOnly, MakeResult, ResultOf
  <1>6. CASE RefuseBinding
    BY <1>5, <1>6 DEF RefuseBinding, Return
  <1>7. CASE ReturnAtOnce
    BY <1>5, <1>7 DEF ReturnAtOnce, Return
  <1>8. CASE Finish
    <2>1. Outcome(found') # "PLACEMENT_REFUSED"
      BY DEF Outcome
    <2> QED
      BY <1>5, <1>8, <2>1 DEF Finish, Return
  <1>9. CASE Begin \/ SkipSeedBeyondHorizon \/ ProbeNextPair \/ UNCHANGED vars
    BY <1>4, <1>9 DEF Begin, SkipSeedBeyondHorizon, ProbeNextPair, vars
  <1>10. CASE TakePending
    <2>1. stream # None /\ pending # <<>> /\ Draw(Head(pending), Tail(pending))
      BY <1>10 DEF TakePending, Searching
    <2>2. PICK e : pending = <<e>> /\ DraftOK(e)
      BY <2>1 DEF Inv, Queue
    <2>3. Head(pending) = e /\ Tail(pending) = <<>>
      BY <2>2
    <2> QED
      BY <1>1, <1>3, <1>4, <2>1, <2>2, <2>3, DrawOK
  <1>11. CASE TakeSeed
    <2>1. stream # None /\ AtDraft /\ SeedFits /\ SeedProposable /\ Draw(SeedDraft, <<>>)
      BY <1>11 DEF TakeSeed, Searching
    <2> QED
      BY <1>1, <1>3, <1>4, <2>1, SeedOK, DrawOK
  <1>12. CASE RefuseSeed
    <2>1. stream # None /\ AtDraft /\ ~SeedProposable
      BY <1>12 DEF RefuseSeed, Searching
    <2>2. \E t \in AnchoringInstants : ~OnTheSecond(t)
      BY <1>3, <2>1, SeedNotRefused DEF Complete
    <2> QED
      BY <1>2, <2>2 DEF RefusedOnFractionsOnly
  <1> QED
    BY <1>6, <1>7, <1>8, <1>9, <1>10, <1>11, <1>12 DEF Next

(* A proposed placement must be on a second, the evidence need not be.  The*)
(* search raises on a planned start or end, a shift or a customer window   *)
(* with a fraction of a second, in every plan and with every support; it   *)
(* never raises for any other reason (ProposedWorkerPlacement.__post_init__).*)
THEOREM RaisesOnFractionsOnly == Spec => []RefusedOnFractionsOnly
  <1>1. Init => RefusedOnFractionsOnly
    BY DEF Init, RefusedOnFractionsOnly
  <1> QED
    BY <1>1, InitInv, StepInv, AccountsInit, AccountsStep, CompleteInit, CompleteStep, RefusalStep, PTL DEF Spec

-----------------------------------------------------------------------------
(* The plan chains and the evaluation inputs.                              *)

(* A chain of revisions for every company, and a company or NONE for every *)
(* day.                                                                    *)
PlanType ==
    /\ chain \in [Companies -> Seq(StoredRevisions)]
    /\ owner \in [DOMAIN PlanDay -> Companies \cup {NONE}]

Histories == \A c \in Companies : HistoryOK(c, chain[c])

(* The days of a revision belong to its company for ever. *)
DaysOwned ==
    \A c \in Companies : \A n \in DOMAIN chain[c] : AssociationsOK(c, chain[c][n].content)

Bound == \A c \in Companies : \A n \in DOMAIN chain[c] : BindingsOK(chain[c][n].content, hydrated)

(* No two companies ever planned the same task or commitment. *)
TasksOwned ==
    \A c, o \in Companies : c # o =>
        \A n \in DOMAIN chain[c], m \in DOMAIN chain[o] :
            \A x \in chain[c][n].content.commitments, y \in chain[o][m].content.commitments :
                ~ SameTaskOrId(x, y)

PlanInv == PlanType /\ Histories /\ DaysOwned /\ Bound /\ TasksOwned

-----------------------------------------------------------------------------
(* import_revision.                                                        *)

(* A chain with an exact child of its head, whose commitments are those of *)
(* history wherever they share a task or an id, is a chain that reads back.*)
LEMMA HistoryExtended ==
    ASSUME NEW S, NEW h \in Seq(S), NEW c, HistoryOK(c, h), NEW r, RevisionOK(r),
           r.company = c, r.number = Len(h),
           r.previous = IF r.number = 0 THEN NONE ELSE Last(h),
           \A n \in DOMAIN h : \A x \in r.content.commitments, y \in h[n].content.commitments :
               SameTaskOrId(x, y) => CommitmentIdentity(x) = CommitmentIdentity(y)
    PROVE  HistoryOK(c, Append(h, r))
  <1> DEFINE g == Append(h, r)
             N == Len(h)
  <1>1. N \in Nat /\ DOMAIN h = 1 .. N /\ DOMAIN g = 1 .. N + 1 /\ g[N + 1] = r
    OBVIOUS
  <1>2. \A n \in 1 .. N : g[n] = h[n]
    OBVIOUS
  <1>3. Last(h) = h[N]
    BY DEF Last
  <1>4. \A n \in 1 .. N + 1 : n \in 1 .. N \/ n = N + 1
    BY <1>1
  <1> HIDE DEF g, N
  <1>5. ASSUME NEW n \in DOMAIN g
        PROVE  /\ g[n].company = c
               /\ g[n].number = n - 1
               /\ g[n].previous = IF n = 1 THEN NONE ELSE g[n - 1]
               /\ RevisionOK(g[n])
    <2>1. CASE n \in 1 .. N
      <3>1. n # 1 => n - 1 \in 1 .. N
        BY <1>1, <2>1
      <3> QED
        BY <1>1, <1>2, <2>1, <3>1 DEF HistoryOK
    <2>2. CASE n = N + 1
      <3>1. r.number = n - 1
        BY <1>1, <2>2 DEF N
      <3>2. r.previous = IF n = 1 THEN NONE ELSE g[n - 1]
        <4>1. CASE N = 0
          BY <1>1, <2>2, <3>1, <4>1
        <4>2. CASE N # 0
          <5>1. n - 1 = N /\ n # 1 /\ N \in 1 .. N /\ r.number # 0
            BY <1>1, <2>2, <3>1, <4>2
          <5> QED
            BY <1>2, <1>3, <5>1
        <4> QED
          BY <4>1, <4>2
      <3> QED
        BY <1>1, <2>2, <3>1, <3>2
    <2> QED
      BY <1>1, <1>4, <2>1, <2>2
  <1>6. ASSUME NEW n \in DOMAIN g, NEW o \in DOMAIN g,
               NEW x \in g[n].content.commitments, NEW y \in g[o].content.commitments,
               SameTaskOrId(x, y)
        PROVE  CommitmentIdentity(x) = CommitmentIdentity(y)
    <2>1. CASE n \in 1 .. N /\ o \in 1 .. N
      BY <1>1, <1>2, <1>6, <2>1 DEF HistoryOK
    <2>2. CASE n = N + 1 /\ o \in 1 .. N
      BY <1>1, <1>2, <1>6, <2>2
    <2>3. CASE n \in 1 .. N /\ o = N + 1
      <3>1. SameTaskOrId(y, x)
        BY <1>6 DEF SameTaskOrId
      <3>2. CommitmentIdentity(y) = CommitmentIdentity(x)
        BY <1>1, <1>2, <2>3, <3>1
      <3> QED
        BY <3>2
    <2>4. CASE n = N + 1 /\ o = N + 1
      <3>1. ContentOK(r.content)
        BY DEF RevisionOK
      <3>2. x = y
        BY <1>1, <1>6, <2>4, <3>1 DEF ContentOK, SameTaskOrId
      <3> QED
        BY <3>2
    <2> QED
      BY <1>1, <1>4, <2>1, <2>2, <2>3, <2>4
  <1>7. HistoryOK(c, g)
    BY <1>5, <1>6 DEF HistoryOK
  <1> QED
    BY <1>7 DEF g

(* What a revision binds it to stays bound when M2 hydrates more jobs. *)
LEMMA BindingsGrow ==
    ASSUME NEW x, NEW js, NEW ks, js \subseteq ks, BindingsOK(x, js)
    PROVE  BindingsOK(x, ks)
  BY DEF BindingsOK

(* import_revision keeps every chain readable and every day and task with  *)
(* the company that planned it first.                                      *)
LEMMA ImportStep ==
    ASSUME PlanInv, NEW c \in Companies, NEW n, NEW p, NEW x, ImportRevision(c, n, p, x)
    PROVE  PlanInv'
  <1> DEFINE r == [company |-> c, number |-> n, previous |-> p, content |-> x]
             N == Len(chain[c])
  <1>1. /\ ImportAccepted(r) /\ RevisionOK(r)
        /\ owner' = [ d \in DOMAIN owner |-> IF \E e \in x.days : e.id = d THEN c ELSE owner[d] ]
        /\ chain' = [chain EXCEPT ![c] = Append(@, r)]
        /\ hydrated' = hydrated
    BY DEF ImportRevision
  <1>2. r.company = c /\ r.number = n /\ r.previous = p /\ r.content = x
    OBVIOUS
  <1> HIDE DEF r
  <1>3. /\ r.number = Len(chain[r.company])
        /\ r.previous = IF r.number = 0 THEN NONE ELSE Last(chain[r.company])
        /\ \A d \in r.content.days : owner[d.id] \in {NONE, r.company}
        /\ BindingsOK(r.content, hydrated) /\ OwnershipOK(r.company, r.content)
    BY <1>1 DEF ImportAccepted
  <1>4. /\ n = N /\ p = (IF n = 0 THEN NONE ELSE Last(chain[c]))
        /\ \A d \in x.days : owner[d.id] \in {NONE, c}
        /\ BindingsOK(x, hydrated) /\ OwnershipOK(c, x)
    BY <1>2, <1>3
  <1>5. chain \in [Companies -> Seq(StoredRevisions)]
    BY DEF PlanInv, PlanType
  <1>6. /\ chain'[c] = Append(chain[c], r)
        /\ \A o \in Companies \ {c} : chain'[o] = chain[o]
        /\ DOMAIN chain' = Companies
    BY <1>1, <1>5
  <1>7. /\ N \in Nat /\ DOMAIN chain[c] = 1 .. N /\ DOMAIN chain'[c] = 1 .. N + 1
        /\ chain'[c][N + 1] = r /\ \A m \in 1 .. N : chain'[c][m] = chain[c][m]
    <2>1. chain[c] \in Seq(StoredRevisions)
      BY <1>5
    <2> QED
      BY <1>6, <2>1
  <1>8. \A m \in 1 .. N + 1 : m \in 1 .. N \/ m = N + 1
    BY <1>7
  <1>9. \A d \in DOMAIN PlanDay : owner'[d] = IF \E e \in x.days : e.id = d THEN c ELSE owner[d]
    BY <1>1 DEF PlanInv, PlanType
  <1>10. PlanType'
    <2>1. owner' \in [DOMAIN PlanDay -> Companies \cup {NONE}]
      BY <1>1 DEF PlanInv, PlanType
    <2>2. \A o \in Companies : \A m \in DOMAIN chain'[o] : chain'[o][m] \in StoredRevisions'
      BY DEF StoredRevisions, Range
    <2>3. \A o \in Companies : chain'[o] \in Seq(StoredRevisions')
      <3> SUFFICES ASSUME NEW o \in Companies
                   PROVE  chain'[o] \in Seq(StoredRevisions')
        OBVIOUS
      <3>1. \E S : chain'[o] \in Seq(S)
        <4>1. CASE o = c
          <5>1. chain[c] \in Seq(StoredRevisions \cup {r})
            BY <1>5
          <5>2. Append(chain[c], r) \in Seq(StoredRevisions \cup {r})
            BY <5>1
          <5> QED
            BY <1>6, <4>1, <5>2
        <4>2. CASE o # c
          BY <1>5, <1>6, <4>2
        <4> QED
          BY <4>1, <4>2
      <3> QED
        BY <2>2, <3>1
    <2> QED
      BY <1>1, <1>5, <2>1, <2>3 DEF PlanType
  <1>11. Histories'
    <2>1. \A m \in DOMAIN chain[c] : \A y \in x.commitments, z \in chain[c][m].content.commitments :
              SameTaskOrId(y, z) => CommitmentIdentity(y) = CommitmentIdentity(z)
      BY <1>4 DEF OwnershipOK
    <2>2. HistoryOK(c, Append(chain[c], r))
      BY <1>1, <1>2, <1>4, <1>5, <2>1, HistoryExtended DEF PlanInv, Histories
    <2> QED
      BY <1>6, <2>2 DEF PlanInv, Histories
  <1>12. DaysOwned'
    <2> SUFFICES ASSUME NEW o \in Companies, NEW m \in DOMAIN chain'[o],
                        NEW d \in chain'[o][m].content.days
                 PROVE  owner'[d.id] = o
      BY DEF DaysOwned, AssociationsOK
    <2>1. CASE o = c /\ m = N + 1
      <3>1. d \in x.days /\ d.id \in DOMAIN PlanDay
        BY <1>2, <1>4, <1>7, <2>1 DEF BindingsOK
      <3> QED
        BY <1>9, <2>1, <3>1
    <2>2. CASE o # c \/ m \in 1 .. N
      <3>1. m \in DOMAIN chain[o] /\ chain'[o][m] = chain[o][m]
        BY <1>6, <1>7, <2>2
      <3>2. owner[d.id] = o /\ d.id \in DOMAIN PlanDay
        BY <3>1 DEF PlanInv, DaysOwned, AssociationsOK, Bound, BindingsOK
      <3>3. ASSUME NEW e \in x.days, e.id = d.id
            PROVE  o = c
        BY <1>4, <3>2, <3>3, NoneAssumption
      <3> QED
        BY <1>9, <3>2, <3>3
    <2> QED
      BY <1>7, <1>8, <2>1, <2>2
  <1>13. Bound'
    BY <1>1, <1>2, <1>4, <1>6, <1>7, <1>8 DEF PlanInv, Bound
  <1>14. TasksOwned'
    <2>1. \A o \in Companies \ {c} : \A m \in DOMAIN chain[o] :
             \A y \in x.commitments, z \in chain[o][m].content.commitments :
                 ~ SameTaskOrId(y, z) /\ ~ SameTaskOrId(z, y)
      BY <1>4 DEF OwnershipOK, SameTaskOrId
    <2> SUFFICES ASSUME NEW a \in Companies, NEW b \in Companies, a # b,
                        NEW i \in DOMAIN chain'[a], NEW j \in DOMAIN chain'[b],
                        NEW y \in chain'[a][i].content.commitments,
                        NEW z \in chain'[b][j].content.commitments
                 PROVE  ~ SameTaskOrId(y, z)
      BY DEF TasksOwned
    <2>2. CASE a = c /\ i = N + 1
      BY <1>2, <1>6, <1>7, <2>1, <2>2
    <2>3. CASE b = c /\ j = N + 1
      BY <1>2, <1>6, <1>7, <2>1, <2>3
    <2>4. CASE (a # c \/ i \in 1 .. N) /\ (b # c \/ j \in 1 .. N)
      <3>1. /\ i \in DOMAIN chain[a] /\ chain'[a][i] = chain[a][i]
            /\ j \in DOMAIN chain[b] /\ chain'[b][j] = chain[b][j]
        BY <1>6, <1>7, <2>4
      <3> QED
        BY <3>1 DEF PlanInv, TasksOwned
    <2> QED
      BY <1>7, <1>8, <2>2, <2>3, <2>4
  <1> QED
    BY <1>10, <1>11, <1>12, <1>13, <1>14 DEF PlanInv

(* A step that leaves the plans alone and takes no hydrated job away. *)
LEMMA PlansKept ==
    ASSUME PlanInv, UNCHANGED <<chain, owner>>, hydrated \subseteq hydrated'
    PROVE  PlanInv'
  <1>1. PlanType' /\ Histories' /\ TasksOwned'
    BY DEF PlanInv, PlanType, StoredRevisions, Histories, TasksOwned
  <1>2. DaysOwned'
    BY DEF PlanInv, DaysOwned, AssociationsOK
  <1>3. Bound'
    BY BindingsGrow DEF PlanInv, Bound
  <1> QED
    BY <1>1, <1>2, <1>3 DEF PlanInv

-----------------------------------------------------------------------------
(* The theorems.                                                           *)

(* The chains start empty. *)
LEMMA PlanInitInv == EvaluationInit => PlanInv
  <1> SUFFICES ASSUME EvaluationInit
               PROVE  PlanInv
    OBVIOUS
  <1>1. chain = [ c \in Companies |-> <<>> ] /\ owner = [ d \in DOMAIN PlanDay |-> NONE ]
    BY DEF EvaluationInit, PlanInit
  <1>2. \A c \in Companies : DOMAIN chain[c] = {} /\ chain[c] = <<>>
    BY <1>1
  <1>3. PlanType
    BY <1>1 DEF PlanType
  <1>4. Histories /\ DaysOwned /\ Bound /\ TasksOwned
    BY <1>2 DEF Histories, HistoryOK, DaysOwned, Bound, TasksOwned
  <1> QED
    BY <1>3, <1>4 DEF PlanInv

(* Every step keeps the invariant. *)
LEMMA PlanStep == PlanInv /\ [EvaluationNext]_evaluationVars => PlanInv'
  <1> SUFFICES ASSUME PlanInv, [EvaluationNext]_evaluationVars
               PROVE  PlanInv'
    OBVIOUS
  <1>1. ASSUME NEW c \in Companies, NEW n, NEW p, NEW x, ImportRevision(c, n, p, x)
        PROVE  PlanInv'
    BY <1>1, ImportStep
  <1>2. ASSUME NEW j, HydrateJob(j)
        PROVE  PlanInv'
    BY <1>2, PlansKept DEF HydrateJob
  <1>3. ASSUME NEW t, NEW s, FieldEvent(t, s)
        PROVE  PlanInv'
    BY <1>3, PlansKept DEF FieldEvent
  <1>4. ASSUME NEW d, ReportUnavailable(d)
        PROVE  PlanInv'
    BY <1>4, PlansKept DEF ReportUnavailable
  <1>5. ASSUME NEW q, ProduceSnapshot(q)
        PROVE  PlanInv'
    BY <1>5, PlansKept DEF ProduceSnapshot
  <1>6. CASE RecordInput
    BY <1>6, PlansKept DEF RecordInput
  <1>7. CASE UNCHANGED evaluationVars
    BY <1>7, PlansKept DEF evaluationVars
  <1> QED
    BY <1>1, <1>2, <1>3, <1>4, <1>5, <1>6, <1>7 DEF EvaluationNext, PlanNext

(* import_revision checks a new revision, get_revision checks every stored *)
(* one: what was imported can be read in every later state, and a task or  *)
(* a commitment never passes to another company, even after the revision   *)
(* that dropped it.                                                        *)
THEOREM StoredPlanAlwaysReadable == EvaluationSpec => []StoredPlanReadable
  <1>1. PlanInv => StoredPlanReadable
    BY DEF PlanInv, Histories, DaysOwned, Bound, TasksOwned, StoredPlanReadable, Readable
  <1> QED
    BY <1>1, PlanInitInv, PlanStep, PTL DEF EvaluationSpec

(* record_evaluation_input reads a snapshot in one transaction and stores  *)
(* the input in a later one: whatever was committed in between, what it    *)
(* stores is rebuilt from the head of the plan, the task status and the    *)
(* job revisions of the transaction that stores it.                        *)
THEOREM RecordedInputAlwaysCurrent == EvaluationSpec => RecordedInputIsCurrent
  <1> DEFINE Current(v) ==
               /\ v.base.company = owner'[v.request.day]
               /\ v.base = Last(chain'[v.base.company])
               /\ \A c \in v.base.content.commitments :
                    /\ c \in v.active <=> status'[c.task] # "DONE"
                    /\ \E t \in v.tasks : /\ t.task = c.task
                                          /\ t.status = status'[c.task]
                                          /\ t.jobRevision = jobRevision'[c.job]
  <1>1. ASSUME EvaluationNext
        PROVE  \A v \in inputs' \ inputs : Current(v)
    <2>1. CASE inputs' = inputs
      BY <2>1
    <2>2. CASE RecordInput /\ Recordable(trusted)
      <3> DEFINE q == trusted.request
                 r == trusted.revision
                 b == BuildInput(q, r)
      <3>1. /\ inputs' = inputs \cup {b} \/ inputs' = inputs
            /\ UNCHANGED <<chain, owner, status, jobRevision>>
        BY <2>2 DEF RecordInput
      <3>2. owner[q.day] = r.company /\ Last(chain[r.company]) = r
        BY <2>2 DEF Recordable, StillCurrent
      <3>3. /\ b.request = q /\ b.base = r /\ b.tasks = TaskPreconditions(r.content)
            /\ b.active = { c \in r.content.commitments : status[c.task] # "DONE" }
        BY DEF BuildInput
      <3> HIDE DEF b, q, r
      <3>4. ASSUME NEW c \in r.content.commitments
            PROVE  \E t \in b.tasks : /\ t.task = c.task /\ t.status = status[c.task]
                                      /\ t.jobRevision = jobRevision[c.job]
        <4> DEFINE t == [task |-> c.task, version |-> c.version, handoff |-> c.handoff, job |-> c.job,
                         jobRevision |-> jobRevision[c.job], status |-> status[c.task]]
        <4>1. t \in b.tasks
          BY <3>3 DEF TaskPreconditions
        <4>2. t.task = c.task /\ t.status = status[c.task] /\ t.jobRevision = jobRevision[c.job]
          OBVIOUS
        <4> QED
          BY <4>1, <4>2
      <3>5. Current(b)
        BY <3>1, <3>2, <3>3, <3>4
      <3> QED
        BY <3>1, <3>5
    <2>3. inputs' = inputs \/ (RecordInput /\ Recordable(trusted))
      BY <1>1 DEF EvaluationNext, RecordInput, ReportUnavailable, ProduceSnapshot
    <2> QED
      BY <2>1, <2>2, <2>3
  <1>2. [EvaluationNext]_evaluationVars => [\A v \in inputs' \ inputs : Current(v)]_evaluationVars
    BY <1>1
  <1> QED
    BY <1>2, PTL DEF EvaluationSpec, RecordedInputIsCurrent

(***************************************************************************)
(* The impact of an input.  The rounds of _dependency_impacts are a        *)
(* recursive function; that there is one, and that it stops adding tasks   *)
(* after as many rounds as there are tasks, are shown by a smallest        *)
(* counterexample.                                                         *)
(***************************************************************************)

(* A function of the numbers up to N by its first value and its step.      *)
Iterated(S, A, F, N) ==
    \E f \in [0 .. N -> S] : f[0] = A /\ \A n \in 1 .. N : f[n] = F[f[n - 1]]

(* There is one.                                                           *)
LEMMA IterationExists ==
    ASSUME NEW S, NEW A \in S, NEW F \in [S -> S], NEW N \in Nat
    PROVE  Iterated(S, A, F, N)
  <1> USE DEF Iterated
  <1> DEFINE Iterates(m) == Iterated(S, A, F, m)
             Bad == {m \in Nat : ~Iterates(m)}
  <1> SUFFICES ASSUME Bad # {} PROVE FALSE
    OBVIOUS
  <1>1. PICK m \in Bad : \A k \in Bad : m <= k
    <2>1. Bad \in SUBSET Nat
      OBVIOUS
    <2> HIDE DEF Bad
    <2> QED
      BY <2>1, LeastNat
  <1>2. m \in Nat /\ ~Iterates(m)
    OBVIOUS
  <1>3. m # 0
    <2>1. Iterates(0)
      <3> DEFINE f == [i \in 0 .. 0 |-> A]
      <3>1. f \in [0 .. 0 -> S] /\ f[0] = A /\ \A n \in 1 .. 0 : f[n] = F[f[n - 1]]
        OBVIOUS
      <3> QED
        BY <3>1
    <2> QED
      BY <1>2, <2>1
  <1>4. m - 1 \in Nat /\ m - 1 \notin Bad
    <2> HIDE DEF Bad
    <2>1. m - 1 \in Nat /\ ~(m <= m - 1)
      BY <1>2, <1>3
    <2> QED
      BY <1>1, <2>1
  <1>5. PICK f \in [0 .. m - 1 -> S] : f[0] = A /\ \A n \in 1 .. m - 1 : f[n] = F[f[n - 1]]
    BY <1>4
  <1> DEFINE g == [i \in 0 .. m |-> IF i = m THEN F[f[m - 1]] ELSE f[i]]
  <1>6. f[m - 1] \in S
    BY <1>4, <1>5
  <1>7. g \in [0 .. m -> S]
    BY <1>2, <1>5, <1>6
  <1>8. g[0] = A
    BY <1>2, <1>3, <1>5
  <1>9. ASSUME NEW n \in 1 .. m PROVE g[n] = F[g[n - 1]]
    <2>1. n - 1 \in 0 .. m - 1 /\ n - 1 # m /\ g[n - 1] = f[n - 1]
      BY <1>2
    <2>2. CASE n = m
      BY <1>2, <2>1, <2>2
    <2>3. CASE n # m
      BY <1>2, <1>5, <2>1, <2>3
    <2> QED
      BY <2>2, <2>3
  <1>10. Iterates(m)
    BY <1>7, <1>8, <1>9
  <1> QED
    BY <1>2, <1>10

(* One round of _dependency_impacts over pairs of a task and its origin.   *)
Spread(edges, active, R) ==
    R \cup {<<f[1][2], f[2][2]>> : f \in {g \in edges \X R : g[1][1] = g[2][1] /\ g[1][2] \in active}}

(* What _dependency_impacts returns is read off the last of its rounds, one*)
(* for every task.                                                         *)
FoundIn(edges, active, direct) ==
    \E f \in [0 .. Cardinality(active) -> SUBSET (active \X direct)] :
        /\ f[0] = {<<t, t>> : t \in direct}
        /\ \A n \in 1 .. Cardinality(active) : f[n] = Spread(edges, active, f[n - 1])
        /\ DependencyImpacts(edges, active, direct) =
             {[task |-> t, origins |-> {o \in direct : <<t, o>> \in f[Cardinality(active)]}] :
                   t \in {p[1] : p \in f[Cardinality(active)]} \ direct}

(* The rounds of _dependency_impacts are what their recursion says.        *)
LEMMA RoundsExist ==
    ASSUME NEW edges, NEW active, NEW direct \in SUBSET active, IsFiniteSet(active)
    PROVE  FoundIn(edges, active, direct)
  <1> DEFINE N == Cardinality(active)
             P == SUBSET (active \X direct)
             A == {<<t, t>> : t \in direct}
             F == [R \in P |-> Spread(edges, active, R)]
             Rounds(f) == f = [n \in 0 .. N |-> IF n = 0 THEN A ELSE Spread(edges, active, f[n - 1])]
             reached == CHOOSE f : Rounds(f)
  <1>1. N \in Nat
    BY FS_CardinalityType
  <1>2. A \in P
    OBVIOUS
  <1>3. F \in [P -> P]
    <2> SUFFICES ASSUME NEW R \in P PROVE Spread(edges, active, R) \in P
      OBVIOUS
    <2> QED
      BY DEF Spread
  <1>4. DependencyImpacts(edges, active, direct) =
           {[task |-> t, origins |-> {o \in direct : <<t, o>> \in reached[N]}] :
                 t \in {p[1] : p \in reached[N]} \ direct}
    BY DEF DependencyImpacts, Spread
  <1> HIDE DEF N, A
  <1>5. PICK f \in [0 .. N -> P] : f[0] = A /\ \A n \in 1 .. N : f[n] = F[f[n - 1]]
    <2> HIDE DEF P, F
    <2>1. Iterated(P, A, F, N)
      BY <1>1, <1>2, <1>3, IterationExists
    <2> QED
      BY <2>1, Zenon DEF Iterated
  <1>6. ASSUME NEW n \in 1 .. N PROVE n - 1 \in 0 .. N /\ f[n] = Spread(edges, active, f[n - 1])
    <2>1. n - 1 \in 0 .. N
      BY <1>1
    <2> HIDE DEF P
    <2>2. f[n - 1] \in P /\ f[n] = F[f[n - 1]]
      BY <1>5, <2>1
    <2> QED
      BY <2>1, <2>2
  <1>7. Rounds(f)
    <2> DEFINE h == [n \in 0 .. N |-> IF n = 0 THEN A ELSE Spread(edges, active, f[n - 1])]
    <2>1. \A n \in 0 .. N : f[n] = h[n]
      BY <1>1, <1>5, <1>6
    <2>2. f = h
      BY <1>5, <2>1
    <2> QED
      BY <2>2
  <1>8. Rounds(reached)
    BY <1>7, Zenon
  <1> HIDE DEF reached
  <1>9. reached = f
    <2>1. DOMAIN reached = 0 .. N /\ reached[0] = A /\ \A n \in 1 .. N : reached[n] = Spread(edges, active, reached[n - 1])
      BY <1>1, <1>8
    <2> DEFINE Bad == {n \in 0 .. N : reached[n] # f[n]}
    <2>2. Bad = {}
      <3> SUFFICES ASSUME Bad # {} PROVE FALSE
        OBVIOUS
      <3>1. Bad \in SUBSET Nat
        BY <1>1
      <3>2. PICK n \in Bad : \A k \in Bad : n <= k
        <4> HIDE DEF Bad
        <4> QED
          BY <3>1, LeastNat
      <3>3. n \in 0 .. N /\ reached[n] # f[n]
        OBVIOUS
      <3>4. n # 0
        BY <1>5, <2>1, <3>3
      <3>5. n \in 1 .. N /\ n - 1 \in 0 .. N /\ n - 1 \notin Bad
        BY <1>1, <3>2, <3>3, <3>4
      <3>6. reached[n - 1] = f[n - 1]
        BY <3>5
      <3> QED
        BY <1>6, <2>1, <3>3, <3>5, <3>6
    <2>3. reached = [n \in 0 .. N |-> reached[n]]
      BY <1>8
    <2> QED
      BY <1>5, <2>2, <2>3
  <1>10. /\ f \in [0 .. N -> P] /\ f[0] = A
         /\ \A n \in 1 .. N : f[n] = Spread(edges, active, f[n - 1])
         /\ DependencyImpacts(edges, active, direct) =
              {[task |-> t, origins |-> {o \in direct : <<t, o>> \in f[N]}] :
                    t \in {p[1] : p \in f[N]} \ direct}
    <2> HIDE DEF P
    <2> QED
      BY <1>4, <1>5, <1>6, <1>9
  <1> QED
    BY <1>10, Zenon DEF N, A, FoundIn

(* Rounds that add the followers of what is there come to their end after  *)
(* as many rounds as there are tasks: until then each adds one.            *)
LEMMA RoundsFollow ==
    ASSUME NEW edges, NEW active, IsFiniteSet(active), NEW o \in active,
           NEW Q \in [0 .. Cardinality(active) -> SUBSET active], Q[0] = {o},
           \A n \in 1 .. Cardinality(active) :
               Q[n] = Q[n - 1] \cup {t \in active : \E e \in edges : e[2] = t /\ e[1] \in Q[n - 1]}
    PROVE  Q[Cardinality(active)] = Follows(edges, active, o)
  <1> DEFINE N == Cardinality(active)
             Closed(S) == \A e \in edges : e[1] \in S /\ e[2] \in active => e[2] \in S
             Done(n) == Closed(Q[n]) \/ Cardinality(Q[n]) >= n + 1
             Lagging == {n \in 0 .. N : ~Done(n)}
             Outside(S) == {n \in 0 .. N : ~(Q[n] \subseteq S)}
  <1>1. N \in Nat
    BY FS_CardinalityType
  <1>2. \A n \in 0 .. N : Q[n] \subseteq active /\ IsFiniteSet(Q[n]) /\ Cardinality(Q[n]) \in Nat
    BY FS_Subset, FS_CardinalityType
  <1> HIDE DEF N
  <1>3. \A n \in 1 .. N : /\ n - 1 \in 0 .. N
                          /\ Q[n] = Q[n - 1] \cup {t \in active : \E e \in edges : e[2] = t /\ e[1] \in Q[n - 1]}
    BY <1>1 DEF N
  <1>4. Lagging = {}
    <2> SUFFICES ASSUME Lagging # {} PROVE FALSE
      OBVIOUS
    <2>1. Lagging \in SUBSET Nat
      BY <1>1
    <2>2. PICK n \in Lagging : \A k \in Lagging : n <= k
      <3> HIDE DEF Lagging
      <3> QED
        BY <2>1, LeastNat
    <2>3. n \in 0 .. N /\ ~Done(n) /\ n \in Nat
      BY <1>1
    <2>4. n # 0
      <3>1. Cardinality({o}) = 1
        BY FS_Singleton
      <3>2. Done(0)
        <4>1. Cardinality(Q[0]) = 1
          BY <3>1
        <4>2. 1 >= 0 + 1
          OBVIOUS
        <4> QED
          BY <4>1, <4>2
      <3> QED
        BY <2>3, <3>2
    <2>5. n \in 1 .. N /\ n - 1 \in 0 .. N
      BY <1>1, <2>3, <2>4
    <2>6. n - 1 \notin Lagging
      <3> HIDE DEF Lagging
      <3> QED
        BY <2>2, <2>3
    <2>7. Done(n - 1)
      BY <2>5, <2>6
    <2>8. Q[n] = Q[n - 1] \cup {t \in active : \E e \in edges : e[2] = t /\ e[1] \in Q[n - 1]}
      BY <1>3, <2>5
    <2>9. CASE Closed(Q[n - 1])
      <3>1. Q[n] = Q[n - 1]
        BY <2>8, <2>9
      <3> QED
        BY <2>3, <2>9, <3>1
    <2>10. CASE ~Closed(Q[n - 1])
      <3>1. Q[n - 1] \subseteq Q[n] /\ Q[n - 1] # Q[n]
        BY <2>8, <2>10
      <3>2. Cardinality(Q[n - 1]) < Cardinality(Q[n])
        <4>1. /\ Q[n - 1] \in SUBSET Q[n] /\ IsFiniteSet(Q[n])
              /\ Cardinality(Q[n - 1]) \in Nat /\ Cardinality(Q[n]) \in Nat
          BY <1>2, <2>3, <2>5, <3>1
        <4>2. Cardinality(Q[n - 1]) <= Cardinality(Q[n]) /\ Cardinality(Q[n - 1]) # Cardinality(Q[n])
          BY <3>1, <4>1, FS_Subset
        <4> QED
          BY <4>1, <4>2
      <3>3. Cardinality(Q[n - 1]) >= (n - 1) + 1
        BY <2>7, <2>10
      <3>4. Cardinality(Q[n]) >= n + 1
        BY <1>2, <2>3, <2>5, <3>2, <3>3
      <3> QED
        BY <2>3, <3>4
    <2> QED
      BY <2>9, <2>10
  <1>5. Closed(Q[N])
    <2>1. N \in 0 .. N /\ N \notin Lagging
      BY <1>1, <1>4
    <2>2. Done(N)
      BY <2>1
    <2>3. Cardinality(Q[N]) <= N
      <3>1. Q[N] \in SUBSET active
        BY <1>2, <2>1
      <3> QED
        BY <3>1, FS_Subset DEF N
    <2>4. ~(Cardinality(Q[N]) >= N + 1)
      BY <1>1, <1>2, <2>1, <2>3
    <2> QED
      BY <2>2, <2>4
  <1>6. ASSUME NEW S \in SUBSET active, o \in S, Closed(S) PROVE Outside(S) = {}
    <2> SUFFICES ASSUME Outside(S) # {} PROVE FALSE
      OBVIOUS
    <2>1. Outside(S) \in SUBSET Nat
      BY <1>1
    <2>2. PICK n \in Outside(S) : \A k \in Outside(S) : n <= k
      <3> HIDE DEF Outside
      <3> QED
        BY <2>1, LeastNat
    <2>3. n \in 0 .. N /\ ~(Q[n] \subseteq S) /\ n \in Nat
      BY <1>1
    <2>4. n # 0
      BY <1>6, <2>3
    <2>5. n \in 1 .. N /\ n - 1 \in 0 .. N
      BY <1>1, <2>3, <2>4
    <2>6. n - 1 \notin Outside(S)
      <3> HIDE DEF Outside
      <3> QED
        BY <2>2, <2>3
    <2>7. Q[n - 1] \subseteq S
      BY <2>5, <2>6
    <2>8. Q[n] \subseteq S
      BY <1>3, <1>6, <2>5, <2>7
    <2> QED
      BY <2>3, <2>8
  <1>7. o \in Q[N]
    <2> DEFINE Lost == {n \in 0 .. N : o \notin Q[n]}
    <2>1. Lost = {}
      <3> SUFFICES ASSUME Lost # {} PROVE FALSE
        OBVIOUS
      <3>1. Lost \in SUBSET Nat
        BY <1>1
      <3>2. PICK n \in Lost : \A k \in Lost : n <= k
        <4> HIDE DEF Lost
        <4> QED
          BY <3>1, LeastNat
      <3>3. n \in 0 .. N /\ o \notin Q[n] /\ n \in Nat /\ n # 0
        BY <1>1
      <3>4. n \in 1 .. N /\ n - 1 \in 0 .. N
        BY <1>1, <3>3
      <3>5. n - 1 \notin Lost
        <4> HIDE DEF Lost
        <4> QED
          BY <3>2, <3>3
      <3> QED
        BY <1>3, <3>3, <3>4, <3>5
    <2> QED
      BY <1>1, <2>1
  <1>8. N \in 0 .. N
    BY <1>1
  <1>9. Q[N] \subseteq Follows(edges, active, o)
    <2> SUFFICES ASSUME NEW t \in Q[N], NEW S \in SUBSET active, o \in S, Closed(S) PROVE t \in S
      BY <1>2, <1>8 DEF Follows
    <2>1. N \notin Outside(S)
      BY <1>6
    <2> QED
      BY <1>8, <2>1
  <1>10. Follows(edges, active, o) \subseteq Q[N]
    <2>1. Q[N] \in SUBSET active
      BY <1>2, <1>8
    <2> QED
      BY <1>5, <1>7, <2>1 DEF Follows
  <1> QED
    BY <1>9, <1>10 DEF N

(* _dependency_impacts finds what chains of dependencies through unfinished*)
(* tasks lead to, each task with all of its origins.                       *)
LEMMA ImpactsAre ==
    ASSUME NEW edges, NEW active, NEW direct \in SUBSET active, IsFiniteSet(active)
    PROVE  LET leads(t) == {o \in direct : t \in Follows(edges, active, o)}
           IN  DependencyImpacts(edges, active, direct) =
                   {[task |-> t, origins |-> leads(t)] : t \in {u \in active \ direct : leads(u) # {}}}
  <1> DEFINE N == Cardinality(active)
             leads(t) == {o \in direct : t \in Follows(edges, active, o)}
  <1>1. N \in Nat
    BY FS_CardinalityType
  <1>2. PICK f \in [0 .. N -> SUBSET (active \X direct)] :
                 /\ f[0] = {<<t, t>> : t \in direct}
                 /\ \A n \in 1 .. N : f[n] = Spread(edges, active, f[n - 1])
                 /\ DependencyImpacts(edges, active, direct) =
                      {[task |-> t, origins |-> {o \in direct : <<t, o>> \in f[N]}] :
                            t \in {p[1] : p \in f[N]} \ direct}
    <2>1. FoundIn(edges, active, direct)
      BY RoundsExist
    <2> QED
      BY <2>1, Zenon DEF FoundIn
  <1>3. ASSUME NEW o \in direct PROVE \A t \in active : <<t, o>> \in f[N] <=> t \in Follows(edges, active, o)
    <2> DEFINE Q == [n \in 0 .. N |-> {t \in active : <<t, o>> \in f[n]}]
    <2>1. Q \in [0 .. N -> SUBSET active]
      OBVIOUS
    <2>2. Q[0] = {o}
      BY <1>1, <1>2
    <2>3. ASSUME NEW n \in 1 .. N
          PROVE  Q[n] = Q[n - 1] \cup {t \in active : \E e \in edges : e[2] = t /\ e[1] \in Q[n - 1]}
      <3>1. n - 1 \in 0 .. N /\ n \in 0 .. N
        BY <1>1
      <3> DEFINE R == f[n - 1]
      <3>2. R \in SUBSET (active \X direct) /\ f[n] = Spread(edges, active, R)
        BY <1>2, <3>1
      <3> HIDE DEF R
      <3>3. ASSUME NEW t \in active
            PROVE  <<t, o>> \in Spread(edges, active, R) <=>
                       <<t, o>> \in R \/ \E e \in edges : e[2] = t /\ <<e[1], o>> \in R
        <4>1. ASSUME <<t, o>> \in Spread(edges, active, R), <<t, o>> \notin R
              PROVE  \E e \in edges : e[2] = t /\ <<e[1], o>> \in R
          <5>1. PICK g \in edges \X R : g[1][1] = g[2][1] /\ g[1][2] \in active /\ <<t, o>> = <<g[1][2], g[2][2]>>
            BY <4>1 DEF Spread
          <5>2. g[2] \in R /\ g[2] = <<g[2][1], g[2][2]>>
            BY <3>2, <5>1
          <5>3. t = g[1][2] /\ o = g[2][2]
            BY <5>1
          <5> QED
            BY <5>1, <5>2, <5>3
        <4>2. ASSUME NEW e \in edges, e[2] = t, <<e[1], o>> \in R
              PROVE  <<t, o>> \in Spread(edges, active, R)
          <5> DEFINE g == <<e, <<e[1], o>>>>
          <5>1. g \in edges \X R /\ g[1][1] = g[2][1] /\ g[1][2] \in active /\ g[1][2] = t /\ g[2][2] = o
            BY <4>2
          <5> HIDE DEF g
          <5> QED
            BY <5>1 DEF Spread
        <4>3. <<t, o>> \in R => <<t, o>> \in Spread(edges, active, R)
          BY DEF Spread
        <4> QED
          BY <4>1, <4>2, <4>3
      <3>4. \A x : <<x, o>> \in R => x \in active
        BY <3>2
      <3>5. Q[n] = {t \in active : <<t, o>> \in Spread(edges, active, R)} /\ Q[n - 1] = {t \in active : <<t, o>> \in R}
        BY <3>1, <3>2 DEF R
      <3> HIDE DEF Q
      <3> QED
        BY <3>3, <3>4, <3>5
    <2> HIDE DEF Q
    <2>4. Q[N] = Follows(edges, active, o)
      BY <2>1, <2>2, <2>3, RoundsFollow
    <2>5. Q[N] = {t \in active : <<t, o>> \in f[N]}
      BY <1>1 DEF Q
    <2> QED
      BY <2>4, <2>5
  <1>4. f[N] \subseteq active \X direct
    BY <1>1, <1>2
  <1>5. \A t \in active : {o \in direct : <<t, o>> \in f[N]} = leads(t)
    BY <1>3
  <1>6. {p[1] : p \in f[N]} \ direct = {u \in active \ direct : leads(u) # {}}
    <2>1. ASSUME NEW p \in f[N] PROVE p[1] \in active /\ leads(p[1]) # {}
      <3>1. p[1] \in active /\ p[2] \in direct /\ p = <<p[1], p[2]>>
        BY <1>4
      <3> QED
        BY <1>3, <3>1
    <2>2. ASSUME NEW u \in active, leads(u) # {} PROVE \E p \in f[N] : p[1] = u
      <3>1. PICK o \in direct : u \in Follows(edges, active, o)
        BY <2>2
      <3>2. <<u, o>> \in f[N]
        BY <1>3, <3>1
      <3> QED
        BY <3>2
    <2> HIDE DEF leads
    <2> QED
      BY <2>1, <2>2
  <1>7. DependencyImpacts(edges, active, direct) =
            {[task |-> t, origins |-> {o \in direct : <<t, o>> \in f[N]}] :
                  t \in {u \in active \ direct : leads(u) # {}}}
    BY <1>2, <1>6
  <1> DEFINE T == {u \in active \ direct : leads(u) # {}}
  <1>8. \A t \in T : {o \in direct : <<t, o>> \in f[N]} = leads(t)
    BY <1>5
  <1>9. T = {u \in active \ direct : leads(u) # {}}
    OBVIOUS
  <1>10. DependencyImpacts(edges, active, direct) = {[task |-> t, origins |-> leads(t)] : t \in T}
    <2> HIDE DEF T, leads
    <2> QED
      BY <1>7, <1>8, <1>9
  <1> QED
    BY <1>10, Zenon

(* What ImpactIsReachability says of one stored input, by its parts.       *)
Impact(d, open, edges, hit, impacts) ==
    LET day    == PlanDay[d]
        active == {c.task : c \in open}
        direct == {c \in open : c.date = day.date /\ day.worker \in c.planned}
        origin == {c.task : c \in direct}
        leads(t) == {o \in origin : t \in Follows(edges, active, o)}
    IN  /\ hit = direct
        /\ impacts = {[task |-> t, origins |-> leads(t)] :
                        t \in {u \in active \ origin : leads(u) # {}}}

Reaches(v) == Impact(v.request.day, v.active, v.edges, v.direct, v.impacts)

(* _build_input on a revision whose bindings hold: a commitment that the   *)
(* request's own assignments lead to is of the day's date, so the scope    *)
(* brings in nothing of another date.                                      *)
LEMMA BuiltReaches ==
    ASSUME NEW q, NEW r, RequestOK(q), BindingsOK(r.content, hydrated)
    PROVE  Reaches(BuildInput(q, r))
  <1> DEFINE x == r.content
             day == PlanDay[q.day]
             open == {c \in x.commitments : status[c.task] # "DONE"}
             hit == {c \in open : c.date = day.date /\ day.worker \in c.planned}
             active == {c.task : c \in open}
             origin == {c.task : c \in hit}
             v == BuildInput(q, r)
  <1>1. ASSUME NEW c \in x.commitments, c.sources \cap q.assignments # {}
        PROVE  c.date = day.date
    <2>1. PICK a \in c.sources \cap q.assignments : TRUE
      BY <1>1
    <2>2. q.day \in Assignment[a].days
      BY <2>1 DEF RequestOK
    <2>3. PICK e \in x.days : e.id = q.day /\ e.date = c.date
      BY <2>1, <2>2 DEF BindingsOK
    <2>4. e.date = PlanDay[e.id].date
      BY <2>3 DEF BindingsOK
    <2> QED
      BY <2>3, <2>4
  <1>2. Affected(Scope(x, q), q) = hit
    BY <1>1 DEF Affected, Scope
  <1>3. /\ v.request = q /\ v.active = open /\ v.direct = hit /\ v.edges = x.edges
        /\ v.impacts = DependencyImpacts(x.edges, active, origin)
    BY <1>2 DEF BuildInput
  <1>4. IsFiniteSet(active) /\ origin \in SUBSET active
    <2>1. active \subseteq DOMAIN TaskRoot
      BY DEF BindingsOK, Tasks
    <2> QED
      BY <2>1, TasksAssumption, FS_Subset
  <1> DEFINE leads(t) == {o \in origin : t \in Follows(x.edges, active, o)}
  <1>5. DependencyImpacts(x.edges, active, origin) =
          {[task |-> t, origins |-> leads(t)] : t \in {u \in active \ origin : leads(u) # {}}}
    <2> HIDE DEF active, origin
    <2> QED
      BY <1>4, ImpactsAre
  <1>6. Impact(q.day, open, x.edges, hit, DependencyImpacts(x.edges, active, origin))
    BY <1>5 DEF Impact
  <1> HIDE DEF x, open, hit, active, origin, v
  <1>7. Reaches(v)
    BY <1>3, <1>6 DEF Reaches
  <1> QED
    BY <1>7 DEF v

(* Every input that record_evaluation_input stores names as directly       *)
(* affected the unfinished commitments of the reported day that need the   *)
(* worker and no other, and as affected by dependency exactly what chains  *)
(* of unfinished tasks lead to, with all their origins: the propagation    *)
(* loop of _dependency_impacts ends with every such task in any plan.      *)
THEOREM ImpactAlwaysReachability == EvaluationSpec => []ImpactIsReachability
  <1> DEFINE Asked == trusted # NONE => RequestOK(trusted.request)
             Reached == \A v \in inputs : Reaches(v)
  <1>1. EvaluationInit => Asked /\ Reached
    BY DEF EvaluationInit
  <1>2. ASSUME Asked, Reached, [EvaluationNext]_evaluationVars PROVE Asked' /\ Reached'
    <2>1. CASE RecordInput
      <3>1. Asked'
        BY <2>1 DEF RecordInput
      <3>2. ASSUME Recordable(trusted) PROVE Reaches(BuildInput(trusted.request, trusted.revision))
        <4>1. RequestOK(trusted.request)
          BY <1>2, <2>1 DEF RecordInput
        <4>2. BindingsOK(trusted.revision.content, hydrated)
          BY <3>2 DEF Recordable, StillCurrent, Readable, Last
        <4> QED
          BY <4>1, <4>2, BuiltReaches
      <3>3. /\ Recordable(trusted) /\ inputs' = inputs \cup {BuildInput(trusted.request, trusted.revision)}
            \/ inputs' = inputs
        BY <2>1 DEF RecordInput
      <3>4. \A v \in inputs' : Reaches(v)
        BY <1>2, <3>2, <3>3
      <3> QED
        BY <3>1, <3>4 DEF Reaches, Impact, Follows
    <2>2. CASE inputs' = inputs /\ trusted' = trusted
      BY <1>2, <2>2 DEF Reaches, Impact, Follows, RequestOK, JobOf
    <2>3. CASE \E q \in requests : ProduceSnapshot(q)
      <3>1. PICK q \in requests : ProduceSnapshot(q)
        BY <2>3
      <3>2. RequestOK(q) /\ trusted'.request = q /\ inputs' = inputs
        BY <3>1 DEF ProduceSnapshot
      <3> QED
        BY <1>2, <3>2 DEF Reaches, Impact, Follows, RequestOK, JobOf
    <2> QED
      BY <1>2, <2>1, <2>2, <2>3 DEF EvaluationNext, evaluationVars, ReportUnavailable
  <1>3. Reached => ImpactIsReachability
    BY DEF Reaches, Impact, ImpactIsReachability
  <1> QED
    BY <1>1, <1>2, <1>3, PTL DEF EvaluationSpec

=============================================================================
