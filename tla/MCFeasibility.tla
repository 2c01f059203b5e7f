--------------------------- MODULE MCFeasibility ---------------------------
(***************************************************************************)
(* Worker 1 reports unavailable.  Up to four commitments in a horizon of   *)
(* eight seconds, up to four workers, two vehicles and two places.  Time   *)
(* counts in half seconds; every instant is on a second but in Fractions.  *)
(***************************************************************************)
EXTENDS BoundedFeasibility

\* Seconds, in the units of time.
Sec(n) == n * Second

Shift(to, windows) ==
    [known |-> TRUE, from |-> 0, to |-> Sec(to), windows |-> {<<Sec(x[1]), Sec(x[2])>> : x \in windows}]

Open  == Shift(8, {<<0, 8>>})
Split == Shift(8, {<<0, 3>>, <<4, 8>>})
Short == Shift(5, {<<1, 5>>})
Blank == [known |-> FALSE, from |-> 0, to |-> 0, windows |-> {}]

Absent     == [state |-> "ABSENT", from |-> 0, to |-> 0]
Unstated   == [state |-> "UNKNOWN", from |-> 0, to |-> 0]
Known(a, b) == [state |-> "KNOWN", from |-> Sec(a), to |-> Sec(b)]

Planned(w, start, dur) ==
    [workers |-> {w}, vehicle |-> None, start |-> Sec(start), dur |-> Sec(dur), kinds |-> {"SINGLE"}]

TaskOf(p, loc) ==
    [dur |-> Truncated(p.dur), loc |-> loc, level |-> 1, class |-> None, ready |-> "READY",
     window |-> Absent, deadline |-> Absent]

Staff(avail) == [level |-> 1, avail |-> avail]

Vans ==
    (1 :> [classes |-> {"van"}, owner |-> None, private |-> FALSE, avail |-> Open]) @@
    (2 :> [classes |-> {"van"}, owner |-> 2, private |-> TRUE, avail |-> Short])

\* A world of the commitments in plan, at the places loc, with edges.
World(plan, loc, edges, worker, route) ==
    [input |-> 1, base |-> 1, plan |-> plan, unavailable |-> 1,
     support |-> [input |-> 1, base |-> 1, workers |-> [c \in DOMAIN plan |-> plan[c].workers]],
     task |-> [c \in DOMAIN plan |-> TaskOf(plan[c], loc[c])],
     edges |-> edges,
     direct |-> {c \in DOMAIN plan : 1 \in plan[c].workers},
     impacted |-> {e[2] : e \in {f \in edges : f[2] \in DOMAIN plan /\ f[1] \in DOMAIN plan
                                               /\ 1 \in plan[f[1]].workers
                                               /\ 1 \notin plan[f[2]].workers}},
     worker |-> worker, vehicle |-> Vans,
     route |-> LET places == {loc[c] : c \in DOMAIN plan} IN
               [r \in {x \in places \X places : x[1] # x[2]} |->
                   IF route = None THEN None ELSE Sec(route)]]

\* Starts, places, dependencies and shifts against each other; 4 is done.
Schedules ==
    {World(<<Planned(1, s1, 2), Planned(2, s2, 2), Planned(2, s2 + gap, 1)>>, loc, edges,
           <<Staff(Open), Staff(shift)>>, route) :
        s1 \in {0, 3}, s2 \in {0, 2, 3}, gap \in {2, 4},
        loc \in {<<"a", "a", "a">>, <<"a", "b", "a">>, <<"a", "b", "b">>},
        edges \in {{}, {<<1, 2>>}, {<<2, 1>>}, {<<3, 1>>, <<1, 4>>}, {<<1, 2>>, <<2, 3>>}},
        shift \in {Open, Split, Short}, route \in {1, 3, None}}

\* A van is needed by 1 and used by 3 elsewhere or on the same site.
Fleet ==
    {[World(<<Planned(1, 1, 2), [Planned(2, s2, 2) EXCEPT !.vehicle = van],
              [Planned(3, s3, 2) EXCEPT !.vehicle = 1]>>, loc, edges,
            <<Staff(Open), Staff(shift), Staff(Open)>>, 1)
        EXCEPT !.task[1].class = "van", !.task[2].class = IF van = 2 THEN "van" ELSE None] :
        s2 \in {0, 3}, s3 \in {0, 2}, van \in {None, 2},
        loc \in {<<"a", "a", "a">>, <<"a", "b", "a">>, <<"a", "b", "b">>},
        edges \in {{}, {<<2, 1>>}}, shift \in {Open, Short}}

\* Evidence that is missing, short or against the move.
Evidence ==
    {[World(<<Planned(1, 2, 2), Planned(2, 2, 2)>>, <<"a", "a">>, edges,
            <<Staff(Open), [Staff(shift) EXCEPT !.level = level]>>, 1)
        EXCEPT !.task[1].ready = ready, !.task[1].window = window, !.task[1].deadline = deadline] :
        edges \in {{}, {<<2, 1>>}}, level \in {0, 1, None}, ready \in {"READY", "NOT_READY", "UNKNOWN"},
        window \in {Absent, Unstated, Known(0, 8), Known(1, 4)}, deadline \in {Absent, Known(0, 4), Unstated},
        shift \in {Open, Blank}}

\* Whom a commitment is planned for, and what M2 knows of it.
Kinds ==
    {World(<<[Planned(1, 0, 2) EXCEPT !.kinds = k1, !.workers = w1],
             [Planned(2, 0, 2) EXCEPT !.kinds = k2, !.workers = w2]>>, <<"a", "a">>, edges,
           <<Staff(Open), Staff(Open)>>, 1) :
        k1 \in {{"SINGLE"}, {"CREW"}, {}, {"SINGLE", "MISSING"}, {"SINGLE", "CREW"}},
        k2 \in {{"SINGLE"}, {"CREW"}, {}}, w1 \in {{1}, {1, 2}}, w2 \in {{2}, {1}, {2, 5}, {5}, {}},
        edges \in {{}, {<<1, 2>>}}}

\* A chain that needs one change after another.
Chains ==
    {World(<<Planned(1, s, 2), Planned(2, t, 2), Planned(3, t, 1), Planned(w, t + 1, 1)>>,
           <<"a", "a", "a", "b">>, edges, <<Staff(Open), Staff(Open), Staff(Open)>>, route) :
        s \in {0, 2}, t \in {0, 1, 2, 4}, w \in {3, 2},
        edges \in {{<<1, 2>>, <<2, 3>>, <<3, 4>>}, {<<2, 1>>, <<3, 2>>, <<4, 3>>}, {<<1, 3>>, <<2, 3>>}},
        route \in {1, None}}

\* Direct commitments of a later day: the pairs have no draft to offer.
FarAway ==
    {World(<<Planned(1, 9, 2), Planned(1, s, 2), Planned(w, 9, 1)>>, <<"a", "a", "a">>, {},
           [n \in 1..4 |-> Staff(IF n = 4 THEN shift ELSE Blank)], 1) :
        s \in {7, 9, 12}, w \in {1, 4}, shift \in {Open, Blank, Split}}

\* One worker, many anchors, and a level nobody has: the anchors are cut.
Anchors ==
    {[World(<<Planned(1, s, 2), Planned(2, 3, 1)>>, <<"a", "a">>, {},
            <<Staff(Open), [Staff(shift) EXCEPT !.level = level]>>, 1)
        EXCEPT !.task[1].window = window] :
        s \in {2, 6, 7}, level \in {0, 1}, shift \in {Open, Split},
        window \in {Absent, Known(0, 7), Known(1, 4)}}

\* The support of another input, of another revision, of another crew.
Mismatched ==
    LET w == World(<<Planned(1, 0, 2)>>, <<"a">>, {}, <<Staff(Open), Staff(Open)>>, 1) IN
    {[w EXCEPT !.support.input = 2], [w EXCEPT !.support.base = 2],
     [w EXCEPT !.support.workers[1] = {2}], [w EXCEPT !.task[1].dur = Sec(3)],
     [w EXCEPT !.direct = {}]}

\* Fractions of a second, in the plan and in the evidence: 1 has to go to
\* worker 2 with the only van, before or behind 2.
Fractions ==
    {LET late == [Planned(1, 2, 2) EXCEPT !.start = @ + f.start, !.dur = @ + f.length]
         next == [Planned(2, 5, 1) EXCEPT !.start = @ + f.next, !.dur = @ + f.end]
         half == [Open EXCEPT !.windows = {<<f.shift, Sec(8)>>}]
         van  == [Open EXCEPT !.to = @ + f.van, !.windows = {<<f.van, Sec(8) + f.van>>}]
     IN  [World(<<late, next>>, <<"a", "b">>, edges, <<Staff(Open), Staff(half)>>, route)
             EXCEPT !.vehicle[1].avail = van, !.vehicle[2].classes = {}, !.task[1].class = "van",
                    !.task[1].window = [Known(1, 6) EXCEPT !.to = @ + f.window],
                    !.task[1].deadline = [Known(0, 7) EXCEPT !.to = @ + f.deadline]] :
        f \in {x \in [{"start", "length", "next", "end", "shift", "window", "van", "deadline"} -> 0..1] :
                 Cardinality({n \in DOMAIN x : x[n] = 1}) <= 2},
        edges \in {{}, {<<1, 2>>}, {<<2, 1>>}}, route \in {0, 1}}

MCWorlds ==
    Schedules \cup Fleet \cup Evidence \cup {w \in Kinds : w.direct # {}}
    \cup Chains \cup FarAway \cup Anchors \cup Fractions \cup Mismatched
=============================================================================
