---------------------------- MODULE MCReplanGate ----------------------------
(***************************************************************************)
(* Worlds for ReplanGate.  Hours of one day; the demo day has a task B     *)
(* before a task C, with travel between the sites.                         *)
(***************************************************************************)
EXTENDS ReplanGate

Ready == [status |-> "READY", at |-> 0, blocking |-> TRUE, rev |-> 0]

Task(j, s, e, deadline) ==
    [job |-> j, worker |-> "x", skills |-> {"tiling"}, vehicle |-> "van",
     deadline |-> deadline, status |-> "CONFIRMED", start |-> s, end |-> e]

Leg(i, j, t) == [from |-> i, to |-> j, time |-> t]

World(tasks, materials, routes, now) ==
    [assign |-> tasks, materials |-> materials, routes |-> routes,
     confirmed |-> {"B", "C", "D"},
     worker |-> [id |-> "x", skills |-> {"tiling"}, windows |-> {<<0, 9>>}],
     vehicles |-> [van |-> {<<0, 9>>}], day |-> <<0, 9>>, date |-> 0 .. 9, now |-> now]

DemoTasks == <<Task("B", 0, 2, 7), Task("C", 3, 5, 8)>>

(* seed_m7_demo; with its reverse route left out as a test does; with a    *)
(* task in progress; with a third task on one of the sites whose material  *)
(* comes when it is due, planned an hour into the day.                     *)
MCWorlds ==
    { World(DemoTasks, <<Ready, Ready>>, {Leg("B", "C", 1), Leg("C", "B", 1)}, 0),
      World(DemoTasks, <<Ready, Ready>>, {Leg("B", "C", 1)}, 0),
      World([DemoTasks EXCEPT ![2].status = "IN_PROGRESS"], <<Ready, Ready>>,
            {Leg("B", "C", 1), Leg("C", "B", 1)}, 0),
      World(DemoTasks \o <<Task("C", 5, 6, None)>>,
            <<Ready, Ready, [Ready EXCEPT !.status = "EXPECTED", !.at = 5]>>,
            {Leg("B", "C", 1), Leg("C", "B", 0)}, 1) }

MCRequests == {[initiating |-> "B", jobs |-> {"B", "C"}]}
=============================================================================
