----------------------------- MODULE MCAuthority -----------------------------
(***************************************************************************)
(* Workers a and b.  Candidate c1 gives a's commitment K1 to b on the same *)
(* day with a private vehicle and knocks on K2; c2 moves K1 to the next    *)
(* day, up to midnight; c3 breaks a customer window.  b's K3 runs past     *)
(* midnight.  With c1 b works up to the threshold exactly; booked work may *)
(* lie inside the new work (and not count twice) or beside it.             *)
(***************************************************************************)
EXTENDS AuthorityDecision

CONSTANTS a, b

MCWorkers == {a, b}

Placed(k, job, day, vehicle, start, end) ==
    [commitment |-> k, job |-> job, task |-> k, day |-> day, vehicle |-> vehicle,
     start |-> start, end |-> end]
Baseline(p, workers) == Joined(p, [workers |-> workers])
Proposal(p, worker) == Joined(p, [worker |-> worker])

MCSchedule ==
    {Baseline(Placed("K1", "J1", 0, "van", 1, 4), {a}),
     Baseline(Placed("K2", "J2", 0, NONE, 0, 2), {b}),
     Baseline(Placed("K3", "J2", 0, NONE, 7, 10), {b})}

Candidate(id, proposed, induced, trace, verdict) ==
    [id |-> id, modified |-> {"K1"}, proposed |-> {proposed}, induced |-> induced,
     residual |-> {}, trace |-> trace, verdict |-> verdict]

Passed == [status |-> "PASS", reason |-> "NONE"]
Violated == [status |-> "FAIL", reason |-> "CUSTOMER_WINDOW_VIOLATION"]

MCCandidateSeq ==
    <<Candidate("c1", Proposal(Placed("K1", "J1", 0, "own", 2, 5), b), {"K2"},
                {Passed}, "FEASIBLE"),
      Candidate("c2", Proposal(Placed("K1", "J1", 1, NONE, 13, 16), a), {},
                {Passed}, "FEASIBLE"),
      Candidate("c3", Proposal(Placed("K1", "J1", 0, NONE, 0, 3), b), {},
                {Passed, Violated}, "REJECTED")>>

Booked(start, end) ==
    [worker |-> b, kind |-> "COMPLETED_COUNTABLE", commitment |-> NONE,
     start |-> start, end |-> end]

MCLedgerItems == {Booked(3, 4), Booked(5, 6)}

World(ledger, delta, consent, marks, policy) ==
    [plan |-> 0, handoff |-> 0, tasks |-> 0, assignments |-> 0, days |-> [d \in {0, 1} |-> 0],
     sources |-> 0, registry |-> 0, principals |-> {b}, policy |-> policy,
     delta |-> [c1 |-> delta, c2 |-> 0], threshold |-> 6, ledger |-> ledger,
     consent |-> consent, markers |-> marks, approvals |-> {},
     hard |-> [n \in 1..3 |-> "NOT_APPLICABLE"], exhausted |-> FALSE,
     search |-> "FEASIBLE_REPAIRS_FOUND"]

InducedMark == {MarkerSubject("COMMITMENT", "K2", BaselineOf("K2"))}

(* The owner has approved all that is asked in this world, or nothing.     *)
WithApprovals(w) ==
    LET m3 == [input |-> InputOf(w), support |-> SupportOf(w)]
        c == [cost |-> CostSupportOf(w, m3), policy |-> w.policy,
              markers |-> MarkerCut(w, {})]
    IN  [w EXCEPT !.approvals = { r.scope : r \in OwnerRequirements(c) }]

MCWorlds ==
    LET bare == { World(l, d, c, k, "ISSUED_SUPPORTED") :
                    l \in {{}, {Booked(3, 4)}}, d \in {50, 51},
                    c \in {<<"FREELY_GIVEN">>, <<"FREELY_GIVEN", "WITHDRAWN">>},
                    k \in {{}, InducedMark} }
    IN  { WithApprovals(w) : w \in bare }
        \cup { World({}, 50, <<"FREELY_GIVEN">>, InducedMark, "ISSUED_SUPPORTED"),
               World({}, NONE, <<>>, {}, "ISSUED_SUPPORTED"),
               World({}, 51, <<"FREELY_GIVEN">>, {}, "NOT_ISSUED") }
=============================================================================
