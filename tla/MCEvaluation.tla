---------------------------- MODULE MCEvaluation ----------------------------
(***************************************************************************)
(* Two company plans over three tasks of two jobs, two workers, two dates. *)
(***************************************************************************)
EXTENDS EvaluationInput

MCPlanDay ==
    [ann_mon |-> [worker |-> "ann", date |-> "mon"],
     bob_mon |-> [worker |-> "bob", date |-> "mon"],
     ann_tue |-> [worker |-> "ann", date |-> "tue"]]

MCTaskRoot ==
    [t1 |-> [job |-> "j1", version |-> 1, handoff |-> "h1"],
     t2 |-> [job |-> "j1", version |-> 1, handoff |-> "h1"],
     t3 |-> [job |-> "j2", version |-> 1, handoff |-> "h2"]]

MCAssignment ==
    [a1 |-> [task |-> "t1", days |-> {"ann_mon"}, members |-> {"ann"}],
     a3 |-> [task |-> "t3", days |-> {"bob_mon"}, members |-> {"bob"}]]

MCPublished == {"h1", "h2"}

Day(d) == [id |-> d, worker |-> MCPlanDay[d].worker, date |-> MCPlanDay[d].date]

Commit(id, t, date, planned, sources) ==
    [id |-> id, task |-> t, job |-> MCTaskRoot[t].job, version |-> 1,
     handoff |-> MCTaskRoot[t].handoff, date |-> date,
     planned |-> planned, sources |-> sources]

Content(days, commitments, edges) ==
    [days |-> {Day(d) : d \in days}, commitments |-> commitments, edges |-> edges]

T1 == Commit("k1", "t1", "mon", {"ann"}, {"a1"})
T2 == Commit("k2", "t2", "mon", {"bob"}, {})
T3 == Commit("k3", "t3", "mon", {"bob"}, {"a3"})

Monday == {"ann_mon", "bob_mon"}

Plans == Permutations(Companies)

(* A baseline chain t1, t2, t3; t1 given to bob; t1 and the day of ann     *)
(* dropped; t1 back under another commitment; t1 on Tuesday with Monday's  *)
(* assignment; ann on t1 and t2, both before t3; a cyclic plan; a plan of  *)
(* another company for t3 alone.                                           *)
MCContents ==
    { Content(Monday, {T1, T2, T3}, {<<"t1", "t2">>, <<"t2", "t3">>}),
      Content(Monday, {[T1 EXCEPT !.planned = {"bob"}], T2, T3}, {<<"t1", "t2">>}),
      Content({"bob_mon"}, {T2, T3}, {<<"t2", "t3">>}),
      Content(Monday, {[T1 EXCEPT !.id = "k9"], T2}, {}),
      Content(Monday \cup {"ann_tue"}, {[T1 EXCEPT !.date = "tue"], T2}, {<<"t1", "t2">>}),
      Content(Monday, {T1, [T2 EXCEPT !.planned = {"ann", "bob"}], T3},
              {<<"t1", "t3">>, <<"t2", "t3">>, <<"t1", "t2">>}),
      Content(Monday, {T1, T2}, {<<"t1", "t2">>, <<"t2", "t1">>}),
      Content({"bob_mon"}, {T3}, {}) }
=============================================================================
