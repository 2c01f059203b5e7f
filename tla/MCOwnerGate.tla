----------------------------- MODULE MCOwnerGate -----------------------------
(***************************************************************************)
(* Two reports that are ready for planning and lead to different prices,   *)
(* and one with gaps.  The request without gaps needs no visit; a visit    *)
(* may find no assessor.  Plan q of the second report has no full price.   *)
(***************************************************************************)
EXTENDS OwnerGate

CONSTANTS r1, r2, gaps, plan1, plan2

MCReports == {r1, r2, gaps}
MCComplete == {r1, r2}
MCJobs == {[gaps |-> TRUE, assessor |-> TRUE], [gaps |-> TRUE, assessor |-> FALSE],
           [gaps |-> FALSE, assessor |-> TRUE]}

MCPlansOf(r) == IF r = r1 THEN {plan1, plan2} ELSE IF r = gaps THEN {} ELSE {plan1}
MCStatusOf(r, x) == IF r = None THEN "INCOMPLETE" ELSE "COMPLETE"
=============================================================================
