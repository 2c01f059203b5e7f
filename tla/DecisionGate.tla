---------------------------- MODULE DecisionGate ----------------------------
(***************************************************************************)
(* What an owner gate promises, whoever keeps it: a gate is opened once,   *)
(* one answer at a time claims it, the decision that is recorded is the    *)
(* claimed answer, and a decision is never replaced or taken back.  A gate *)
(* may be voided until it is decided.                                      *)
(*                                                                         *)
(* claimed and decided are sets of pairs <<gate, answer>>.                 *)
(***************************************************************************)

VARIABLES open, claimed, decided, void

gvars == <<open, claimed, decided, void>>

Known == open \cup void \cup { c[1] : c \in claimed \cup decided }

GateInit == open = {} /\ claimed = {} /\ decided = {} /\ void = {}

Open ==
    \E g \in open' :
        /\ g \notin Known
        /\ open' = open \cup {g}
        /\ UNCHANGED <<claimed, decided, void>>

Claim ==
    \E c \in claimed' :
        /\ c[1] \in open
        /\ open' = open \ {c[1]}
        /\ claimed' = claimed \cup {c}
        /\ UNCHANGED <<decided, void>>

Decide ==
    \E c \in claimed :
        /\ claimed' = claimed \ {c}
        /\ decided' = decided \cup {c}
        /\ UNCHANGED <<open, void>>

Void ==
    \E g \in open \cup { c[1] : c \in claimed } :
        /\ open' = open \ {g}
        /\ claimed' = { c \in claimed : c[1] # g }
        /\ void' = void \cup {g}
        /\ UNCHANGED decided

GateSpec == GateInit /\ [][Open \/ Claim \/ Decide \/ Void]_gvars
=============================================================================
