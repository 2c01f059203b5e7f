-------------------------- MODULE MCPolicyEvidence --------------------------
(***************************************************************************)
(* Two company plans under one capture key.  The first starts with its     *)
(* root, its owner, a worker and its capture root, a state deployment      *)
(* reaches by itself; the second is provisioned meanwhile, before or after *)
(* the registry gains a worker.                                            *)
(***************************************************************************)
EXTENDS PolicyEvidence, TLC

CONSTANTS w1, w2, cA, cB, k1

MCScopes == {[kind |-> "PRIVATE_VEHICLE_USE", subject |-> "PRIVATE_VEHICLE", worker |-> w1],
             [kind |-> "OWNER_APPROVAL_REQUIRED", subject |-> "DECISION", worker |-> None]}

DeployedInit ==
    /\ registry = [revision |-> 0, workers |-> FirstWorkers]
    /\ roots = [c \in Companies |-> IF c = cA THEN NewRoot("boss") ELSE None]
    /\ principals = {OwnerPrincipal(cA, "boss"), WorkerPrincipal(cA, "ann", w1)}
    /\ capture = [c \in Companies |-> IF c = cA THEN k1 ELSE None]
    /\ profiles = {} /\ issuances = {}
    /\ consumptions = {} /\ evidence = {}
    /\ said = <<>> /\ answers = {}

DeployedSpec == DeployedInit /\ [][PolicyNext]_vars

ReferenceSymmetry == Permutations(References)
=============================================================================
