-------------------------- MODULE MCPlanLifecycle --------------------------
(* Instances of PlanLifecycle for TLC.                                      *)
EXTENDS PlanLifecycle, TLC

(* Handlers and plan ids are interchangeable, and so are users: no action   *)
(* and no invariant compares them but for equality.                         *)
Interchangeable ==
    Permutations(Plans) \cup Permutations(Users) \cup Permutations(Handlers)
=============================================================================
