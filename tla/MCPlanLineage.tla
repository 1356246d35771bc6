--------------------------- MODULE MCPlanLineage ---------------------------
(* Instances of PlanLineage for TLC.                                        *)
EXTENDS PlanLineage, TLC

Interchangeable ==
    Permutations(Plans) \cup Permutations(Users) \cup Permutations(Handlers)
=============================================================================
