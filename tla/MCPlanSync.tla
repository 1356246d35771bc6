----------------------------- MODULE MCPlanSync -----------------------------
(* Instances of PlanSync for TLC: one task of a pair and one of one person. *)
EXTENDS PlanSync, TLC

CONSTANTS t1, t2, a, b, d1, d2, h1, h2

TwoTasks  == {t1, t2}
PairTeam  == (t1 :> {a, b}) @@ (t2 :> {a})
FirstDay  == [t \in TwoTasks |-> d1]

Interchangeable == Permutations(Handlers)
=============================================================================
