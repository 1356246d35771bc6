---------------------------- MODULE PlanLineage ----------------------------
(***************************************************************************)
(* PlanLifecycle with a history variable: which proposal the edit loop was  *)
(* replacing when it stored a new one.                                      *)
(***************************************************************************)
EXTENDS PlanLifecycle

VARIABLE origin  \* [Plans -> the plan being edited when this one was stored]

LineageInit == Init /\ origin = [p \in Plans |-> NoPlan]

Stored == {p \in Plans : plan[p] # "absent"}

LineageNext ==
    \/ /\ Next
       /\ Stored' = Stored
       /\ UNCHANGED origin
    \/ \E h \in Handlers :
           /\ SavePlanVersion(h)
           /\ origin' = [origin EXCEPT ![run[h].target] = run[h].old]

LineageSpec == LineageInit /\ [][LineageNext]_<<vars, origin>>

(* The edit loop retires the proposal it replaces, so the project list does *)
(* not fill with near-duplicates: once the handlers have ended, at most one *)
(* of the proposals made from the same plan is still on offer.              *)
OneHeir ==
    (\A h \in Handlers : run[h] = Idle) =>
        \A p, q \in Plans :
            p # q /\ origin[p] # NoPlan /\ origin[p] = origin[q]
                => ~(plan[p] = "proposed" /\ plan[q] = "proposed")
=============================================================================
