---------------------------- MODULE PlanDecision ----------------------------
(***************************************************************************)
(* What the planner promises about a proposal, whoever handles it: a stored *)
(* proposal is decided at most once, committed or superseded, and the       *)
(* project row follows the decision and never contradicts it.               *)
(***************************************************************************)
CONSTANT Plans

VARIABLES project, plan

Init ==
    /\ project = [p \in Plans |-> "absent"]
    /\ plan = [p \in Plans |-> "absent"]

Open(p) ==
    /\ project[p] = "absent"
    /\ project' = [project EXCEPT ![p] = "planning"]
    /\ UNCHANGED plan

Propose(p) ==
    /\ project[p] = "planning"
    /\ plan[p] = "absent"
    /\ plan' = [plan EXCEPT ![p] = "proposed"]
    /\ UNCHANGED project

Decide(p, outcome) ==
    /\ plan[p] = "proposed"
    /\ plan' = [plan EXCEPT ![p] = outcome]
    /\ UNCHANGED project

(* The project row is written once, after the decision and according to it. *)
Reflect(p, outcome, status) ==
    /\ plan[p] = outcome
    /\ project[p] = "planning"
    /\ project' = [project EXCEPT ![p] = status]
    /\ UNCHANGED plan

Next ==
    \E p \in Plans :
        \/ Open(p) \/ Propose(p)
        \/ Decide(p, "committed") \/ Decide(p, "superseded")
        \/ Reflect(p, "committed", "committed")
        \/ Reflect(p, "superseded", "cancelled")

Spec == Init /\ [][Next]_<<project, plan>>
=============================================================================
