----------------------------- MODULE MCCapture -----------------------------
(* Instances of Capture for TLC: one task asked for whole, with others, and  *)
(* with fields missing; an administrator and somebody who is not.            *)
EXTENDS Capture

CONSTANTS admin, member, ann, bob, nobody, film, trip, shoot, noon

Whole   == [title |-> shoot, project |-> film, people |-> <<nobody, ann>>, deadline |-> noon]
Joined  == [Whole EXCEPT !.people = <<bob, nobody>>]
Homeless == [Whole EXCEPT !.project = None]
Bare    == [Whole EXCEPT !.people = <<>>, !.deadline = None]

AllWants == {Whole, Joined, Homeless, Bare}
AllCalls == {[tool |-> "plan_project", title |-> film],
             [tool |-> "assign_task", title |-> shoot, person |-> bob],
             [tool |-> "mark_task_done", title |-> shoot],
             [tool |-> "set_vacation"],
             [tool |-> "list_people"]}
(* An answer of the model asks for one call, or plans a project and then     *)
(* captures a task without one.                                              *)
PlanFilm == [tool |-> "plan_project", title |-> film]
AskWhere == [tool |-> "capture_task", want |-> Homeless]
FewCalls(calls) == {<<c>> : c \in calls}
                       \cup {<<c, d>> : c \in calls \cap {PlanFilm}, d \in calls \cap {AskWhere}}
Budget(messages, rounds, taps, failures) ==
    [messages |-> messages, rounds |-> rounds, taps |-> taps, failures |-> failures]
(* Two turns; one long turn; a dialogue to its end; two turns and taps.       *)
SomeBudgets == {Budget(2, 1, 1, 1), Budget(1, 3, 0, 1), Budget(1, 1, 4, 0),
                Budget(2, 1, 2, 0), Budget(1, 1, 2, 1)}
OneProject == <<trip>>
Roster == <<ann, bob>>
=============================================================================
