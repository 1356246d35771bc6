-------------------------- MODULE MCNotionMirror --------------------------
(* Instances of NotionMirror for TLC: two projects of one title, one planned *)
(* and one that a capture makes, and boards that refuse more and more.       *)
EXTENDS NotionMirror, TLC

CONSTANTS film, twin, shoot, cut, call

Project == (shoot :> film) @@ (cut :> film) @@ (call :> twin)
Name    == (shoot :> "shoot") @@ (cut :> "cut") @@ (call :> "shoot")
Title   == (film :> "film") @@ (twin :> "film")
Plan    == (film :> <<shoot, cut>>) @@ (twin :> <<>>)

(* One task with a person and a project that the board does not know, one    *)
(* with a known person, one with nothing but a date.                         *)
Columns == (shoot :> {"title", "date", "who", "project"})
               @@ (cut :> {"title", "who"}) @@ (call :> {"title", "date"})
Unknown == (shoot :> {"who", "project"}) @@ (cut :> {}) @@ (call :> {})

Mood(never, noNew) == [never |-> never, noNew |-> noNew]
SomeMoods == {Mood({"who"}, {"project"}), Mood({"date"}, {})}
Always == {"title", "date"}
=============================================================================
