----------------------------- MODULE MCBooking -----------------------------
(* Instances of Booking for TLC: two people of unlike capacity, templates   *)
(* that between them hold every kind of task and link.                      *)
EXTENDS Booking

CONSTANTS a, b, c1, c2

Task(hours, allowed, after) ==
    [hours |-> hours, allowed |-> allowed, splittable |-> FALSE, pair |-> FALSE,
     window |-> FALSE, after |-> after]
Split(t)  == [t EXCEPT !.splittable = TRUE]
Pair(t)   == [t EXCEPT !.pair = TRUE]
Window(t) == [t EXCEPT !.window = TRUE]
Link(on, link, lag) == [on |-> on, link |-> link, lag |-> lag]

Hours == (a :> 2) @@ (b :> 3)
Both  == <<a, b>>
Late  == 7

(* A task for either, and one that spreads over days after it; a link to    *)
(* nothing.                                                                 *)
Chain == <<Task(2, Both, {}),
           Split(Task(3, <<a>>, {Link(1, "FS", 0), Link(9, "FS", 0)}))>>
(* A pair, and work that starts with it. *)
Joint == <<Pair(Task(2, Both, {})), Task(1, <<b>>, {Link(1, "SS", 0)})>>
(* An external window, and a task some days after its end. *)
Outside == <<Window(Task(3, <<a>>, {})), Task(1, <<>>, {Link(1, "FS", 2)})>>
(* More than any day holds, and more than the horizon holds. *)
Heavy == <<Task(3, <<a>>, {}), Split(Task(11, <<a>>, {Link(1, "SS", 2)}))>>
(* Links that cannot be ordered. *)
Circle == <<Task(1, <<a>>, {Link(2, "FS", 0)}), Task(1, <<a>>, {Link(1, "FS", 0)})>>

(* Nothing but a window. *)
Rented == <<Window(Task(1, <<b>>, {}))>>

AllTemplates == {Chain, Joint, Outside, Heavy, Circle, Rented}

Off     == [person |-> a, from |-> 4, to |-> 5, hours |-> 0]
Half    == [person |-> a, from |-> 5, to |-> 6, hours |-> 1]
Overfull == [person |-> b, from |-> 4, to |-> 4, hours |-> 13]
Away == {Off, Half, Overfull}

(* One handler enters vacations while all is planned, two of them enter      *)
(* vacations that overlap while little is.                                   *)
Busy == {[clerks |-> {c1}, leaves |-> {Off, Overfull}, templates |-> AllTemplates],
         [clerks |-> {c1, c2}, leaves |-> {Off, Half}, templates |-> {}]}
Holiday == {7}
SomeDeadlines == {NoDay, Late}
=============================================================================
