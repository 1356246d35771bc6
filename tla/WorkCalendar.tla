---------------------------- MODULE WorkCalendar ----------------------------
(***************************************************************************)
(* The production calendar: days are numbers, day 0 is a Monday, Saturdays, *)
(* Sundays and the loaded holidays are off.                                 *)
(***************************************************************************)
EXTENDS Integers, FiniteSets

CONSTANT Holidays

ASSUME HolidaysAssumption == Holidays \subseteq Nat /\ IsFiniteSet(Holidays)

Least(S) == CHOOSE x \in S : \A y \in S : x <= y
Greatest(S) == CHOOSE x \in S : \A y \in S : x >= y

IsWorkingDay(d) == d % 7 \notin {5, 6} /\ d \notin Holidays

(* Some weekday of as many weeks is not a holiday. *)
Reach == 7 * (Cardinality(Holidays) + 1)

NextWorkingDay(d) == Least({e \in (d + 1)..(d + Reach) : IsWorkingDay(e)})

FirstWorkingDay(d) == IF IsWorkingDay(d) THEN d ELSE NextWorkingDay(d)

NthWorkingDay(d, n) ==
    LET nth[k \in 1..n] ==
            IF k = 1 THEN FirstWorkingDay(d) ELSE NextWorkingDay(nth[k - 1])
    IN  nth[n]

BusinessDaysBetween(a, b) == Cardinality({d \in a..(b - 1) : IsWorkingDay(d)})
=============================================================================
