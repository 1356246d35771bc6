----------------------------- MODULE LoadViews -----------------------------
(***************************************************************************)
(* The two views of who is busy when.  The heatmap sums the allocations of  *)
(* committed plans; the admin board spreads the hours of every task row     *)
(* evenly over its calendar days and counts in slots.                       *)
(*                                                                          *)
(* A row is [task, person, hours, start, end, deadline], as                 *)
(* list_tasks_with_meta returns it: one for each assignee of a task.        *)
(***************************************************************************)
EXTENDS Greedy

CONSTANT SlotHours     (* SLOT_HOURS: 4 in the program *)

ASSUME SlotAssumption == SlotHours \in Nat \ {0}

(* The rows that save_project_tasks writes: an assignment for each person   *)
(* of the place, and for the person of a window, which has no allocations.  *)
SavedRows(r, placed) ==
    LET people(t) == IF placed[t].load = EmptyBag THEN {placed[t].person}
                     ELSE {k[1] : k \in DOMAIN placed[t].load}
    IN  UNION {{[task |-> t, person |-> p, hours |-> r.tasks[t].hours,
                 start |-> placed[t].start, end |-> placed[t].end,
                 deadline |-> r.deadline] : p \in people(t)} : t \in DOMAIN placed}

-----------------------------------------------------------------------------
(* Heatmap: the hours of person p on day d, if the window shows the day. *)
HeatCell(booked, from, days, p, d) ==
    IF d \in from..(from + days - 1) THEN HoursOn(<<p, d>>, booked) ELSE 0

-----------------------------------------------------------------------------
(* Board *)

(* Mutant: the last day is left out. *)
TaskSpanOpen(row) == row.start..(row.end - 1)

TaskSpan(row) ==
    LET end == IF row.end # NoDay THEN row.end ELSE row.deadline
    IN  IF row.start # NoDay /\ end # NoDay /\ end >= row.start
        THEN row.start..end
        ELSE {IF end # NoDay THEN end ELSE row.start} \ {NoDay}

(* Hours per day are fractions: all of them times this number are whole. *)
Scale(rows) ==
    FoldFunction(LAMBDA x, y : x * y, 1,
                 [row \in rows |-> AtLeast(Cardinality(TaskSpan(row)), 1)])

DayHoursScaled(rows, scale, p, d) ==
    LET mine == {row \in rows : row.person = p /\ d \in TaskSpan(row)}
    IN  SumFunction([row \in mine |->
            row.hours * (scale \div Cardinality(TaskSpan(row)))])

HoursToSlots(hours, scale) == CeilDiv(hours, SlotHours * scale)

CapacitySlots(p) == HoursToSlots(Capacity[p], 1)

(* A row of the load tab over the days of the window. *)
LoadRow(rows, p, days) ==
    LET cap   == CapacitySlots(p)
        scale == Scale(rows)
        slots == [d \in days |-> HoursToSlots(DayHoursScaled(rows, scale, p, d), scale)]
    IN  [slots      |-> slots,
         free       |-> [d \in days |-> AtLeast(cap - slots[d], 0)],
         overloaded |-> {d \in days : slots[d] > cap}]
=============================================================================
