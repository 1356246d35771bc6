------------------------------- MODULE Booking -------------------------------
(***************************************************************************)
(* Work is booked by proposals that the solver computes from the committed  *)
(* plans, and that are confirmed later or never; vacations are entered day  *)
(* by day, by several handlers at once; a replan solves the committed work  *)
(* again and only reports.                                                  *)
(*                                                                          *)
(* The solver runs without an await: while it places tasks, one per step,   *)
(* no other handler runs.                                                   *)
(***************************************************************************)
EXTENDS LoadViews

CONSTANTS Projects,
          Team,         (* the active people, in order of their names         *)
          Templates,    (* each a function from ord to the task's definition  *)
          FirstDay,     (* the day the program starts                         *)
          LastDay,      (* bound: the last day on which anything is asked     *)
          Deadlines,    (* the deadlines users name, and NoDay                *)
          Leaves,       (* the vacations asked for: [person, from, to, hours] *)
          Clerks,       (* the handlers that may enter vacations              *)
          Offices,      (* bound: what is in use together, one of them in a   *)
                        (* behaviour: [clerks, leaves, templates]             *)
          None

ASSUME BookingAssumption ==
    /\ Team \in Seq(DOMAIN Capacity) /\ IsInjective(Team)
    /\ FirstDay \in Nat /\ LastDay \in Nat /\ FirstDay <= LastDay
    /\ None \notin Projects \cup Leaves
    /\ \A v \in Leaves : v.from \in Nat /\ v.to \in Nat

(* Rows of the template tables: a task takes some hours, no person is an    *)
(* assignee of it twice (the primary key of template_task_assignees).       *)
ASSUME TemplatesAssumption ==
    \A template \in Templates :
        /\ IsFiniteSet(DOMAIN template)
        /\ \A ord \in DOMAIN template :
               LET task == template[ord]
               IN  /\ task = [hours |-> task.hours, allowed |-> task.allowed,
                              splittable |-> task.splittable, pair |-> task.pair,
                              window |-> task.window, after |-> task.after]
                   /\ task.hours \in Nat \ {0}
                   /\ task.allowed \in Seq(DOMAIN Capacity)
                   /\ IsInjective(task.allowed)
                   /\ {task.splittable, task.pair, task.window} \subseteq BOOLEAN
                   /\ IsFiniteSet(task.after)
                   /\ \A l \in task.after :
                          /\ l = [on |-> l.on, link |-> l.link, lag |-> l.lag]
                          /\ l.lag \in Int

VARIABLES
    today,
    overrides,  (* day_overrides: <<person, day>> -> capacity_h               *)
    plans,      (* project -> its plan version: [status, placed, risks, ...]; *)
                (* told, the date that is shown when no deadline is named, and *)
                (* known, the plans that were committed when it was computed,  *)
                (* are not stored                                              *)
    job,        (* the request being solved: [kind, project, request]         *)
    placed,     (* assignments: task id -> its place                          *)
    used,       (* CapacityIndex._used                                        *)
    read,       (* the committed plans a replan has read, or None             *)
    leave,      (* clerk -> the vacation it enters: [what, next, had, step],  *)
                (* had being the row it read of the next day; and others, the *)
                (* vacations that were under way since it began               *)
    entered,    (* the vacation last reported as entered, and the others that *)
                (* were under way since it was begun: [what, others]          *)
    office      (* what is in use                                             *)

vars == <<today, overrides, plans, job, placed, used, read, leave, entered, office>>

Stored == DOMAIN plans
Committed == {pr \in Stored : plans[pr].status = "committed"}

(* The hours of a plan, and of a set of plans (deserialize_allocations). *)
Booked(places) == Total([t \in DOMAIN places |-> places[t].load])

BookedBy(prs) == Total([pr \in prs |-> Booked(plans[pr].placed)])

NoJob == [kind |-> "none"]
NoLeave == [what |-> None, others |-> {}]

Init ==
    /\ office \in Offices
    /\ today = FirstDay
    /\ overrides = <<>>
    /\ plans = <<>>
    /\ job = NoJob
    /\ placed = <<>>
    /\ used = EmptyBag
    /\ read = None
    /\ leave = [c \in Clerks |-> NoLeave]
    /\ entered = NoLeave

-----------------------------------------------------------------------------
(* Solving *)

(* Tasks and nobody to do them, and links in a circle, are refused.         *)
Begin(kind, pr, r) ==
    /\ job = NoJob
    /\ r.team # <<>>
    /\ Acyclic(r)
    /\ job' = [kind |-> kind, project |-> pr, request |-> r]
    /\ placed' = <<>>
    /\ used' = r.existing

Unplaced ==
    IF job = NoJob THEN {} ELSE DOMAIN job.request.tasks \ DOMAIN placed

(* Any topological order. *)
Place(t) ==
    /\ t \in Unplaced
    /\ Before(job.request, t) \subseteq DOMAIN placed
    /\ LET place == PlaceTask(job.request, used, placed, t)
       IN  /\ placed' = Put(placed, t, place)
           /\ used' = used (+) place.load
    /\ UNCHANGED <<today, overrides, plans, job, read, leave, entered, office>>

Solved == job # NoJob /\ Unplaced = {}

-----------------------------------------------------------------------------
(* Add a project *)

(* Task identities are fresh in each project. *)
Instantiate(pr, template) ==
    [t \in {pr} \X DOMAIN template |->
        [template[t[2]] EXCEPT !.after = {[l EXCEPT !.on = <<pr, l.on>>] : l \in @}]]

(* Mutant: the solver is not told what is booked. *)
AddProjectBlind(pr, template, deadline) ==
    /\ template \in office.templates
    /\ pr \notin Stored
    /\ Begin("add", pr, [team |-> Team, tasks |-> Instantiate(pr, template),
                         start |-> today, deadline |-> deadline,
                         overrides |-> <<>>, existing |-> EmptyBag])
    /\ UNCHANGED <<today, overrides, plans, read, leave, entered, office>>

(* The committed plans are read and the solver started with no await in     *)
(* between; no day override is passed.  An empty template, a deadline in    *)
(* the past and a cyclic template are refused.                              *)
AddProject(pr, template, deadline) ==
    /\ template \in office.templates
    /\ pr \notin Stored
    /\ DOMAIN template # {}
    /\ deadline # NoDay => deadline >= today
    /\ Begin("add", pr, [team      |-> Team,
                         tasks     |-> Instantiate(pr, template),
                         start     |-> today,
                         deadline  |-> deadline,
                         overrides |-> <<>>,
                         existing  |-> BookedBy(Committed)])
    /\ UNCHANGED <<today, overrides, plans, read, leave, entered, office>>

SaveProposal ==
    /\ Solved
    /\ job.kind = "add"
    /\ plans' = Put(plans, job.project,
           [status  |-> "proposed",
            placed  |-> placed,
            rows    |-> SavedRows(job.request, placed),
            risks   |-> Overloads(job.request, used),
            late    |-> DeadlineMissed(job.request, placed),
            told    |-> IF job.request.deadline = NoDay
                        THEN PresentedEarliestEnd(job.request) ELSE NoDay,
            known   |-> Committed])
    /\ job' = NoJob
    /\ placed' = <<>>
    /\ used' = EmptyBag
    /\ UNCHANGED <<today, overrides, read, leave, entered, office>>

Confirm(pr) ==
    /\ job = NoJob
    /\ pr \in Stored
    /\ plans[pr].status = "proposed"
    /\ plans' = [plans EXCEPT ![pr].status = "committed"]
    /\ UNCHANGED <<today, overrides, job, placed, used, read, leave, entered, office>>

-----------------------------------------------------------------------------
(* Vacations *)

MaxVacationDays == 60
MaxCapacityH == 12

UnderWay == {leave[c].what : c \in Clerks} \ {None}

BeginLeave(c, v) ==
    /\ job = NoJob
    /\ c \in office.clerks /\ v \in office.leaves
    /\ leave[c] = NoLeave
    /\ leave' = [e \in Clerks |->
                    IF e = c
                    THEN [what |-> v, next |-> v.from, had |-> NoDay, step |-> "get",
                          others |-> UnderWay]
                    ELSE IF leave[e] = NoLeave THEN NoLeave
                    ELSE [leave[e] EXCEPT !.others = @ \cup {v}]]
    /\ entered' = IF entered = NoLeave THEN NoLeave
                  ELSE [entered EXCEPT !.others = @ \cup {v}]
    /\ UNCHANGED <<today, overrides, plans, job, placed, used, read, office>>

(* Mutant: the bounds on the range and on the hours are not checked. *)
AskVacationUnbounded(c, v) == BeginLeave(c, v)

(* Asked by an administrator; anything else is answered and changes nothing. *)
AskVacation(c, v) ==
    /\ v.from <= v.to
    /\ v.to - v.from + 1 <= MaxVacationDays
    /\ v.hours \in 0..MaxCapacityH
    /\ BeginLeave(c, v)

NextDay(c) == <<leave[c].what.person, leave[c].next>>

(* One upsert, and one transaction, for each day: the row is read first.    *)
GetDay(c) ==
    /\ job = NoJob
    /\ leave[c] # NoLeave
    /\ leave[c].step = "get"
    /\ leave[c].next <= leave[c].what.to
    /\ leave' = [leave EXCEPT ![c] =
                    [@ EXCEPT !.step = "put",
                              !.had  = IF NextDay(c) \in DOMAIN overrides
                                       THEN overrides[NextDay(c)] ELSE NoDay]]
    /\ UNCHANGED <<today, overrides, plans, job, placed, used, read, entered, office>>

(* A row that was there and differs is updated, one that had these hours is *)
(* left alone, and a missing one is inserted if it is missing still.        *)
PutDay(c) ==
    /\ job = NoJob
    /\ leave[c] # NoLeave
    /\ leave[c].step = "put"
    /\ leave[c].had = NoDay => NextDay(c) \notin DOMAIN overrides
    /\ overrides' = IF leave[c].had = leave[c].what.hours THEN overrides
                    ELSE Put(overrides, NextDay(c), leave[c].what.hours)
    /\ leave' = [leave EXCEPT ![c] =
                    [@ EXCEPT !.step = "get", !.next = leave[c].next + 1, !.had = NoDay]]
    /\ UNCHANGED <<today, plans, job, placed, used, read, entered, office>>

(* Mutant: the last day is left out. *)
AuditVacationEarly(c) ==
    /\ job = NoJob
    /\ leave[c] # NoLeave
    /\ leave[c].step = "get"
    /\ leave[c].next >= leave[c].what.to
    /\ entered' = [what |-> leave[c].what, others |-> leave[c].others]
    /\ leave' = [leave EXCEPT ![c] = NoLeave]
    /\ UNCHANGED <<today, overrides, plans, job, placed, used, read, office>>

AuditVacation(c) ==
    /\ job = NoJob
    /\ leave[c] # NoLeave
    /\ leave[c].step = "get"
    /\ leave[c].next > leave[c].what.to
    /\ entered' = [what |-> leave[c].what, others |-> leave[c].others]
    /\ leave' = [leave EXCEPT ![c] = NoLeave]
    /\ UNCHANGED <<today, overrides, plans, job, placed, used, read, office>>

(* A refused write, as the insert of a row that came meanwhile is, another  *)
(* error, or the end of the process.                                        *)
CutVacation(c) ==
    /\ job = NoJob
    /\ leave[c] # NoLeave
    /\ leave' = [leave EXCEPT ![c] = NoLeave]
    /\ UNCHANGED <<today, overrides, plans, job, placed, used, read, entered, office>>

-----------------------------------------------------------------------------
(* Replan *)

ReadCommitted ==
    /\ job = NoJob
    /\ read = None
    /\ Team # <<>>
    /\ Committed # {}
    /\ read' = [pr \in Committed |-> plans[pr].placed]
    /\ UNCHANGED <<today, overrides, plans, job, placed, used, leave, entered, office>>

HoursOf(place) == SumFunction(place.load)

(* One task for each entry of the payloads that has hours: all of them, for *)
(* its first person alone.  No link is ever stored for a project's tasks.   *)
Reconstructed ==
    LET entries == UNION {DOMAIN read[pr] : pr \in DOMAIN read}
        entry(t) == read[t[1]][t]
    IN  [t \in {u \in entries : HoursOf(entry(u)) > 0} |->
            [hours |-> HoursOf(entry(t)), allowed |-> <<entry(t).person>>,
             splittable |-> FALSE, pair |-> FALSE, window |-> FALSE, after |-> {}]]

(* Mutant: the vacations are not read. *)
SolveAgainUnaware ==
    /\ read # None
    /\ Begin("replan", None, [team |-> Team, tasks |-> Reconstructed,
                              start |-> today, deadline |-> NoDay,
                              overrides |-> <<>>, existing |-> EmptyBag])
    /\ UNCHANGED <<today, overrides, plans, read, leave, entered, office>>

SolveAgain ==
    /\ job = NoJob
    /\ read # None
    /\ IF DOMAIN Reconstructed = {}
       THEN /\ read' = None
            /\ UNCHANGED <<job, placed, used>>
       ELSE /\ Begin("replan", None, [team      |-> Team,
                                      tasks     |-> Reconstructed,
                                      start     |-> today,
                                      deadline  |-> NoDay,
                                      overrides |-> overrides,
                                      existing  |-> EmptyBag])
            /\ UNCHANGED read
    /\ UNCHANGED <<today, overrides, plans, leave, entered, office>>

(* The answer lists the overloads; nothing is stored. *)
Report ==
    /\ Solved
    /\ job.kind = "replan"
    /\ job' = NoJob
    /\ placed' = <<>>
    /\ used' = EmptyBag
    /\ read' = None
    /\ UNCHANGED <<today, overrides, plans, leave, entered, office>>

Midnight ==
    /\ job = NoJob
    /\ today < LastDay
    /\ today' = today + 1
    /\ UNCHANGED <<overrides, plans, job, placed, used, read, leave, entered, office>>

Next ==
    \/ \E pr \in Projects, template \in Templates, deadline \in Deadlines :
           AddProject(pr, template, deadline)
    \/ \E t \in Unplaced : Place(t)
    \/ SaveProposal
    \/ \E pr \in Projects : Confirm(pr)
    \/ \E c \in Clerks, v \in Leaves : AskVacation(c, v)
    \/ \E c \in Clerks : GetDay(c)
    \/ \E c \in Clerks : PutDay(c)
    \/ \E c \in Clerks : AuditVacation(c)
    \/ \E c \in Clerks : CutVacation(c)
    \/ ReadCommitted \/ SolveAgain \/ Report
    \/ Midnight

Spec == Init /\ [][Next]_vars

-----------------------------------------------------------------------------
(* Properties *)

IsPlace(place) ==
    /\ place.person \in DOMAIN Capacity
    /\ place.start \in Nat /\ place.end \in Nat /\ place.start <= place.end
    /\ IsABag(place.load)

(* The rows and the values in flight have the shapes the code gives them:   *)
(* tasks are placed within their request and hours booked are positive.     *)
TypeOK ==
    /\ today \in FirstDay..LastDay
    /\ \A k \in DOMAIN overrides : overrides[k] \in 0..MaxCapacityH
    /\ Stored \subseteq Projects
    /\ \A pr \in Stored :
           /\ plans[pr].status \in {"proposed", "committed"}
           /\ \A t \in DOMAIN plans[pr].placed : IsPlace(plans[pr].placed[t])
    /\ job.kind \in {"none", "add", "replan"}
    /\ IsABag(used)
    /\ \A t \in DOMAIN placed : IsPlace(placed[t])
    /\ job = NoJob => placed = <<>>
    /\ \A c \in Clerks : leave[c].what \in Leaves \cup {None}
    /\ entered.what \in Leaves \cup {None}

HoursFor(place, p) ==
    SumFunction([k \in {l \in DOMAIN place.load : l[1] = p} |-> place.load[k]])

(* No hour is lost, doubled or given away: the solver's count of each day is *)
(* what was booked before plus what it placed, every task gives each person  *)
(* who does it exactly its hours (a pair both of them, a window nobody).     *)
HoursConserved ==
    job # NoJob =>
        /\ used = job.request.existing (+) Booked(placed)
        /\ \A t \in DOMAIN placed :
               LET task == job.request.tasks[t]
                   who  == {k[1] : k \in DOMAIN placed[t].load}
               IN  /\ \A p \in who : HoursFor(placed[t], p) = task.hours
                   /\ Cardinality(who) =
                          IF task.window THEN 0
                          ELSE IF InPairs(task, Allowed(job.request, t)) THEN 2 ELSE 1

(* In whatever order the tasks are placed, a task starts after the end, or   *)
(* not before the start, of what it is linked to, with the lag in working    *)
(* days between them, and its hours lie on working days from start to end.   *)
LinksKept ==
    \A t \in DOMAIN placed :
        /\ placed[t].start >= job.request.start
        /\ \A k \in DOMAIN placed[t].load :
               IsWorkingDay(k[2]) /\ k[2] \in placed[t].start..placed[t].end
        /\ \A l \in job.request.tasks[t].after :
               l.on \in DOMAIN job.request.tasks =>
                   LET base == IF l.link = "FS" THEN placed[l.on].end + 1
                                                ELSE placed[l.on].start
                   IN  /\ l.on \in DOMAIN placed
                       /\ placed[t].start >= base
                       /\ BusinessDaysBetween(base, placed[t].start) >= l.lag - 1

(* An overload is a last resort: on a person's overloaded day there was too  *)
(* much already, or lies a task for which the people who got it have no day  *)
(* within the horizon.                                                       *)
OverloadForced ==
    \A k \in IF job = NoJob THEN {} ELSE Overloads(job.request, used) :
        LET r == job.request
            alone(t) == r.tasks[t].splittable /\ ~InPairs(r.tasks[t], Allowed(r, t))
        IN  \/ HoursOn(k, r.existing) > BaseCapacity(r, k[1], k[2])
            \/ \E t \in DOMAIN placed :
                   /\ k \in DOMAIN placed[t].load
                   /\ \A d \in OpenDays(r, placed[t].start) :
                          \E p \in {l[1] : l \in DOMAIN placed[t].load} :
                              Remaining(r, used, p, d)
                                  < IF alone(t) THEN 1 ELSE r.tasks[t].hours

(* A day of a person that the committed plans together overload is among the *)
(* risks that one of them shows, unless two of them were each computed       *)
(* before the other was confirmed.                                           *)
OverloadReported ==
    LET booked == BookedBy(Committed)
        touches(pr, k) == \E t \in DOMAIN plans[pr].placed :
                              k \in DOMAIN plans[pr].placed[t].load
    IN  \A k \in DOMAIN booked :
            booked[k] > Capacity[k[1]] =>
                \/ \E pr \in Committed : k \in plans[pr].risks
                \/ \E p1, p2 \in Committed :
                       /\ p1 # p2
                       /\ touches(p1, k) /\ touches(p2, k)
                       /\ p1 \notin plans[p2].known /\ p2 \notin plans[p1].known

(* The date the manager is shown when no deadline is named comes from the    *)
(* longest chain of links and not from the plan; a plan without overloads    *)
(* never ends before that chain does, when links are finish-to-start and     *)
(* nobody has more hours on a day of a task than it is assumed to get.       *)
ChainIsLowerBound ==
    LET r == job.request
    IN  /\ Solved
        /\ Overloads(r, used) = {}
        /\ \A t \in DOMAIN placed :
               /\ \A l \in r.tasks[t].after : l.link = "FS"
               /\ r.tasks[t].window => DayHours <= AssumedHours(r, t)
               /\ \A k \in DOMAIN placed[t].load :
                      BaseCapacity(r, k[1], k[2]) <= AssumedHours(r, t)
        => EndOf(placed) >= CriticalPathEnd(r)

BoardDays == 14
BoardWindow == today..(today + BoardDays - 1)

(* The board, which counts in slots and shows proposals too, hides no load   *)
(* of the heatmap: a person's slots hold at least the hours booked, if the    *)
(* window shows every day of his committed tasks; and a day the heatmap       *)
(* shows overloaded is overloaded on the board, if what is booked that day    *)
(* begins and ends on it and the person's capacity is a number of slots.     *)
BoardHoldsLoad ==
    LET booked == BookedBy(Committed)
        rows   == UNION {plans[pr].rows : pr \in Stored}
        heat   == [k \in DOMAIN booked |->
                       HeatCell(booked, today, BoardDays, k[1], k[2])]
        shown(p) == \A pr \in Committed : \A row \in plans[pr].rows :
                        row.person = p => TaskSpan(row) \subseteq BoardWindow
        oneDay(row, d) == row.start = d /\ row.end = d
    IN  /\ \A p \in {k[1] : k \in DOMAIN booked} :
               shown(p) =>
                   SumFunctionOnSet(heat, {k \in DOMAIN booked : k[1] = p})
                       <= SlotHours * SumFunction(LoadRow(rows, p, BoardWindow).slots)
        /\ \A k \in DOMAIN booked :
               /\ heat[k] > Capacity[k[1]]
               /\ Capacity[k[1]] % SlotHours = 0
               /\ \A row \in rows :
                      row.person = k[1] /\ k[2] \in TaskSpan(row) => oneDay(row, k[2])
               => k[2] \in LoadRow(rows, k[1], BoardWindow).overloaded

(* A vacation that was reported as entered covers each of its days, with its *)
(* hours or with those of another vacation of that person that was under way *)
(* since it was begun: a cut one is never reported, and nothing older and no *)
(* hole is left in it, however the handlers' reads and writes interleave.    *)
EnteredIsWhole ==
    entered # NoLeave =>
        \A d \in entered.what.from..entered.what.to :
            LET key == <<entered.what.person, d>>
            IN  /\ key \in DOMAIN overrides
                /\ \E v \in {entered.what} \cup entered.others :
                       /\ v.person = entered.what.person
                       /\ d \in v.from..v.to
                       /\ overrides[key] = v.hours

(* A replan accounts for every hour of the committed work it read, and when  *)
(* it says that everything fits, nobody has more work on a day off than the  *)
(* vacations entered leave room for.                                         *)
AllClearIsTrue ==
    Solved /\ job.kind = "replan" =>
        /\ SumFunction(used) = SumFunction(Total([pr \in DOMAIN read |-> Booked(read[pr])]))
        /\ Overloads(job.request, used) = {} =>
               \A k \in DOMAIN overrides : HoursOn(k, used) <= overrides[k]
=============================================================================
