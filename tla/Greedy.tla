------------------------------- MODULE Greedy -------------------------------
(***************************************************************************)
(* The greedy solver.  A request r has the fields                           *)
(*   team       the active people, a sequence ordered by name               *)
(*   tasks      task id -> [hours, allowed, splittable, pair, window,       *)
(*              after], where allowed is the priority order of the people   *)
(*              and after the set of links [on, link, lag]                  *)
(*   start      the first day, deadline  the last one or NoDay              *)
(*   overrides  <<person, day>> -> hours                                    *)
(*   existing   a bag of person-days, one copy per hour already booked      *)
(* Hours booked are bags of person-days throughout.                         *)
(***************************************************************************)
EXTENDS WorkCalendar, Sequences, Functions, Bags

CONSTANTS Capacity,     (* person -> hours of a working day                 *)
          HorizonDays,  (* HORIZON_DAYS: 365 in the program                 *)
          DayHours,     (* DAY_HOURS and the capacity assumed of an unbound *)
                        (* task: 8 in the program                           *)
          NoDay

ASSUME GreedyAssumption ==
    /\ \A p \in DOMAIN Capacity : Capacity[p] \in Nat
    /\ HorizonDays \in Nat
    /\ DayHours \in Nat \ {0}
    /\ NoDay \notin Nat

CeilDiv(n, d) == (n + d - 1) \div d
AtLeast(n, m) == IF n < m THEN m ELSE n
AtMost(n, m) == IF n > m THEN m ELSE n

Members(r) == Range(r.team)

(* The hours that a bag holds of a person-day. *)
HoursOn(k, load) == IF k \in DOMAIN load THEN load[k] ELSE 0

(* Several bags together. *)
Total(loads) ==
    [k \in UNION {DOMAIN loads[i] : i \in DOMAIN loads} |->
        SumFunction([i \in DOMAIN loads |-> HoursOn(k, loads[i])])]

Put(f, k, v) == [x \in DOMAIN f \cup {k} |-> IF x = k THEN v ELSE f[x]]

-----------------------------------------------------------------------------
(* Capacity *)

BaseCapacity(r, p, d) ==
    IF <<p, d>> \in DOMAIN r.overrides THEN r.overrides[<<p, d>>]
    ELSE IF IsWorkingDay(d) /\ p \in Members(r) THEN Capacity[p] ELSE 0

Remaining(r, used, p, d) == BaseCapacity(r, p, d) - HoursOn(<<p, d>>, used)

Overloads(r, used) ==
    {k \in BagToSet(used) : used[k] > BaseCapacity(r, k[1], k[2])}

-----------------------------------------------------------------------------
(* Links *)

(* Mutant: the successor may start on the day its predecessor ends. *)
EarliestStartSameDay(r, placed, t) ==
    Greatest({r.start} \cup
             {FirstWorkingDay(placed[l.on].end) :
                 l \in {m \in r.tasks[t].after : m.on \in DOMAIN placed}})

(* A link to a task that has no place yet is skipped, as is a link to an id *)
(* that is no task of the request.                                          *)
EarliestStart(r, placed, t) ==
    LET after(l) ==
            LET base == IF l.link = "FS" THEN NextWorkingDay(placed[l.on].end)
                                         ELSE placed[l.on].start
            IN  IF l.lag > 0 THEN NthWorkingDay(base, l.lag)
                             ELSE FirstWorkingDay(base)
        links == {l \in r.tasks[t].after : l.on \in DOMAIN placed}
    IN  Greatest({r.start} \cup {after(l) : l \in links})

(* The ids a task waits for, and those of its links that are tasks. *)
Before(r, t) == {l.on : l \in r.tasks[t].after} \cap DOMAIN r.tasks

(* No order of the tasks respects a cyclic set of links. *)
Acyclic(r) ==
    LET height[n \in 0..Cardinality(DOMAIN r.tasks)] ==
            IF n = 0 THEN {}
            ELSE {t \in DOMAIN r.tasks : Before(r, t) \subseteq height[n - 1]}
    IN  height[Cardinality(DOMAIN r.tasks)] = DOMAIN r.tasks

-----------------------------------------------------------------------------
(* Placing one task.  A place is [person, start, end, load].                *)

Limit(r) == r.start + HorizonDays
OpenDays(r, from) == {d \in from..Limit(r) : IsWorkingDay(d)}

(* Mutant: a day that the task fills exactly is taken for too short. *)
PlaceTogetherStrict(r, used, people, hours, from) ==
    LET first == FirstWorkingDay(from)
        fits  == {d \in OpenDays(r, first) :
                     \A p \in people : Remaining(r, used, p, d) > hours}
        day   == IF fits = {} THEN first ELSE Least(fits)
    IN  [start |-> day, end |-> day, load |-> [k \in people \X {day} |-> hours]]

(* One person, or a required pair: the first day on which all of them have  *)
(* the hours of the whole task, else the first working day, overloaded.     *)
PlaceTogether(r, used, people, hours, from) ==
    LET first == FirstWorkingDay(from)
        fits  == {d \in OpenDays(r, first) :
                     \A p \in people : Remaining(r, used, p, d) >= hours}
        day   == IF fits = {} THEN first ELSE Least(fits)
    IN  [start |-> day, end |-> day, load |-> [k \in people \X {day} |-> hours]]

(* Mutant: the hours placed are not subtracted from those that remain. *)
PlaceSplitForgets(r, used, p, hours, from) ==
    LET days == {d \in OpenDays(r, FirstWorkingDay(from)) : Remaining(r, used, p, d) > 0}
    IN  [start |-> FirstWorkingDay(from), end |-> Greatest({from} \cup days),
         load |-> [k \in {p} \X days |-> AtMost(Remaining(r, used, p, k[2]), hours)]]

(* A splittable task takes what is left of each day in turn; what the       *)
(* horizon has no room for is booked on the first day.                      *)
PlaceSplit(r, used, p, hours, from) ==
    LET first == FirstWorkingDay(from)
        open  == OpenDays(r, first)
        room  == [d \in open |-> AtLeast(Remaining(r, used, p, d), 0)]
        upTo(d) == SumFunctionOnSet(room, {e \in open : e < d})
        take  == [d \in open |-> AtMost(room[d], AtLeast(hours - upTo(d), 0))]
        rest  == hours - SumFunction(take)
        on(d) == (IF d \in open THEN take[d] ELSE 0)
                     + (IF d = first THEN rest ELSE 0)
        days  == {d \in open \cup {first} : on(d) > 0}
    IN  [start |-> Least(days), end |-> Greatest(days),
         load |-> [k \in {p} \X days |-> on(k[2])]]

(* A calendar window of an external resource occupies nobody. *)
PlaceWindow(hours, from) ==
    LET first == FirstWorkingDay(from)
        span  == AtLeast(CeilDiv(hours, DayHours), 1)
    IN  [start |-> first, end |-> NthWorkingDay(first, span), load |-> EmptyBag]

Earlier(a, b) ==
    \/ a.start < b.start
    \/ a.start = b.start /\ a.end < b.end

(* The people a task is bound to, by their priority; all, if none of them   *)
(* is in the team.                                                          *)
Allowed(r, t) ==
    LET bound == r.tasks[t].allowed
        known == {i \in DOMAIN bound : bound[i] \in Members(r)}
    IN  IF known = {} THEN r.team ELSE [i \in known |-> bound[i]]

First(who) == Least(DOMAIN who)
Second(who) == Least(DOMAIN who \ {First(who)})
InPairs(task, who) == task.pair /\ DOMAIN who \ {First(who)} # {}

PlaceTask(r, used, placed, t) ==
    LET task == r.tasks[t]
        who  == Allowed(r, t)
        from == EarliestStart(r, placed, t)
        by(p, place) == [person |-> p, start |-> place.start,
                         end |-> place.end, load |-> place.load]
        solo == [i \in DOMAIN who |->
                    IF task.splittable
                    THEN PlaceSplit(r, used, who[i], task.hours, from)
                    ELSE PlaceTogether(r, used, {who[i]}, task.hours, from)]
        best == Least({i \in DOMAIN who :
                          \A j \in DOMAIN who : ~Earlier(solo[j], solo[i])})
        lead == who[First(who)]
    IN  IF task.window THEN by(lead, PlaceWindow(task.hours, from))
        ELSE IF InPairs(task, who)
        THEN by(lead, PlaceTogether(r, used, {lead, who[Second(who)]}, task.hours, from))
        ELSE by(who[best], solo[best])

-----------------------------------------------------------------------------
(* What is told of the whole plan *)

EndOf(placed) ==
    IF DOMAIN placed = {} THEN NoDay
    ELSE Greatest({placed[t].end : t \in DOMAIN placed})

DeadlineMissed(r, placed) ==
    /\ r.deadline # NoDay
    /\ EndOf(placed) # NoDay
    /\ EndOf(placed) > r.deadline

(* The hours a day that a task is assumed to get: those of the least able of *)
(* the people it is bound to.                                               *)
AssumedHours(r, t) ==
    LET caps == {Capacity[p] : p \in Range(r.tasks[t].allowed) \cap Members(r)}
    IN  AtLeast(IF caps = {} THEN DayHours ELSE Least(caps), 1)

(* Mutant: one day more than the hours take. *)
DurationDaysOver(r, t) == r.tasks[t].hours \div AssumedHours(r, t) + 1

DurationDays(r, t) == AtLeast(CeilDiv(r.tasks[t].hours, AssumedHours(r, t)), 1)

(* The longest chain of links in working days, whatever kind of link. *)
CriticalPathEnd(r) ==
    LET finish[t \in DOMAIN r.tasks] ==
            DurationDays(r, t) + Greatest({0} \cup {finish[u] : u \in Before(r, t)})
        longest == Greatest({0} \cup {finish[t] : t \in DOMAIN r.tasks})
    IN  IF longest = 0 THEN FirstWorkingDay(r.start)
        ELSE NthWorkingDay(r.start, longest)

(* BACKWARD_BUFFER_WORKING_DAYS = 2 *)
PresentedEarliestEnd(r) == NextWorkingDay(NextWorkingDay(CriticalPathEnd(r)))
=============================================================================
