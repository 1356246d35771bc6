---------------------------- MODULE BookingProofs ----------------------------
(***************************************************************************)
(* Proofs about Booking for any team, templates, vacations and calendar:   *)
(* what the solver books and how, what a committed plan tells of the plans *)
(* it was computed beside, and what a replan answers; and that a vacation  *)
(* that was reported as entered stays whole.                               *)
(***************************************************************************)
EXTENDS Booking, GreedyProofs

-----------------------------------------------------------------------------
(* One run of the solver: a request r, the places done so far, the hours   *)

PlaceFits(place) ==
    /\ place.person \in DOMAIN Capacity
    /\ place.start \in Nat /\ place.end \in Nat /\ place.start <= place.end
    /\ IsLoad(place.load)

Solves(r, done, hours) ==
    /\ IsRequest(r) /\ IsLoad(r.existing)
    /\ DOMAIN done \subseteq DOMAIN r.tasks
    /\ \A t \in DOMAIN done :
           /\ PlaceFits(done[t])
           /\ KeepsHours(done[t].load, r.tasks[t].hours, People(r, t))
    /\ hours = r.existing (+) Booked(done)

(* Every placed task keeps its links, and lies on working days.            *)
Linked(r, done) ==
    \A t \in DOMAIN done :
        /\ InWork(done[t], r.start)
        /\ \A l \in r.tasks[t].after :
               l.on \in DOMAIN r.tasks =>
                   l.on \in DOMAIN done /\ Follows(l, done[l.on], done[t].start)

(* Every overloaded day was so before, or was forced by a task.            *)
Forced(r, done, hours) ==
    \A k \in Overloads(r, hours) :
        \/ HoursOn(k, r.existing) > BaseCapacity(r, k[1], k[2])
        \/ \E t \in DOMAIN done :
               /\ k \in DOMAIN done[t].load
               /\ \A d \in OpenDays(r, done[t].start) :
                      \E p \in PeopleOf(done[t].load) :
                          Remaining(r, hours, p, d) < Needed(r, t)

LEMMA BookedIsLoad ==
    ASSUME NEW done, IsFiniteSet(DOMAIN done), \A t \in DOMAIN done : IsLoad(done[t].load)
    PROVE  AreLoads([t \in DOMAIN done |-> done[t].load]) /\ IsLoad(Booked(done))
<1> DEFINE loads == [t \in DOMAIN done |-> done[t].load]
<1>1. AreLoads(loads) BY DEF AreLoads
<1> HIDE DEF loads
<1>2. IsLoad(Total(loads)) BY <1>1, TotalIsLoad
<1> QED BY <1>1, <1>2 DEF Booked, loads

LEMMA BookedPut ==
    ASSUME NEW done, IsFiniteSet(DOMAIN done), \A t \in DOMAIN done : IsLoad(done[t].load),
           NEW t, t \notin DOMAIN done, NEW place, IsLoad(place.load)
    PROVE  Booked(Put(done, t, place)) = Booked(done) (+) place.load
<1> DEFINE loads == [u \in DOMAIN done |-> done[u].load]
           more == Put(done, t, place)
<1>1. AreLoads(loads) /\ DOMAIN loads = DOMAIN done BY BookedIsLoad
<1>2. [u \in DOMAIN more |-> more[u].load] = Put(loads, t, place.load) BY DEF Put
<1>3. Booked(more) = Total([u \in DOMAIN more |-> more[u].load]) BY DEF Booked
<1>4. Booked(done) = Total(loads) BY DEF Booked
<1> HIDE DEF more, loads
<1>5. Total(Put(loads, t, place.load)) = Total(loads) (+) place.load BY <1>1, TotalPut
<1> QED BY <1>2, <1>3, <1>4, <1>5 DEF more

LEMMA SolvesIsLoad ==
    ASSUME NEW r, NEW done, NEW hours, Solves(r, done, hours)
    PROVE  /\ IsFiniteSet(DOMAIN done) /\ ArePlaces(done)
           /\ \A t \in DOMAIN done : IsLoad(done[t].load)
           /\ IsLoad(Booked(done)) /\ IsLoad(hours)
<1>1. IsFiniteSet(DOMAIN done) BY FS_Subset DEF Solves, IsRequest
<1>2. \A t \in DOMAIN done : IsLoad(done[t].load) BY DEF Solves, PlaceFits
<1>3. IsLoad(Booked(done)) BY <1>1, <1>2, BookedIsLoad
<1>4. IsLoad(hours)
  <2>1. hours = r.existing (+) Booked(done) /\ IsLoad(r.existing) BY DEF Solves
  <2> QED BY <1>3, <2>1, PlusIsLoad
<1>5. ArePlaces(done) BY DEF ArePlaces, Solves, PlaceFits
<1> QED BY <1>1, <1>2, <1>3, <1>4, <1>5

LEMMA SolvesAtFirst ==
    ASSUME NEW r, IsRequest(r), IsLoad(r.existing), NEW none, DOMAIN none = {}
    PROVE  /\ Solves(r, none, r.existing) /\ Linked(r, none)
           /\ Forced(r, none, r.existing)
<1>1. IsLoad(Booked(none)) /\ DOMAIN Booked(none) = {}
  <2> DEFINE loads == [t \in DOMAIN none |-> none[t].load]
  <2>1. DOMAIN loads = {} OBVIOUS
  <2> HIDE DEF loads
  <2>2. IsLoad(Total(loads)) /\ DOMAIN Total(loads) = {} BY <2>1, TotalOfNone
  <2> QED BY <2>2 DEF Booked, loads
<1>2. r.existing (+) Booked(none) = r.existing
  <2> DEFINE sum == r.existing (+) Booked(none)
             b == Booked(none)
  <2>1. IsLoad(sum) /\ \A k : HoursOn(k, sum) = HoursOn(k, r.existing) + HoursOn(k, b)
    BY <1>1, PlusIsLoad
  <2>2. \A k : HoursOn(k, b) = 0 BY <1>1 DEF HoursOn
  <2>3. \A k : HoursOn(k, r.existing) \in Nat BY LoadIsNat DEF IsLoad
  <2> HIDE DEF sum, b
  <2>4. \A k : HoursOn(k, sum) = HoursOn(k, r.existing) BY <2>1, <2>2, <2>3
  <2>5. sum = r.existing BY <2>1, <2>4, SameLoad
  <2> QED BY <2>5 DEF sum
<1>3. Solves(r, none, r.existing) BY <1>2 DEF Solves
<1>4. Linked(r, none) BY DEF Linked
<1>5. Forced(r, none, r.existing)
  <2> SUFFICES ASSUME NEW k \in Overloads(r, r.existing)
               PROVE  HoursOn(k, r.existing) > BaseCapacity(r, k[1], k[2])
    BY DEF Forced
  <2> QED BY DEF Overloads, BagToSet, HoursOn
<1> QED BY <1>3, <1>4, <1>5

(* One more task.                                                          *)
LEMMA SolvesOn ==
    ASSUME NEW r, NEW done, NEW hours, Solves(r, done, hours),
           NEW t \in DOMAIN r.tasks, t \notin DOMAIN done
    PROVE  LET place == PlaceTask(r, hours, done, t)
           IN  /\ IsRight(r, hours, t, place, EarliestStart(r, done, t))
               /\ IsLoad(place.load)
               /\ Solves(r, Put(done, t, place), hours (+) place.load)
<1> DEFINE place == PlaceTask(r, hours, done, t)
           more == Put(done, t, place)
           from == EarliestStart(r, done, t)
<1>1. IsRequest(r) /\ IsLoad(r.existing) /\ DOMAIN done \subseteq DOMAIN r.tasks
      /\ hours = r.existing (+) Booked(done)
      /\ \A u \in DOMAIN done : /\ PlaceFits(done[u])
                                /\ KeepsHours(done[u].load, r.tasks[u].hours, People(r, u))
  BY DEF Solves
<1>2. /\ IsFiniteSet(DOMAIN done) /\ ArePlaces(done)
      /\ \A u \in DOMAIN done : IsLoad(done[u].load)
      /\ IsLoad(Booked(done)) /\ IsLoad(hours)
  BY SolvesIsLoad
<1>3. place.person \in DOMAIN Capacity /\ IsRight(r, hours, t, place, from)
  BY <1>1, <1>2, PlaceIsRight
<1> HIDE DEF place
<1>4. /\ KeepsHours(place.load, r.tasks[t].hours, People(r, t)) /\ IsLoad(place.load)
      /\ PlaceFits(place)
  BY <1>3 DEF IsRight, KeepsHours, InWork, PlaceFits
<1>5. Booked(more) = Booked(done) (+) place.load BY <1>2, <1>4, BookedPut
<1>6. hours (+) place.load = r.existing (+) Booked(more)
  BY <1>1, <1>2, <1>4, <1>5, PlusIsAssociative
<1>7. /\ DOMAIN more = DOMAIN done \cup {t} /\ more[t] = place
      /\ \A u \in DOMAIN done : more[u] = done[u]
  BY DEF Put
<1> HIDE DEF more
<1>8. \A u \in DOMAIN more : /\ PlaceFits(more[u])
                             /\ KeepsHours(more[u].load, r.tasks[u].hours, People(r, u))
  <2> SUFFICES ASSUME NEW u \in DOMAIN more
               PROVE  /\ PlaceFits(more[u])
                      /\ KeepsHours(more[u].load, r.tasks[u].hours, People(r, u))
    OBVIOUS
  <2>1. CASE u = t BY <1>4, <1>7, <2>1
  <2>2. CASE u # t
    <3>1. u \in DOMAIN done /\ more[u] = done[u] BY <1>7, <2>2
    <3> QED BY <1>1, <3>1
  <2> QED BY <2>1, <2>2
<1>9. Solves(r, more, hours (+) place.load) BY <1>1, <1>6, <1>7, <1>8 DEF Solves
<1> QED BY <1>3, <1>4, <1>9 DEF place, more, from

LEMMA LinkedOn ==
    ASSUME NEW r, NEW done, NEW hours, Solves(r, done, hours), Linked(r, done),
           NEW t \in DOMAIN r.tasks, t \notin DOMAIN done,
           Before(r, t) \subseteq DOMAIN done,
           NEW place, IsRight(r, hours, t, place, EarliestStart(r, done, t))
    PROVE  Linked(r, Put(done, t, place))
<1> DEFINE more == Put(done, t, place)
           from == EarliestStart(r, done, t)
<1>1. /\ DOMAIN more = DOMAIN done \cup {t} /\ more[t] = place
      /\ \A u \in DOMAIN done : more[u] = done[u]
  BY DEF Put
<1>2. /\ from \in Nat /\ r.start <= from
      /\ \A l \in r.tasks[t].after : l.on \in DOMAIN done => Follows(l, done[l.on], from)
  BY SolvesIsLoad, StartsAfterLinks DEF Solves
<1>3. InWork(place, from) BY DEF IsRight
<1> HIDE DEF more, from
<1>4. InWork(place, r.start)
  <2>1. r.start \in Nat BY DEF Solves, IsRequest
  <2> QED BY <1>2, <1>3, <2>1 DEF InWork
<1>5. ASSUME NEW l \in r.tasks[t].after, l.on \in DOMAIN r.tasks
      PROVE  l.on \in DOMAIN done /\ Follows(l, done[l.on], place.start)
  <2>1. l.on \in DOMAIN done BY <1>5 DEF Before
  <2>2. Follows(l, done[l.on], from) BY <1>2, <2>1
  <2>3. l.lag \in Int BY DEF Solves, IsRequest, IsTask
  <2>4. done[l.on].start \in Nat /\ done[l.on].end \in Nat
    BY <2>1 DEF Solves, PlaceFits
  <2>5. place.start \in Nat /\ from <= place.start BY <1>3 DEF InWork
  <2> QED BY <1>2, <2>1, <2>2, <2>3, <2>4, <2>5, FollowsLater
<1>6. ASSUME NEW u \in DOMAIN more
      PROVE  /\ InWork(more[u], r.start)
             /\ \A l \in r.tasks[u].after :
                    l.on \in DOMAIN r.tasks =>
                        l.on \in DOMAIN more /\ Follows(l, more[l.on], more[u].start)
  <2>1. CASE u = t
    <3>1. more[u] = place BY <1>1, <2>1
    <3>2. \A v \in DOMAIN done : v \in DOMAIN more /\ more[v] = done[v] BY <1>1
    <3> QED BY <1>4, <1>5, <2>1, <3>1, <3>2
  <2>2. CASE u # t
    <3>1. u \in DOMAIN done /\ more[u] = done[u] BY <1>1, <2>2
    <3>2. \A v \in DOMAIN done : v \in DOMAIN more /\ more[v] = done[v] BY <1>1
    <3>3. /\ InWork(done[u], r.start)
          /\ \A l \in r.tasks[u].after :
                 l.on \in DOMAIN r.tasks =>
                     l.on \in DOMAIN done /\ Follows(l, done[l.on], done[u].start)
      BY <3>1 DEF Linked
    <3> QED BY <3>1, <3>2, <3>3
  <2> QED BY <2>1, <2>2
<1>7. Linked(r, more) BY <1>6 DEF Linked
<1> QED BY <1>7 DEF more

LEMMA ForcedOn ==
    ASSUME NEW r, NEW done, NEW hours, Solves(r, done, hours), Forced(r, done, hours),
           NEW t \in DOMAIN r.tasks, t \notin DOMAIN done,
           NEW place, NEW from, IsRight(r, hours, t, place, from), IsLoad(place.load)
    PROVE  Forced(r, Put(done, t, place), hours (+) place.load)
<1> DEFINE more == Put(done, t, place)
           load == place.load
           sum == hours (+) load
<1>1. /\ DOMAIN more = DOMAIN done \cup {t} /\ more[t] = place
      /\ \A u \in DOMAIN done : more[u] = done[u]
  BY DEF Put
<1>2. IsLoad(hours) /\ IsRequest(r) BY SolvesIsLoad DEF Solves
<1>3. IsLoad(sum) /\ \A k : HoursOn(k, sum) = HoursOn(k, hours) + HoursOn(k, load)
  BY <1>2, PlusIsLoad
<1>4. \A k : HoursOn(k, hours) \in Nat /\ HoursOn(k, load) \in Nat
  BY <1>2, LoadIsNat DEF IsLoad
<1>5. IsForced(r, hours, place, Needed(r, t)) BY DEF IsRight
<1> HIDE DEF more, sum
<1>6. ASSUME NEW p, NEW d
      PROVE  /\ Remaining(r, sum, p, d) = Remaining(r, hours, p, d) - HoursOn(<<p, d>>, load)
             /\ Remaining(r, hours, p, d) \in Int
             /\ Remaining(r, sum, p, d) <= Remaining(r, hours, p, d)
  <2> DEFINE k == <<p, d>>
  <2>1. HoursOn(k, sum) = HoursOn(k, hours) + HoursOn(k, load) BY <1>3
  <2>2. HoursOn(k, hours) \in Nat /\ HoursOn(k, load) \in Nat BY <1>4
  <2>3. BaseCapacity(r, p, d) \in Nat BY <1>2, CapacityIsNat
  <2>4. /\ Remaining(r, sum, p, d) = BaseCapacity(r, p, d) - HoursOn(k, sum)
        /\ Remaining(r, hours, p, d) = BaseCapacity(r, p, d) - HoursOn(k, hours)
    BY DEF Remaining
  <2> HIDE DEF k
  <2>5. /\ Remaining(r, sum, p, d) = Remaining(r, hours, p, d) - HoursOn(k, load)
        /\ Remaining(r, hours, p, d) \in Int
        /\ Remaining(r, sum, p, d) <= Remaining(r, hours, p, d)
    BY <2>1, <2>2, <2>3, <2>4
  <2> QED BY <2>5 DEF k
<1>7. ASSUME NEW k \in Overloads(r, sum)
      PROVE  \/ HoursOn(k, r.existing) > BaseCapacity(r, k[1], k[2])
             \/ \E u \in DOMAIN more :
                    /\ k \in DOMAIN more[u].load
                    /\ \A d \in OpenDays(r, more[u].start) :
                           \E p \in PeopleOf(more[u].load) :
                               Remaining(r, sum, p, d) < Needed(r, u)
  <2> DEFINE base == BaseCapacity(r, k[1], k[2])
  <2>1. base \in Nat /\ HoursOn(k, sum) > base
    <3>1. k \in DOMAIN sum /\ sum[k] > base BY DEF Overloads, BagToSet
    <3> QED BY <1>2, <3>1, CapacityIsNat DEF HoursOn
  <2>2. CASE k \in Overloads(r, hours)
    <3>1. CASE HoursOn(k, r.existing) > base BY <3>1
    <3>2. CASE ~(HoursOn(k, r.existing) > base)
      <4>1. PICK u \in DOMAIN done :
                /\ k \in DOMAIN done[u].load
                /\ \A d \in OpenDays(r, done[u].start) :
                       \E p \in PeopleOf(done[u].load) :
                           Remaining(r, hours, p, d) < Needed(r, u)
        BY <2>2, <3>2 DEF Forced
      <4>2. u \in DOMAIN more /\ more[u] = done[u] BY <1>1
      <4>3. Needed(r, u) \in Int
        <5>1. r.tasks[u].hours \in Nat BY DEF Solves, IsRequest, IsTask
        <5> QED BY <5>1 DEF Needed
      <4>4. ASSUME NEW d \in OpenDays(r, more[u].start)
            PROVE  \E p \in PeopleOf(more[u].load) : Remaining(r, sum, p, d) < Needed(r, u)
        <5>1. PICK p \in PeopleOf(done[u].load) : Remaining(r, hours, p, d) < Needed(r, u)
          BY <4>1, <4>2
        <5>2. /\ Remaining(r, hours, p, d) \in Int
              /\ Remaining(r, sum, p, d) <= Remaining(r, hours, p, d)
              /\ Remaining(r, sum, p, d) \in Int
          <6>1. HoursOn(<<p, d>>, load) \in Nat BY <1>4
          <6> QED BY <1>6, <6>1
        <5>3. Remaining(r, sum, p, d) < Needed(r, u) BY <4>3, <5>1, <5>2
        <5> QED BY <4>2, <5>1, <5>3
      <4> QED BY <4>1, <4>2, <4>4
    <3> QED BY <3>1, <3>2
  <2>3. CASE k \notin Overloads(r, hours)
    <3>1. HoursOn(k, hours) <= base
      <4>1. CASE k \in DOMAIN hours
        <5>1. ~(hours[k] > base) BY <2>3, <4>1 DEF Overloads, BagToSet
        <5>2. HoursOn(k, hours) = hours[k] BY <4>1 DEF HoursOn
        <5> QED BY <1>4, <2>1, <5>1, <5>2
      <4>2. CASE k \notin DOMAIN hours BY <2>1, <4>2 DEF HoursOn
      <4> QED BY <4>1, <4>2
    <3>2. HoursOn(k, sum) = HoursOn(k, hours) + HoursOn(k, load) BY <1>3
    <3>3. HoursOn(k, load) > 0 BY <1>4, <2>1, <3>1, <3>2
    <3>4. k \in DOMAIN load /\ HoursOn(k, load) = load[k] BY <3>3 DEF HoursOn
    <3>5. ~(HoursOn(k, hours) + load[k] <= base) BY <1>4, <2>1, <3>2, <3>4
    <3>6. \A d \in OpenDays(r, place.start) : \E p \in PeopleOf(load) :
              Remaining(r, hours, p, d) - HoursOn(<<p, d>>, load) < Needed(r, t)
      BY <1>5, <3>4, <3>5 DEF IsForced
    <3>7. \A d \in OpenDays(r, place.start) : \E p \in PeopleOf(load) :
              Remaining(r, sum, p, d) < Needed(r, t)
      BY <1>6, <3>6
    <3> QED BY <1>1, <3>4, <3>7
  <2> QED BY <2>2, <2>3
<1>8. Forced(r, more, sum) BY <1>7 DEF Forced
<1> QED BY <1>8 DEF more, sum

-----------------------------------------------------------------------------
(* The requests                                                            *)

LEMMA InstantiateIsRequest ==
    ASSUME NEW pr, NEW template \in Templates, NEW r, Team # <<>>,
           r.team = Team, r.tasks = Instantiate(pr, template), r.start \in Nat,
           DOMAIN r.overrides = {}
    PROVE  IsRequest(r) /\ \A t \in DOMAIN r.tasks : t[1] = pr
<1> DEFINE tasks == Instantiate(pr, template)
           after(t) == {[l EXCEPT !.on = <<pr, l.on>>] : l \in template[t[2]].after}
<1>1. DOMAIN tasks = {pr} \X DOMAIN template BY DEF Instantiate
<1>2. IsFiniteSet({pr} \X DOMAIN template)
  <2>1. IsFiniteSet(DOMAIN template) BY TemplatesAssumption
  <2> QED BY <2>1, FS_Singleton, FS_Product
<1>3. ASSUME NEW t \in {pr} \X DOMAIN template PROVE IsTask(tasks[t])
  <2> DEFINE task == template[t[2]]
  <2>1. t[2] \in DOMAIN template OBVIOUS
  <2>2. /\ task = [hours |-> task.hours, allowed |-> task.allowed,
                   splittable |-> task.splittable, pair |-> task.pair,
                   window |-> task.window, after |-> task.after]
        /\ task.hours \in Nat \ {0} /\ task.allowed \in Seq(DOMAIN Capacity)
        /\ IsInjective(task.allowed)
        /\ {task.splittable, task.pair, task.window} \subseteq BOOLEAN
        /\ IsFiniteSet(task.after)
        /\ \A l \in task.after : l = [on |-> l.on, link |-> l.link, lag |-> l.lag] /\ l.lag \in Int
    BY <2>1, TemplatesAssumption
  <2>3. tasks[t] = [task EXCEPT !.after = after(t)] BY DEF Instantiate
  <2>4. IsFiniteSet(after(t)) /\ \A l \in after(t) : l.lag \in Int
    <3> DEFINE A == task.after
               f == [l \in A |-> [l EXCEPT !.on = <<pr, l.on>>]]
    <3>1. {f[l] : l \in A} = after(t) OBVIOUS
    <3>2. IsFiniteSet({f[l] : l \in A})
      <4>1. IsFiniteSet(A) BY <2>2
      <4> HIDE DEF f, A
      <4> QED BY <4>1, ImageIsFinite
    <3>3. \A l \in A : f[l].lag = l.lag
      <4> SUFFICES ASSUME NEW l \in A PROVE f[l].lag = l.lag OBVIOUS
      <4>1. l = [on |-> l.on, link |-> l.link, lag |-> l.lag] BY <2>2
      <4> QED BY <4>1
    <3>4. \A l \in A : l.lag \in Int BY <2>2
    <3> HIDE DEF f
    <3> QED BY <3>1, <3>2, <3>3, <3>4
  <2> HIDE DEF task, after, tasks
  <2>5. /\ tasks[t].hours = task.hours /\ tasks[t].allowed = task.allowed
        /\ tasks[t].splittable = task.splittable /\ tasks[t].pair = task.pair
        /\ tasks[t].window = task.window /\ tasks[t].after = after(t)
    BY <2>2, <2>3
  <2> QED BY <2>2, <2>4, <2>5 DEF IsTask
<1>4. \A t \in DOMAIN tasks : t[1] = pr BY <1>1
<1>5. Team \in Seq(DOMAIN Capacity) /\ IsInjective(Team) BY BookingAssumption
<1>6. \A t \in DOMAIN tasks : IsTask(tasks[t]) BY <1>1, <1>3
<1>7. IsFiniteSet(DOMAIN tasks) BY <1>1, <1>2
<1> HIDE DEF tasks
<1>8. r.tasks = tasks BY DEF tasks
<1> QED BY <1>4, <1>5, <1>6, <1>7, <1>8 DEF IsRequest

-----------------------------------------------------------------------------
(* The invariant                                                           *)

Places(pr, places) ==
    /\ IsFiniteSet(DOMAIN places)
    /\ \A t \in DOMAIN places : t[1] = pr /\ PlaceFits(places[t])

PlanIsWhole(pr, plan) ==
    /\ plan = [status |-> plan.status, placed |-> plan.placed, rows |-> plan.rows,
               risks |-> plan.risks, late |-> plan.late, told |-> plan.told,
               known |-> plan.known]
    /\ plan.status \in {"proposed", "committed"}
    /\ Places(pr, plan.placed)

StoredInv ==
    /\ today \in FirstDay..LastDay
    /\ Stored \subseteq Projects /\ IsFiniteSet(Stored)
    /\ plans = [pr \in Stored |-> plans[pr]]
    /\ \A pr \in Stored : PlanIsWhole(pr, plans[pr])

DaysInv == \A k \in DOMAIN overrides : overrides[k] \in 0..MaxCapacityH

ReadInv ==
    read # None =>
        /\ IsFiniteSet(DOMAIN read)
        /\ \A pr \in DOMAIN read : Places(pr, read[pr])

JobInv ==
    /\ job = NoJob => placed = <<>> /\ used = EmptyBag
    /\ job # NoJob =>
           /\ Solves(job.request, placed, used)
           /\ Linked(job.request, placed)
           /\ Forced(job.request, placed, used)
           /\ job.kind \in {"add", "replan"}
           /\ job.kind = "add" =>
                  /\ job.project \in Projects \ Stored
                  /\ job.request.existing = BookedBy(Committed)
                  /\ DOMAIN job.request.overrides = {}
                  /\ \A t \in DOMAIN job.request.tasks : t[1] = job.project
           /\ job.kind = "replan" =>
                  /\ read # None
                  /\ job.request.tasks = Reconstructed
                  /\ job.request.existing = EmptyBag
                  /\ job.request.overrides = overrides

Inv == StoredInv /\ DaysInv /\ ReadInv /\ JobInv

LEMMA PlacesAreLoads ==
    ASSUME NEW pr, NEW places, Places(pr, places)
    PROVE  /\ AreLoads([t \in DOMAIN places |-> places[t].load])
           /\ IsLoad(Booked(places))
BY BookedIsLoad DEF Places, PlaceFits

LEMMA PlansAreLoads ==
    ASSUME StoredInv, NEW prs \in SUBSET Stored
    PROVE  /\ AreLoads([pr \in prs |-> Booked(plans[pr].placed)])
           /\ IsLoad(BookedBy(prs))
<1> DEFINE loads == [pr \in prs |-> Booked(plans[pr].placed)]
<1>1. IsFiniteSet(prs) BY FS_Subset DEF StoredInv
<1>2. \A pr \in prs : IsLoad(Booked(plans[pr].placed))
  BY PlacesAreLoads DEF StoredInv, PlanIsWhole
<1>3. AreLoads(loads) BY <1>1, <1>2 DEF AreLoads
<1> HIDE DEF loads
<1>4. IsLoad(Total(loads)) BY <1>3, TotalIsLoad
<1> QED BY <1>3, <1>4 DEF loads, BookedBy

LEMMA ReconstructedAreTasks ==
    ASSUME ReadInv, read # None
    PROVE  /\ IsFiniteSet(DOMAIN Reconstructed)
           /\ \A t \in DOMAIN Reconstructed : IsTask(Reconstructed[t])
<1> DEFINE each == [pr \in DOMAIN read |-> DOMAIN read[pr]]
           entries == UNION {DOMAIN read[pr] : pr \in DOMAIN read}
           entry(t) == read[t[1]][t]
           worked == {u \in entries : HoursOf(entry(u)) > 0}
<1>1. IsFiniteSet(DOMAIN read) /\ \A pr \in DOMAIN read : Places(pr, read[pr])
  BY DEF ReadInv
<1>2. IsFiniteSet(entries)
  <2>1. {each[pr] : pr \in DOMAIN read} = {DOMAIN read[pr] : pr \in DOMAIN read} OBVIOUS
  <2>2. IsFiniteSet({each[pr] : pr \in DOMAIN read})
    <3> HIDE DEF each
    <3> QED BY <1>1, ImageIsFinite
  <2>3. \A S \in {DOMAIN read[pr] : pr \in DOMAIN read} : IsFiniteSet(S)
    BY <1>1 DEF Places
  <2> QED BY <2>1, <2>2, <2>3, FS_UNION
<1>3. \A t \in entries : PlaceFits(entry(t))
  <2> SUFFICES ASSUME NEW pr \in DOMAIN read, NEW t \in DOMAIN read[pr]
               PROVE  PlaceFits(entry(t))
    OBVIOUS
  <2> QED BY <1>1 DEF Places
<1>4. Reconstructed = [t \in worked |->
          [hours |-> HoursOf(entry(t)), allowed |-> <<entry(t).person>>,
           splittable |-> FALSE, pair |-> FALSE, window |-> FALSE, after |-> {}]]
  BY DEF Reconstructed
<1>5. IsFiniteSet(worked)
  <2> HIDE DEF entries, entry
  <2> QED BY <1>2, FS_Subset
<1>6. ASSUME NEW t \in worked PROVE IsTask(Reconstructed[t])
  <2> DEFINE place == entry(t)
  <2>1. t \in entries /\ HoursOf(place) > 0 OBVIOUS
  <2>2. PlaceFits(place) BY <1>3, <2>1
  <2>3. Reconstructed[t] = [hours |-> HoursOf(place), allowed |-> <<place.person>>,
           splittable |-> FALSE, pair |-> FALSE, window |-> FALSE, after |-> {}]
    BY <1>4
  <2> HIDE DEF place, entries, worked
  <2>4. HoursOf(place) \in Nat \ {0}
    <3>1. IsLoad(place.load) /\ IsFiniteSet(DOMAIN place.load) BY <2>2 DEF PlaceFits, IsLoad
    <3>2. SumFunction(place.load) \in Nat BY <3>1, AllHours
    <3> QED BY <2>1, <3>2 DEF HoursOf
  <2>5. <<place.person>> \in Seq(DOMAIN Capacity) /\ IsInjective(<<place.person>>)
    <3>1. place.person \in DOMAIN Capacity BY <2>2 DEF PlaceFits
    <3>2. DOMAIN <<place.person>> = {1} OBVIOUS
    <3> QED BY <3>1, <3>2 DEF IsInjective
  <2> QED BY <2>3, <2>4, <2>5, FS_EmptySet DEF IsTask
<1>7. DOMAIN Reconstructed = worked BY <1>4
<1> HIDE DEF worked
<1> QED BY <1>5, <1>6, <1>7

-----------------------------------------------------------------------------
(* Steps                                                                   *)

LEMMA StoredStays == StoredInv /\ UNCHANGED <<today, plans>> => StoredInv'
  BY DEF StoredInv, Stored, PlanIsWhole, Places, PlaceFits

LEMMA DaysStay == DaysInv /\ UNCHANGED <<overrides, leave>> => DaysInv'
  BY DEF DaysInv, NoLeave

LEMMA ReadStays == ReadInv /\ UNCHANGED read => ReadInv'
  BY DEF ReadInv, Places, PlaceFits

LEMMA JobIdles ==
    JobInv /\ job = NoJob /\ UNCHANGED <<job, placed, used>> => JobInv'
  BY DEF JobInv, NoJob

(* A request is taken up.                                                  *)
LEMMA JobBegins ==
    ASSUME NEW r, IsRequest(r), IsLoad(r.existing), NEW kind, NEW pr,
           job' = [kind |-> kind, project |-> pr, request |-> r],
           placed' = <<>>, used' = r.existing
    PROVE  /\ job' # NoJob \/ kind = "none"
           /\ job'.request = r /\ job'.kind = kind /\ job'.project = pr
           /\ Solves(r, placed', used') /\ Linked(r, placed') /\ Forced(r, placed', used')
<1>1. DOMAIN placed' = {} OBVIOUS
<1>2. Solves(r, placed', r.existing) /\ Linked(r, placed') /\ Forced(r, placed', r.existing)
  <2> DEFINE none == placed'
  <2>1. DOMAIN none = {} BY <1>1
  <2> HIDE DEF none
  <2>2. Solves(r, none, r.existing) /\ Linked(r, none) /\ Forced(r, none, r.existing)
    BY <2>1, SolvesAtFirst
  <2> QED BY <2>2 DEF none
<1>3. job' # NoJob \/ kind = "none"
  <2>1. job' = NoJob => job'.kind = "none" BY DEF NoJob
  <2>2. job'.kind = kind OBVIOUS
  <2> QED BY <2>1, <2>2
<1> QED BY <1>2, <1>3

LEMMA AddProjectSteps ==
    ASSUME Inv, NEW pr \in Projects, NEW template \in Templates, NEW deadline,
           AddProject(pr, template, deadline)
    PROVE  JobInv'
<1> DEFINE r == [team |-> Team, tasks |-> Instantiate(pr, template), start |-> today,
                 deadline |-> deadline, overrides |-> <<>>, existing |-> BookedBy(Committed)]
<1>1. /\ pr \notin Stored /\ Team # <<>>
      /\ job' = [kind |-> "add", project |-> pr, request |-> r]
      /\ placed' = <<>> /\ used' = r.existing
      /\ UNCHANGED <<plans, read, overrides>>
  BY DEF AddProject, Begin
<1>2. today \in Nat BY BookingAssumption DEF Inv, StoredInv
<1>3. /\ r.team = Team /\ r.tasks = Instantiate(pr, template) /\ r.start = today
      /\ r.overrides = <<>> /\ DOMAIN <<>> = {} /\ r.existing = BookedBy(Committed)
  OBVIOUS
<1>4. IsLoad(BookedBy(Committed)) BY PlansAreLoads DEF Inv, Committed
<1> HIDE DEF r
<1>5. DOMAIN r.overrides = {} BY <1>3
<1>6. IsRequest(r) /\ \A t \in DOMAIN r.tasks : t[1] = pr
  BY <1>1, <1>2, <1>3, <1>5, InstantiateIsRequest
<1>7. IsLoad(r.existing) BY <1>3, <1>4
<1>8. /\ job' # NoJob /\ job'.request = r /\ job'.kind = "add" /\ job'.project = pr
      /\ Solves(r, placed', used') /\ Linked(r, placed') /\ Forced(r, placed', used')
  BY <1>1, <1>6, <1>7, JobBegins
<1>9. pr \in (Projects \ Stored)' /\ BookedBy(Committed)' = BookedBy(Committed)
  BY <1>1 DEF Stored, Committed, BookedBy
<1>10. job'.request.existing = BookedBy(Committed)' BY <1>3, <1>8, <1>9
<1> QED BY <1>5, <1>6, <1>8, <1>9, <1>10 DEF JobInv, NoJob

LEMMA SolveAgainSteps ==
    ASSUME Inv, SolveAgain
    PROVE  JobInv' /\ ReadInv'
<1> DEFINE r == [team |-> Team, tasks |-> Reconstructed, start |-> today,
                 deadline |-> NoDay, overrides |-> overrides, existing |-> EmptyBag]
<1>1. CASE DOMAIN Reconstructed = {}
  <2>1. read' = None /\ job = NoJob /\ UNCHANGED <<job, placed, used>>
    BY <1>1 DEF SolveAgain
  <2> QED BY <2>1, JobIdles DEF Inv, ReadInv
<1>2. CASE DOMAIN Reconstructed # {}
  <2>1. /\ read # None /\ Team # <<>>
        /\ job' = [kind |-> "replan", project |-> None, request |-> r]
        /\ placed' = <<>> /\ used' = r.existing
        /\ UNCHANGED <<plans, read, overrides>>
    BY <1>2 DEF SolveAgain, Begin
  <2>2. today \in Nat BY BookingAssumption DEF Inv, StoredInv
  <2>3. /\ r.team = Team /\ r.tasks = Reconstructed /\ r.start = today
        /\ r.overrides = overrides /\ r.existing = EmptyBag
    OBVIOUS
  <2>4. /\ IsFiniteSet(DOMAIN Reconstructed)
        /\ \A t \in DOMAIN Reconstructed : IsTask(Reconstructed[t])
    BY <2>1, ReconstructedAreTasks DEF Inv
  <2>5. \A k \in DOMAIN overrides : overrides[k] \in Nat
    BY DEF Inv, DaysInv, MaxCapacityH
  <2>6. Team \in Seq(DOMAIN Capacity) /\ IsInjective(Team) BY BookingAssumption
  <2> HIDE DEF r
  <2>7. IsRequest(r) BY <2>1, <2>2, <2>3, <2>4, <2>5, <2>6 DEF IsRequest
  <2>8. IsLoad(EmptyBag)
    <3>1. DOMAIN EmptyBag = {} /\ IsABag(EmptyBag) BY DEF EmptyBag, SetToBag, IsABag
    <3> QED BY <3>1, FS_EmptySet DEF IsLoad
  <2>9. /\ job' # NoJob /\ job'.request = r /\ job'.kind = "replan"
        /\ Solves(r, placed', used') /\ Linked(r, placed') /\ Forced(r, placed', used')
    BY <2>1, <2>3, <2>7, <2>8, JobBegins
  <2>10. Reconstructed' = Reconstructed BY <2>1 DEF Reconstructed
  <2>11. JobInv' BY <2>1, <2>3, <2>9, <2>10 DEF JobInv, NoJob
  <2> QED BY <2>1, <2>11, ReadStays DEF Inv
<1> QED BY <1>1, <1>2

LEMMA PlaceSteps ==
    ASSUME JobInv, NEW t, Place(t)
    PROVE  JobInv'
<1> DEFINE r == job.request
           place == PlaceTask(r, used, placed, t)
<1>1. /\ job # NoJob /\ t \in DOMAIN r.tasks /\ t \notin DOMAIN placed
      /\ Before(r, t) \subseteq DOMAIN placed
      /\ placed' = Put(placed, t, place) /\ used' = used (+) place.load
      /\ UNCHANGED <<plans, job, read, overrides>>
  BY DEF Place, Unplaced
<1>2. Solves(r, placed, used) /\ Linked(r, placed) /\ Forced(r, placed, used)
  BY <1>1 DEF JobInv
<1>3. /\ IsRight(r, used, t, place, EarliestStart(r, placed, t)) /\ IsLoad(place.load)
      /\ Solves(r, Put(placed, t, place), used (+) place.load)
  BY <1>1, <1>2, SolvesOn
<1> HIDE DEF r, place
<1>4. Linked(r, Put(placed, t, place)) BY <1>1, <1>2, <1>3, LinkedOn
<1>5. Forced(r, Put(placed, t, place), used (+) place.load) BY <1>1, <1>2, <1>3, ForcedOn
<1>6. Solves(r, placed', used') /\ Linked(r, placed') /\ Forced(r, placed', used')
  BY <1>1, <1>3, <1>4, <1>5
<1>7. /\ Stored' = Stored /\ BookedBy(Committed)' = BookedBy(Committed)
      /\ Reconstructed' = Reconstructed
  BY <1>1 DEF Stored, Committed, BookedBy, Reconstructed
<1>8. job'.request = r BY <1>1 DEF r
<1> QED BY <1>1, <1>6, <1>7, <1>8 DEF JobInv, NoJob, r

LEMMA SaveProposalSteps ==
    ASSUME Inv, SaveProposal
    PROVE  StoredInv' /\ JobInv'
<1> DEFINE pr == job.project
           plan == [status |-> "proposed", placed |-> placed,
                    rows |-> SavedRows(job.request, placed),
                    risks |-> Overloads(job.request, used),
                    late |-> DeadlineMissed(job.request, placed),
                    told |-> IF job.request.deadline = NoDay
                             THEN PresentedEarliestEnd(job.request) ELSE NoDay,
                    known |-> Committed]
<1>1. /\ job # NoJob /\ job.kind = "add" /\ plans' = Put(plans, pr, plan)
      /\ job' = NoJob /\ placed' = <<>> /\ used' = EmptyBag /\ today' = today
  BY DEF SaveProposal, Solved
<1>2. JobInv' BY <1>1 DEF JobInv
<1>3. /\ Solves(job.request, placed, used) /\ pr \in Projects \ Stored
      /\ \A t \in DOMAIN job.request.tasks : t[1] = pr
  BY <1>1 DEF Inv, JobInv
<1>4. Places(pr, placed)
  <2>1. IsFiniteSet(DOMAIN placed) BY <1>3, SolvesIsLoad
  <2>2. \A t \in DOMAIN placed : PlaceFits(placed[t]) /\ t \in DOMAIN job.request.tasks
    BY <1>3 DEF Solves
  <2> QED BY <1>3, <2>1, <2>2 DEF Places
<1>5. PlanIsWhole(pr, plan) BY <1>4 DEF PlanIsWhole
<1> HIDE DEF plan, pr
<1>6. /\ Stored' = Stored \cup {pr} /\ plans' = [x \in Stored' |-> plans'[x]]
      /\ plans'[pr] = plan /\ \A x \in Stored : plans'[x] = plans[x]
  BY <1>1, <1>3 DEF Put, Stored
<1>7. IsFiniteSet(Stored') /\ Stored' \subseteq Projects
  <2>1. IsFiniteSet(Stored) /\ Stored \subseteq Projects BY DEF Inv, StoredInv
  <2>2. IsFiniteSet(Stored \cup {pr}) BY <2>1, FS_AddElement
  <2> QED BY <1>3, <1>6, <2>1, <2>2
<1>8. ASSUME NEW x \in Stored' PROVE PlanIsWhole(x, plans'[x])
  <2>1. CASE x = pr BY <1>5, <1>6, <2>1
  <2>2. CASE x # pr
    <3>1. x \in Stored /\ plans'[x] = plans[x] BY <1>6, <2>2
    <3> QED BY <3>1 DEF Inv, StoredInv
  <2> QED BY <2>1, <2>2
<1>9. StoredInv'
  <2>1. today' \in FirstDay..LastDay BY <1>1 DEF Inv, StoredInv
  <2>2. \A x \in Stored' : PlanIsWhole(x, plans[x])' 
    BY <1>8 DEF PlanIsWhole, Places, PlaceFits
  <2> QED BY <1>6, <1>7, <2>1, <2>2 DEF StoredInv
<1> QED BY <1>2, <1>9

LEMMA ConfirmSteps ==
    ASSUME StoredInv, NEW pr, Confirm(pr)
    PROVE  /\ StoredInv'
           /\ Stored' = Stored /\ Committed' = Committed \cup {pr}
           /\ \A x \in Stored : /\ plans'[x].placed = plans[x].placed
                                /\ plans'[x].known = plans[x].known
                                /\ plans'[x].risks = plans[x].risks
<1> DEFINE plan == [plans[pr] EXCEPT !.status = "committed"]
<1>1. /\ pr \in Stored /\ plans' = [plans EXCEPT ![pr].status = "committed"]
      /\ today' = today
  BY DEF Confirm
<1>2. /\ Stored' = Stored /\ plans' = [x \in Stored' |-> plans'[x]]
      /\ plans'[pr] = plan /\ \A x \in Stored \ {pr} : plans'[x] = plans[x]
  BY <1>1 DEF Stored
<1>3. /\ PlanIsWhole(pr, plans[pr])
      /\ \A x \in Stored : PlanIsWhole(x, plans[x])
  BY <1>1 DEF StoredInv
<1>4. /\ plan.status = "committed" /\ plan.placed = plans[pr].placed
      /\ plan.known = plans[pr].known /\ plan.risks = plans[pr].risks
      /\ PlanIsWhole(pr, plan)
  BY <1>3 DEF PlanIsWhole
<1> HIDE DEF plan
<1>5. \A x \in Stored' : PlanIsWhole(x, plans'[x])
  <2> SUFFICES ASSUME NEW x \in Stored' PROVE PlanIsWhole(x, plans'[x]) OBVIOUS
  <2>1. CASE x = pr BY <1>2, <1>4, <2>1
  <2>2. CASE x # pr BY <1>2, <1>3, <2>2
  <2> QED BY <2>1, <2>2
<1>6. StoredInv'
  <2>1. /\ today' \in FirstDay..LastDay /\ Stored' \subseteq Projects
        /\ IsFiniteSet(Stored')
    BY <1>1, <1>2 DEF StoredInv
  <2>2. \A x \in Stored' : PlanIsWhole(x, plans[x])'
    BY <1>5 DEF PlanIsWhole, Places, PlaceFits
  <2> QED BY <1>2, <2>1, <2>2 DEF StoredInv
<1>7. \A x \in Stored : /\ plans'[x].placed = plans[x].placed
                        /\ plans'[x].known = plans[x].known
                        /\ plans'[x].risks = plans[x].risks
                        /\ x # pr => plans'[x].status = plans[x].status
  <2> SUFFICES ASSUME NEW x \in Stored
               PROVE  /\ plans'[x].placed = plans[x].placed
                      /\ plans'[x].known = plans[x].known
                      /\ plans'[x].risks = plans[x].risks
                      /\ x # pr => plans'[x].status = plans[x].status
    OBVIOUS
  <2>1. CASE x = pr BY <1>2, <1>4, <2>1
  <2>2. CASE x # pr BY <1>2, <2>2
  <2> QED BY <2>1, <2>2
<1>8. Committed' = Committed \cup {pr}
  <2>1. plans'[pr].status = "committed" BY <1>2, <1>4
  <2> QED BY <1>1, <1>2, <1>7, <2>1 DEF Committed
<1> QED BY <1>2, <1>6, <1>7, <1>8

-----------------------------------------------------------------------------
(* Vacations                                                               *)

(* Day e of vacation v is in the table, with the hours of v or of one of   *)
(* the others that has this day of the same person.                        *)
Held(table, v, others, e) ==
    /\ <<v.person, e>> \in DOMAIN table
    /\ \E u \in {v} \cup others :
           u.person = v.person /\ e \in u.from..u.to /\ table[<<v.person, e>>] = u.hours

UpTo(table, v, others, d) ==
    \A e \in Nat : v.from <= e /\ e < d => Held(table, v, others, e)

(* What a handler that enters l keeps: the days before the next one are    *)
(* held; if it read a row for the next one, the row is as it was read, or  *)
(* another vacation wrote it.                                              *)
Running(l, table) ==
    /\ l = [what |-> l.what, next |-> l.next, had |-> l.had, step |-> l.step,
            others |-> l.others]
    /\ l.what \in Leaves /\ l.what.hours \in 0..MaxCapacityH
    /\ l.next \in Nat /\ l.what.from <= l.next
    /\ l.step = "put" => l.next <= l.what.to
    /\ UpTo(table, l.what, l.others, l.next)
    /\ l.step = "put" /\ l.had # NoDay =>
           /\ <<l.what.person, l.next>> \in DOMAIN table
           /\ \/ table[<<l.what.person, l.next>>] = l.had
              \/ Held(table, l.what, l.others, l.next)

Whole(r, table) ==
    /\ r = [what |-> r.what, others |-> r.others]
    /\ r.what \in Leaves /\ UpTo(table, r.what, r.others, r.what.to + 1)

(* Handlers that run at the same time know of each other, and what was     *)
(* reported knows of those that run.                                       *)
LeaveInv ==
    /\ leave = [c \in Clerks |-> leave[c]]
    /\ \A c \in Clerks : leave[c] # NoLeave => Running(leave[c], overrides)
    /\ \A c, e \in Clerks :
           c # e /\ leave[c] # NoLeave /\ leave[e] # NoLeave
               => leave[e].what \in leave[c].others
    /\ entered # NoLeave =>
           /\ Whole(entered, overrides)
           /\ \A c \in Clerks :
                  leave[c] # NoLeave => leave[c].what \in entered.others

vacations == <<overrides, leave, entered>>

VacationStep ==
    \/ \E c \in Clerks, v \in Leaves : AskVacation(c, v)
    \/ \E c \in Clerks : GetDay(c)
    \/ \E c \in Clerks : PutDay(c)
    \/ \E c \in Clerks : AuditVacation(c)
    \/ \E c \in Clerks : CutVacation(c)

(* A step that touches no vacation keeps the invariant, and entering one   *)
(* touches nothing else and never happens while the solver runs.           *)
LEMMA Elsewhere == LeaveInv /\ UNCHANGED vacations => LeaveInv'
  BY DEF LeaveInv, vacations, Running, Whole, UpTo, Held, NoLeave

LEMMA VacationApart ==
    VacationStep => job = NoJob /\ UNCHANGED <<today, plans, job, placed, used, read>>
  BY DEF VacationStep, AskVacation, BeginLeave, GetDay, PutDay, AuditVacation, CutVacation

(* A day stays held while others join, and when one of the vacations that  *)
(* may hold it writes one of its own days.                                 *)
LEMMA MoreHold ==
    ASSUME NEW table, NEW v, NEW others, NEW more, others \subseteq more, NEW e,
           Held(table, v, others, e)
    PROVE  Held(table, v, more, e)
BY DEF Held

LEMMA WriteHolds ==
    ASSUME NEW table, NEW v, NEW others, NEW e, Held(table, v, others, e),
           NEW u \in {v} \cup others, NEW d \in u.from..u.to
    PROVE  Held(Put(table, <<u.person, d>>, u.hours), v, others, e)
<1> DEFINE key == <<u.person, d>>
           new == Put(table, key, u.hours)
<1> SUFFICES Held(new, v, others, e) OBVIOUS
<1>1. DOMAIN new = DOMAIN table \cup {key} BY DEF Put
<1>2. \A k \in DOMAIN new : new[k] = IF k = key THEN u.hours ELSE table[k] BY DEF Put
<1>3. <<v.person, e>> \in DOMAIN new BY <1>1 DEF Held
<1>4. CASE <<v.person, e>> = key
  <2>1. v.person = u.person /\ e = d BY <1>4
  <2>2. new[<<v.person, e>>] = u.hours BY <1>2, <1>3, <1>4
  <2> HIDE DEF new
  <2> QED BY <1>3, <2>1, <2>2 DEF Held
<1>5. CASE <<v.person, e>> # key
  <2>1. new[<<v.person, e>>] = table[<<v.person, e>>] BY <1>2, <1>3, <1>5
  <2> HIDE DEF new
  <2> QED BY <1>3, <2>1 DEF Held
<1> HIDE DEF new
<1> QED BY <1>4, <1>5

(* So does all that a running handler keeps, and what was reported.        *)
LEMMA MoreRun ==
    ASSUME NEW l, NEW table, Running(l, table), NEW v
    PROVE  Running([l EXCEPT !.others = @ \cup {v}], table)
<1> DEFINE m == [l EXCEPT !.others = @ \cup {v}]
<1>1. l = [what |-> l.what, next |-> l.next, had |-> l.had, step |-> l.step,
           others |-> l.others]
  BY DEF Running
<1>2. m = [what |-> l.what, next |-> l.next, had |-> l.had, step |-> l.step,
           others |-> l.others \cup {v}]
  BY <1>1
<1>3. /\ m.what = l.what /\ m.next = l.next /\ m.had = l.had /\ m.step = l.step
      /\ m.others = l.others \cup {v} /\ l.others \subseteq m.others
  BY <1>2
<1>4. m = [what |-> m.what, next |-> m.next, had |-> m.had, step |-> m.step,
           others |-> m.others]
  BY <1>2
<1> HIDE DEF m
<1>5. UpTo(table, m.what, m.others, m.next)
  BY <1>3, MoreHold DEF Running, UpTo
<1>6. Held(table, l.what, l.others, l.next) => Held(table, m.what, m.others, m.next)
  BY <1>3, MoreHold
<1>7. Running(m, table) BY <1>3, <1>4, <1>5, <1>6 DEF Running
<1> QED BY <1>7 DEF m

LEMMA WriteRuns ==
    ASSUME NEW l, NEW table, Running(l, table),
           NEW u \in {l.what} \cup l.others, NEW d \in u.from..u.to
    PROVE  Running(l, Put(table, <<u.person, d>>, u.hours))
<1> DEFINE new == Put(table, <<u.person, d>>, u.hours)
           key == <<l.what.person, l.next>>
<1>1. UpTo(new, l.what, l.others, l.next) BY WriteHolds DEF Running, UpTo
<1>2. ASSUME l.step = "put", l.had # NoDay
      PROVE  /\ key \in DOMAIN new
             /\ new[key] = l.had \/ Held(new, l.what, l.others, l.next)
  <2>1. key \in DOMAIN table BY <1>2 DEF Running
  <2>2. DOMAIN new = DOMAIN table \cup {<<u.person, d>>} BY DEF Put
  <2>3. CASE Held(table, l.what, l.others, l.next) BY <2>1, <2>2, <2>3, WriteHolds
  <2>4. CASE table[key] = l.had
    <3>1. CASE key = <<u.person, d>>
      <4>1. new[key] = u.hours BY <2>2, <3>1 DEF Put
      <4>2. l.what.person = u.person /\ l.next = d BY <3>1
      <4>3. Held(new, l.what, l.others, l.next)
        <5> HIDE DEF new
        <5> QED BY <2>1, <2>2, <4>1, <4>2 DEF Held
      <4> QED BY <2>1, <2>2, <4>3
    <3>2. CASE key # <<u.person, d>>
      <4>1. new[key] = l.had BY <2>1, <2>4, <3>2 DEF Put
      <4> QED BY <2>1, <2>2, <4>1
    <3> QED BY <3>1, <3>2
  <2> QED BY <1>2, <2>3, <2>4 DEF Running
<1> HIDE DEF new
<1> QED BY <1>1, <1>2 DEF Running, new

LEMMA WriteStaysWhole ==
    ASSUME NEW r, NEW table, Whole(r, table),
           NEW u \in {r.what} \cup r.others, NEW d \in u.from..u.to
    PROVE  Whole(r, Put(table, <<u.person, d>>, u.hours))
BY WriteHolds DEF Whole, UpTo

LEMMA BeginLeaves == ASSUME LeaveInv, NEW c \in Clerks, NEW v \in Leaves, AskVacation(c, v)
                     PROVE  LeaveInv'
<1> DEFINE l == [what |-> v, next |-> v.from, had |-> NoDay, step |-> "get",
                 others |-> UnderWay]
           more(e) == [leave[e] EXCEPT !.others = @ \cup {v}]
<1>1. /\ leave[c] = NoLeave /\ overrides' = overrides
      /\ leave' = [e \in Clerks |-> IF e = c THEN l
                                    ELSE IF leave[e] = NoLeave THEN NoLeave ELSE more(e)]
      /\ entered' = IF entered = NoLeave THEN NoLeave
                    ELSE [entered EXCEPT !.others = @ \cup {v}]
      /\ v.hours \in 0..MaxCapacityH
  BY DEF AskVacation, BeginLeave
<1>2. Running(l, overrides)
  <2>1. v.from \in Nat BY BookingAssumption
  <2>2. UpTo(overrides, v, UnderWay, v.from)
    <3>1. \A e \in Nat : ~(v.from <= e /\ e < v.from) BY <2>1
    <3> QED BY <3>1 DEF UpTo
  <2> QED BY <1>1, <2>1, <2>2 DEF Running
<1>3. l # NoLeave /\ l.what = v /\ l.others = UnderWay
  <2>1. v # None BY BookingAssumption
  <2>2. l.what # NoLeave.what BY <2>1 DEF NoLeave
  <2> QED BY <2>2
<1>4. ASSUME NEW e \in Clerks, leave[e] # NoLeave
      PROVE  /\ more(e) # NoLeave /\ more(e).what = leave[e].what
             /\ more(e).others = leave[e].others \cup {v}
             /\ Running(more(e), overrides) /\ leave[e].what \in UnderWay
  <2>1. Running(leave[e], overrides) BY <1>4 DEF LeaveInv
  <2>2. Running(more(e), overrides) BY <2>1, MoreRun
  <2>3. leave[e] = [what |-> leave[e].what, next |-> leave[e].next, had |-> leave[e].had,
                    step |-> leave[e].step, others |-> leave[e].others]
    BY <2>1 DEF Running
  <2>4. more(e).what = leave[e].what /\ more(e).others = leave[e].others \cup {v}
    BY <2>3
  <2>5. leave[e].what # None BY <2>1, BookingAssumption DEF Running
  <2>6. leave[e].what \in UnderWay BY <2>5 DEF UnderWay
  <2>7. more(e) # NoLeave BY <2>4, <2>5 DEF NoLeave
  <2> QED BY <2>2, <2>4, <2>6, <2>7
<1> HIDE DEF l, more
<1>5. /\ leave' = [e \in Clerks |-> leave'[e]]
      /\ \A e \in Clerks : leave'[e] = IF e = c THEN l
                                        ELSE IF leave[e] = NoLeave THEN NoLeave ELSE more(e)
  BY <1>1
<1>6. ASSUME NEW e \in Clerks, leave'[e] # NoLeave PROVE Running(leave'[e], overrides)
  BY <1>2, <1>4, <1>5, <1>6
<1>7. ASSUME NEW d \in Clerks, NEW e \in Clerks, d # e,
             leave'[d] # NoLeave, leave'[e] # NoLeave
      PROVE  leave'[e].what \in leave'[d].others
  <2>1. d # c => leave[d] # NoLeave /\ leave'[d] = more(d) BY <1>5, <1>7
  <2>2. e # c => leave[e] # NoLeave /\ leave'[e] = more(e) BY <1>5, <1>7
  <2>3. CASE d = c
    <3>1. leave'[d].others = UnderWay /\ leave'[e].what = leave[e].what /\ leave[e].what \in UnderWay
      BY <1>3, <1>4, <1>5, <1>7, <2>2, <2>3
    <3> QED BY <3>1
  <2>4. CASE e = c
    <3>1. leave'[e].what = v /\ leave'[d].others = leave[d].others \cup {v}
      BY <1>3, <1>4, <1>5, <1>7, <2>1, <2>4
    <3> QED BY <3>1
  <2>5. CASE d # c /\ e # c
    <3>1. /\ leave'[e].what = leave[e].what
          /\ leave'[d].others = leave[d].others \cup {v}
      BY <1>4, <2>1, <2>2, <2>5
    <3>2. leave[e].what \in leave[d].others BY <1>7, <2>1, <2>2, <2>5 DEF LeaveInv
    <3> QED BY <3>1, <3>2
  <2> QED BY <2>3, <2>4, <2>5
<1>8. ASSUME entered' # NoLeave
      PROVE  /\ Whole(entered', overrides)
             /\ \A e \in Clerks : leave'[e] # NoLeave => leave'[e].what \in entered'.others
  <2>1. entered # NoLeave /\ entered' = [entered EXCEPT !.others = @ \cup {v}]
    BY <1>1, <1>8
  <2>2. Whole(entered, overrides) BY <2>1 DEF LeaveInv
  <2>3. entered' = [what |-> entered.what, others |-> entered.others \cup {v}]
    BY <2>1, <2>2 DEF Whole
  <2>4. entered'.what = entered.what /\ entered'.others = entered.others \cup {v}
    BY <2>3
  <2>5. Whole(entered', overrides) BY <2>2, <2>3, <2>4, MoreHold DEF Whole, UpTo
  <2>6. ASSUME NEW e \in Clerks, leave'[e] # NoLeave
        PROVE  leave'[e].what \in entered'.others
    <3>1. CASE e = c BY <1>3, <1>5, <2>4, <3>1
    <3>2. CASE e # c
      <4>1. leave[e] # NoLeave /\ leave'[e].what = leave[e].what
        BY <1>4, <1>5, <2>6, <3>2
      <4>2. leave[e].what \in entered.others BY <2>1, <4>1 DEF LeaveInv
      <4> QED BY <2>4, <4>1, <4>2
    <3> QED BY <3>1, <3>2
  <2> QED BY <2>5, <2>6
<1> QED BY <1>1, <1>5, <1>6, <1>7, <1>8 DEF LeaveInv

(* A handler goes on with the same vacation.                               *)
LEMMA MovesOn ==
    ASSUME LeaveInv, NEW c \in Clerks, leave[c] # NoLeave, NEW m,
           m.what = leave[c].what, m.others = leave[c].others,
           leave' = [leave EXCEPT ![c] = m], entered' = entered,
           Running(m, overrides'),
           \A e \in Clerks \ {c} : leave[e] # NoLeave => Running(leave[e], overrides'),
           entered # NoLeave => Whole(entered, overrides')
    PROVE  LeaveInv'
<1>1. leave = [e \in Clerks |-> leave[e]] BY DEF LeaveInv
<1>2. /\ leave' = [e \in Clerks |-> leave'[e]]
      /\ \A e \in Clerks : leave'[e] = IF e = c THEN m ELSE leave[e]
  BY <1>1
<1>3. \A e \in Clerks : leave'[e] # NoLeave => Running(leave'[e], overrides')
  BY <1>2
<1>4. \A e \in Clerks : leave'[e] # NoLeave =>
          /\ leave[e] # NoLeave /\ leave'[e].what = leave[e].what
          /\ leave'[e].others = leave[e].others
  BY <1>2
<1>5. \A d, e \in Clerks :
          d # e /\ leave'[d] # NoLeave /\ leave'[e] # NoLeave
              => leave'[e].what \in leave'[d].others
  <2> SUFFICES ASSUME NEW d \in Clerks, NEW e \in Clerks, d # e,
                      leave'[d] # NoLeave, leave'[e] # NoLeave
               PROVE  leave'[e].what \in leave'[d].others
    OBVIOUS
  <2>1. leave[e].what \in leave[d].others BY <1>4 DEF LeaveInv
  <2> QED BY <1>4, <2>1
<1>6. entered' # NoLeave =>
          /\ Whole(entered', overrides')
          /\ \A e \in Clerks : leave'[e] # NoLeave => leave'[e].what \in entered'.others
  <2> SUFFICES ASSUME entered' # NoLeave
               PROVE  /\ Whole(entered', overrides')
                      /\ \A e \in Clerks :
                             leave'[e] # NoLeave => leave'[e].what \in entered'.others
    OBVIOUS
  <2>1. \A e \in Clerks : leave[e] # NoLeave => leave[e].what \in entered.others
    BY DEF LeaveInv
  <2> QED BY <1>4, <2>1
<1> QED BY <1>2, <1>3, <1>5, <1>6 DEF LeaveInv

(* What a handler that goes on remembers.                                  *)
Shape(l) ==
    l = [what |-> l.what, next |-> l.next, had |-> l.had, step |-> l.step,
         others |-> l.others]

LEMMA GetSteps == ASSUME LeaveInv, NEW c \in Clerks, GetDay(c) PROVE LeaveInv'
<1> DEFINE l == leave[c]
           seen == IF NextDay(c) \in DOMAIN overrides THEN overrides[NextDay(c)] ELSE NoDay
<1>1. Running(l, overrides) /\ l # NoLeave /\ l.next <= l.what.to
  BY DEF GetDay, LeaveInv
<1>2. Shape(l) BY <1>1 DEF Running, Shape
<1>3. PICK m : m = [l EXCEPT !.step = "put", !.had = seen] OBVIOUS
<1>4. leave = [e \in Clerks |-> leave[e]] BY DEF LeaveInv
<1>5. leave' = [leave EXCEPT ![c] = m] BY <1>3, <1>4 DEF GetDay
<1>6. overrides' = overrides /\ entered' = entered BY DEF GetDay
<1>7. /\ seen # NoDay => NextDay(c) \in DOMAIN overrides /\ overrides[NextDay(c)] = seen
      /\ NextDay(c) = <<l.what.person, l.next>>
  BY DEF NextDay
<1> HIDE DEF seen, l
<1>8. /\ Shape(m) /\ m.what = l.what /\ m.next = l.next /\ m.had = seen
      /\ m.step = "put" /\ m.others = l.others
  <2>1. m.what = l.what /\ m.next = l.next /\ m.others = l.others BY <1>2, <1>3 DEF Shape
  <2>2. m.had = seen /\ m.step = "put" BY <1>2, <1>3 DEF Shape
  <2>3. DOMAIN m = {"what", "next", "had", "step", "others"} BY <1>2, <1>3 DEF Shape
  <2>4. m = [k \in DOMAIN m |-> m[k]] BY <1>2, <1>3 DEF Shape
  <2>5. Shape(m) BY <2>3, <2>4 DEF Shape
  <2> QED BY <2>1, <2>2, <2>5
<1>9. Running(m, overrides) BY <1>1, <1>7, <1>8 DEF Running, Shape
<1>10. /\ \A e \in Clerks \ {c} : leave[e] # NoLeave => Running(leave[e], overrides')
       /\ entered # NoLeave => Whole(entered, overrides')
  BY <1>6 DEF LeaveInv
<1> QED BY <1>1, <1>5, <1>6, <1>8, <1>9, <1>10, MovesOn DEF l

LEMMA PutSteps == ASSUME LeaveInv, NEW c \in Clerks, PutDay(c) PROVE LeaveInv'
<1> DEFINE l == leave[c]
           v == l.what
           n == l.next + 1
<1>1. /\ Running(l, overrides) /\ l # NoLeave /\ l.step = "put"
      /\ overrides' = IF l.had = v.hours THEN overrides
                      ELSE Put(overrides, <<v.person, l.next>>, v.hours)
      /\ entered' = entered
  BY DEF PutDay, LeaveInv, NextDay
<1>2. Shape(l) BY <1>1 DEF Running, Shape
<1>0. PICK m : m = [l EXCEPT !.step = "get", !.next = n, !.had = NoDay] OBVIOUS
<1>3. leave = [e \in Clerks |-> leave[e]] BY DEF LeaveInv
<1>4. leave' = [leave EXCEPT ![c] = m] BY <1>0, <1>3 DEF PutDay
<1>5. /\ Shape(m) /\ m.what = v /\ m.next = l.next + 1 /\ m.had = NoDay
      /\ m.step = "get" /\ m.others = l.others
  <2> HIDE DEF l, n
  <2>1. m.what = l.what /\ m.next = n /\ m.others = l.others BY <1>0, <1>2 DEF Shape
  <2>2. m.had = NoDay /\ m.step = "get" BY <1>0, <1>2 DEF Shape
  <2>3. DOMAIN m = {"what", "next", "had", "step", "others"} BY <1>0, <1>2 DEF Shape
  <2>4. m = [k \in DOMAIN m |-> m[k]] BY <1>0, <1>2 DEF Shape
  <2>5. Shape(m) BY <2>3, <2>4 DEF Shape
  <2>6. l.what = v /\ n = l.next + 1 BY DEF l, n
  <2> QED BY <2>1, <2>2, <2>5, <2>6
<1>6. /\ v \in Leaves /\ v.hours \in 0..MaxCapacityH /\ l.next \in Nat
      /\ v.from <= l.next /\ l.next <= v.to /\ UpTo(overrides, v, l.others, l.next)
  BY <1>1 DEF Running
<1>7. v.from \in Nat /\ v.to \in Nat /\ l.next \in v.from..v.to
  BY <1>6, BookingAssumption
<1>8. /\ \A w, others, e : Held(overrides, w, others, e) /\ v \in {w} \cup others
                              => Held(overrides', w, others, e)
      /\ \A k : Running(k, overrides) /\ v \in {k.what} \cup k.others => Running(k, overrides')
      /\ \A r : Whole(r, overrides) /\ v \in {r.what} \cup r.others => Whole(r, overrides')
  <2>1. CASE l.had = v.hours BY <1>1, <2>1
  <2>2. CASE l.had # v.hours
    <3>1. overrides' = Put(overrides, <<v.person, l.next>>, v.hours) BY <1>1, <2>2
    <3> HIDE DEF v
    <3> QED BY <3>1, <1>7, WriteHolds, WriteRuns, WriteStaysWhole
  <2> QED BY <2>1, <2>2
<1>9. Held(overrides', v, l.others, l.next)
  <2>1. CASE l.had = v.hours
    <3>1. l.had # NoDay BY <1>6, <2>1, GreedyAssumption DEF MaxCapacityH
    <3>2. /\ <<v.person, l.next>> \in DOMAIN overrides
          /\ \/ overrides[<<v.person, l.next>>] = v.hours
             \/ Held(overrides, v, l.others, l.next)
      BY <1>1, <2>1, <3>1 DEF Running
    <3> QED BY <1>1, <1>7, <2>1, <3>2 DEF Held
  <2>2. CASE l.had # v.hours
    <3>1. /\ DOMAIN overrides' = DOMAIN overrides \cup {<<v.person, l.next>>}
          /\ overrides'[<<v.person, l.next>>] = v.hours
      BY <1>1, <2>2 DEF Put
    <3> HIDE DEF v
    <3> QED BY <1>7, <3>1 DEF Held
  <2> QED BY <2>1, <2>2
<1>10. UpTo(overrides', v, l.others, l.next + 1)
  <2> SUFFICES ASSUME NEW e \in Nat, v.from <= e, e < l.next + 1
               PROVE  Held(overrides', v, l.others, e)
    BY DEF UpTo
  <2>1. CASE e = l.next BY <1>9, <2>1
  <2>2. CASE e < l.next
    <3>1. Held(overrides, v, l.others, e) BY <1>6, <2>2 DEF UpTo
    <3> QED BY <1>8, <3>1
  <2> QED BY <1>6, <2>1, <2>2
<1>12. Running(m, overrides') BY <1>5, <1>6, <1>7, <1>10 DEF Running, Shape
<1>13. \A e \in Clerks \ {c} : leave[e] # NoLeave => Running(leave[e], overrides')
  <2> SUFFICES ASSUME NEW e \in Clerks \ {c}, leave[e] # NoLeave
               PROVE  Running(leave[e], overrides')
    OBVIOUS
  <2>1. Running(leave[e], overrides) /\ v \in leave[e].others BY <1>1 DEF LeaveInv
  <2> QED BY <1>8, <2>1
<1>14. entered # NoLeave => Whole(entered, overrides')
  <2> SUFFICES ASSUME entered # NoLeave PROVE Whole(entered, overrides') OBVIOUS
  <2>1. Whole(entered, overrides) /\ v \in entered.others BY <1>1 DEF LeaveInv
  <2> QED BY <1>8, <2>1
<1> QED BY <1>1, <1>4, <1>5, <1>12, <1>13, <1>14, MovesOn

(* A handler ends, with a report or without.                               *)
LEMMA EndSteps ==
    ASSUME LeaveInv, NEW c \in Clerks, AuditVacation(c) \/ CutVacation(c)
    PROVE  LeaveInv'
<1> DEFINE l == leave[c]
<1>1. /\ leave' = [leave EXCEPT ![c] = NoLeave] /\ l # NoLeave /\ overrides' = overrides
  BY DEF AuditVacation, CutVacation
<1>2. leave = [e \in Clerks |-> leave[e]] BY DEF LeaveInv
<1>3. /\ leave' = [e \in Clerks |-> leave'[e]]
      /\ \A e \in Clerks : leave'[e] # NoLeave =>
             e # c /\ leave'[e] = leave[e] /\ leave[e] # NoLeave
  BY <1>1, <1>2
<1>4. /\ \A e \in Clerks : leave'[e] # NoLeave => Running(leave'[e], overrides')
      /\ \A d, e \in Clerks : d # e /\ leave'[d] # NoLeave /\ leave'[e] # NoLeave
                                  => leave'[e].what \in leave'[d].others
  BY <1>1, <1>3 DEF LeaveInv
<1>5. CASE AuditVacation(c)
  <2>1. entered' = [what |-> l.what, others |-> l.others] /\ l.next > l.what.to
    BY <1>5 DEF AuditVacation
  <2>2. Running(l, overrides) BY <1>1 DEF LeaveInv
  <2>3. /\ l.what \in Leaves /\ l.next \in Nat /\ l.what.to \in Nat
        /\ UpTo(overrides, l.what, l.others, l.next)
    BY <2>2, BookingAssumption DEF Running
  <2>4. UpTo(overrides, l.what, l.others, l.what.to + 1)
    <3>1. \A e \in Nat : e < l.what.to + 1 => e < l.next BY <2>1, <2>3
    <3> QED BY <2>3, <3>1 DEF UpTo
  <2>5. entered'.what = l.what /\ entered'.others = l.others BY <2>1
  <2>6. Whole(entered', overrides') BY <1>1, <2>1, <2>3, <2>4, <2>5 DEF Whole
  <2>7. \A e \in Clerks : leave'[e] # NoLeave => leave'[e].what \in entered'.others
    BY <1>1, <1>3, <2>5 DEF LeaveInv
  <2> QED BY <1>3, <1>4, <2>6, <2>7 DEF LeaveInv
<1>6. CASE CutVacation(c)
  <2>1. entered' = entered BY <1>6 DEF CutVacation
  <2>2. entered # NoLeave =>
            /\ Whole(entered, overrides)
            /\ \A e \in Clerks : leave'[e] # NoLeave => leave'[e].what \in entered.others
    BY <1>3 DEF LeaveInv
  <2> QED BY <1>1, <1>3, <1>4, <2>1, <2>2 DEF LeaveInv
<1> QED BY <1>5, <1>6

LEMMA LeaveAtFirst == Init => LeaveInv
  BY DEF Init, LeaveInv

THEOREM Vacations == Spec => []LeaveInv
<1>2. LeaveInv /\ [Next]_vars => LeaveInv'
  <2> SUFFICES ASSUME LeaveInv, [Next]_vars PROVE LeaveInv' OBVIOUS
  <2>1. CASE UNCHANGED vars BY <2>1, Elsewhere DEF vars, vacations
  <2>2. CASE \E pr \in Projects, template \in Templates, deadline \in Deadlines :
                 AddProject(pr, template, deadline)
    BY <2>2, Elsewhere DEF AddProject, vacations
  <2>3. CASE \E t \in Unplaced : Place(t) BY <2>3, Elsewhere DEF Place, vacations
  <2>4. CASE SaveProposal BY <2>4, Elsewhere DEF SaveProposal, vacations
  <2>5. CASE \E pr \in Projects : Confirm(pr) BY <2>5, Elsewhere DEF Confirm, vacations
  <2>6. CASE VacationStep
    BY <2>6, BeginLeaves, GetSteps, PutSteps, EndSteps DEF VacationStep
  <2>8. CASE ReadCommitted BY <2>8, Elsewhere DEF ReadCommitted, vacations
  <2>9. CASE SolveAgain BY <2>9, Elsewhere DEF SolveAgain, vacations
  <2>10. CASE Report BY <2>10, Elsewhere DEF Report, vacations
  <2>11. CASE Midnight BY <2>11, Elsewhere DEF Midnight, vacations
  <2> QED BY <2>1, <2>2, <2>3, <2>4, <2>5, <2>6, <2>8, <2>9, <2>10, <2>11
            DEF Next, VacationStep
<1> QED BY <1>2, LeaveAtFirst, PTL DEF Spec

(* A vacation that was reported as entered is in the table with all of its *)
(* days, each with its hours or with those of another vacation of that     *)
(* person that was under way since it was begun, however the reads and     *)
(* writes of the handlers interleave, whatever is planned or solved again  *)
(* meanwhile, and although each day is a transaction of its own that may   *)
(* be the last (SetVacationUseCase.execute, upsert_day_override).          *)
THEOREM VacationIsWhole == Spec => []EnteredIsWhole
<1>1. LeaveInv => EnteredIsWhole
  <2> SUFFICES ASSUME LeaveInv, entered # NoLeave PROVE EnteredIsWhole
    BY DEF EnteredIsWhole
  <2>1. Whole(entered, overrides) BY DEF LeaveInv
  <2>2. entered.what.from \in Nat /\ entered.what.to \in Nat
    BY <2>1, BookingAssumption DEF Whole
  <2>3. \A d \in entered.what.from..entered.what.to :
            d \in Nat /\ entered.what.from <= d /\ d < entered.what.to + 1
    BY <2>2
  <2>4. \A d \in entered.what.from..entered.what.to :
            Held(overrides, entered.what, entered.others, d)
    BY <2>1, <2>3 DEF Whole, UpTo
  <2> QED BY <2>4 DEF Held, EnteredIsWhole
<1> QED BY <1>1, Vacations, PTL

LEMMA DaysSteps == ASSUME DaysInv, LeaveInv, VacationStep PROVE DaysInv'
<1>1. ASSUME NEW c \in Clerks, PutDay(c) PROVE DaysInv'
  <2> DEFINE v == leave[c].what
             key == NextDay(c)
  <2>1. \/ overrides' = overrides
        \/ overrides' = Put(overrides, key, v.hours)
    BY <1>1 DEF PutDay
  <2>2. v.hours \in 0..MaxCapacityH BY <1>1 DEF PutDay, LeaveInv, Running
  <2>3. CASE overrides' = Put(overrides, key, v.hours)
    <3>1. /\ DOMAIN overrides' = DOMAIN overrides \cup {key}
          /\ \A k \in DOMAIN overrides' :
                 overrides'[k] = IF k = key THEN v.hours ELSE overrides[k]
      BY <2>3 DEF Put
    <3> HIDE DEF key
    <3> QED BY <2>2, <3>1 DEF DaysInv
  <2> QED BY <2>1, <2>3 DEF DaysInv
<1>2. CASE ~(\E c \in Clerks : PutDay(c))
  <2>1. overrides' = overrides
    BY <1>2 DEF VacationStep, AskVacation, BeginLeave, GetDay, AuditVacation, CutVacation
  <2> QED BY <2>1 DEF DaysInv
<1> QED BY <1>1, <1>2

LEMMA ReadSteps == ASSUME StoredInv, ReadCommitted PROVE ReadInv'
<1>1. read' = [pr \in Committed |-> plans[pr].placed] BY DEF ReadCommitted
<1>2. DOMAIN read' = Committed /\ \A pr \in Committed : read'[pr] = plans[pr].placed
  BY <1>1
<1>3. IsFiniteSet(Committed)
  <2>1. Committed \subseteq Stored /\ IsFiniteSet(Stored) BY DEF Committed, StoredInv
  <2> QED BY <2>1, FS_Subset
<1>4. \A pr \in Committed : Places(pr, plans[pr].placed)
  BY DEF Committed, StoredInv, PlanIsWhole
<1> QED BY <1>2, <1>3, <1>4 DEF ReadInv, Places, PlaceFits

LEMMA InvAtFirst == Init => Inv
<1> SUFFICES ASSUME Init PROVE Inv OBVIOUS
<1>1. DOMAIN <<>> = {} /\ <<>> = [x \in {} |-> plans[x]] OBVIOUS
<1>2. StoredInv BY <1>1, BookingAssumption, FS_EmptySet DEF Init, StoredInv, Stored
<1>3. DaysInv BY <1>1 DEF Init, DaysInv
<1>4. ReadInv BY DEF Init, ReadInv
<1>5. JobInv BY DEF Init, JobInv
<1> QED BY <1>2, <1>3, <1>4, <1>5 DEF Inv

LEMMA InvStays == ASSUME Inv, LeaveInv, [Next]_vars PROVE Inv'
<1>0. StoredInv /\ DaysInv /\ ReadInv /\ JobInv BY DEF Inv
<1>1. CASE UNCHANGED vars
  <2>1. /\ UNCHANGED <<today, plans>> /\ UNCHANGED <<overrides, leave>> /\ UNCHANGED read
        /\ UNCHANGED <<job, placed, used, plans, read, overrides>>
    BY <1>1 DEF vars
  <2>2. /\ Stored' = Stored /\ BookedBy(Committed)' = BookedBy(Committed)
        /\ Reconstructed' = Reconstructed
    BY <2>1 DEF Stored, Committed, BookedBy, Reconstructed
  <2>3. JobInv' BY <1>0, <2>1, <2>2 DEF JobInv, NoJob
  <2> QED BY <1>0, <2>1, <2>3, StoredStays, DaysStay, ReadStays DEF Inv
<1>2. ASSUME NEW pr \in Projects, NEW template \in Templates, NEW deadline \in Deadlines,
             AddProject(pr, template, deadline)
      PROVE  Inv'
  <2>1. UNCHANGED <<today, plans>> /\ UNCHANGED <<overrides, leave>> /\ UNCHANGED read
    BY <1>2 DEF AddProject
  <2>2. JobInv' BY <1>2, AddProjectSteps
  <2> QED BY <1>0, <2>1, <2>2, StoredStays, DaysStay, ReadStays DEF Inv
<1>3. ASSUME NEW t \in Unplaced, Place(t) PROVE Inv'
  <2>1. UNCHANGED <<today, plans>> /\ UNCHANGED <<overrides, leave>> /\ UNCHANGED read
    BY <1>3 DEF Place
  <2>2. JobInv' BY <1>0, <1>3, PlaceSteps
  <2> QED BY <1>0, <2>1, <2>2, StoredStays, DaysStay, ReadStays DEF Inv
<1>4. CASE SaveProposal
  <2>1. UNCHANGED <<overrides, leave>> /\ UNCHANGED read BY <1>4 DEF SaveProposal
  <2>2. StoredInv' /\ JobInv' BY <1>4, SaveProposalSteps
  <2> QED BY <1>0, <2>1, <2>2, DaysStay, ReadStays DEF Inv
<1>5. ASSUME NEW pr \in Projects, Confirm(pr) PROVE Inv'
  <2>1. /\ UNCHANGED <<overrides, leave>> /\ UNCHANGED read /\ job = NoJob
        /\ UNCHANGED <<job, placed, used>>
    BY <1>5 DEF Confirm
  <2>2. StoredInv' BY <1>0, <1>5, ConfirmSteps
  <2> QED BY <1>0, <2>1, <2>2, DaysStay, ReadStays, JobIdles DEF Inv
<1>6. CASE VacationStep
  <2>1. /\ UNCHANGED <<today, plans>> /\ UNCHANGED read /\ job = NoJob
        /\ UNCHANGED <<job, placed, used>>
    BY <1>6, VacationApart
  <2>2. DaysInv' BY <1>0, <1>6, DaysSteps
  <2> QED BY <1>0, <2>1, <2>2, StoredStays, ReadStays, JobIdles DEF Inv
<1>7. CASE ReadCommitted
  <2>1. /\ UNCHANGED <<today, plans>> /\ UNCHANGED <<overrides, leave>> /\ job = NoJob
        /\ UNCHANGED <<job, placed, used>>
    BY <1>7 DEF ReadCommitted
  <2>2. ReadInv' BY <1>0, <1>7, ReadSteps
  <2> QED BY <1>0, <2>1, <2>2, StoredStays, DaysStay, JobIdles DEF Inv
<1>8. CASE SolveAgain
  <2>1. UNCHANGED <<today, plans>> /\ UNCHANGED <<overrides, leave>>
    BY <1>8 DEF SolveAgain
  <2>2. JobInv' /\ ReadInv' BY <1>8, SolveAgainSteps
  <2> QED BY <1>0, <2>1, <2>2, StoredStays, DaysStay DEF Inv
<1>9. CASE Report
  <2>1. /\ UNCHANGED <<today, plans>> /\ UNCHANGED <<overrides, leave>>
        /\ job' = NoJob /\ placed' = <<>> /\ used' = EmptyBag /\ read' = None
    BY <1>9 DEF Report
  <2>2. JobInv' /\ ReadInv' BY <2>1 DEF JobInv, ReadInv
  <2> QED BY <1>0, <2>1, <2>2, StoredStays, DaysStay DEF Inv
<1>10. CASE Midnight
  <2>1. /\ UNCHANGED <<overrides, leave>> /\ UNCHANGED read /\ job = NoJob
        /\ UNCHANGED <<job, placed, used>> /\ plans' = plans
        /\ today < LastDay /\ today' = today + 1
    BY <1>10 DEF Midnight
  <2>2. StoredInv'
    <3>1. today \in FirstDay..LastDay BY <1>0 DEF StoredInv
    <3>2. today' \in FirstDay..LastDay BY <2>1, <3>1, BookingAssumption
    <3> QED BY <1>0, <2>1, <3>2 DEF StoredInv, Stored, PlanIsWhole, Places, PlaceFits
  <2> QED BY <1>0, <2>1, <2>2, DaysStay, ReadStays, JobIdles DEF Inv
<1> QED BY <1>1, <1>2, <1>3, <1>4, <1>5, <1>6, <1>7, <1>8, <1>9, <1>10
        DEF Next, VacationStep

THEOREM Solving == Spec => []Inv
<1>1. Inv /\ LeaveInv /\ [Next]_vars => Inv' BY InvStays
<1> QED BY <1>1, InvAtFirst, Vacations, PTL DEF Spec

(* Whatever templates, people, vacations and calendar there are, plans hold*)
(* tasks of their own project, placed within their days and with positive  *)
(* hours, and so does what the solver has in hand.                         *)
THEOREM Typed == Spec => []TypeOK
<1>1. Inv /\ LeaveInv => TypeOK
  <2> SUFFICES ASSUME Inv, LeaveInv PROVE TypeOK OBVIOUS
  <2>1. \A place : PlaceFits(place) => IsPlace(place) BY DEF PlaceFits, IsPlace, IsLoad
  <2>2. \A pr \in Stored : /\ plans[pr].status \in {"proposed", "committed"}
                           /\ \A t \in DOMAIN plans[pr].placed : IsPlace(plans[pr].placed[t])
    <3>1. \A pr \in Stored : Places(pr, plans[pr].placed) /\ plans[pr].status \in {"proposed", "committed"}
      BY DEF Inv, StoredInv, PlanIsWhole
    <3> QED BY <2>1, <3>1 DEF Places
  <2>3. job.kind \in {"none", "add", "replan"} BY DEF Inv, JobInv, NoJob
  <2>4. IsABag(used) /\ \A t \in DOMAIN placed : IsPlace(placed[t])
    <3>1. CASE job = NoJob
      <4>1. placed = <<>> /\ used = EmptyBag BY <3>1 DEF Inv, JobInv
      <4>2. DOMAIN <<>> = {} /\ IsABag(EmptyBag) BY DEF IsABag, EmptyBag, SetToBag
      <4> QED BY <4>1, <4>2
    <3>2. CASE job # NoJob
      <4>1. Solves(job.request, placed, used) BY <3>2 DEF Inv, JobInv
      <4>2. IsLoad(used) BY <4>1, SolvesIsLoad
      <4>3. \A t \in DOMAIN placed : PlaceFits(placed[t]) BY <4>1 DEF Solves
      <4> QED BY <2>1, <4>2, <4>3 DEF IsLoad
    <3> QED BY <3>1, <3>2
  <2>5. job = NoJob => placed = <<>> BY DEF Inv, JobInv
  <2>6. today \in FirstDay..LastDay /\ Stored \subseteq Projects BY DEF Inv, StoredInv
  <2>7. \A k \in DOMAIN overrides : overrides[k] \in 0..MaxCapacityH
    BY DEF Inv, DaysInv
  <2>8. /\ \A c \in Clerks : leave[c].what \in Leaves \cup {None}
        /\ entered.what \in Leaves \cup {None}
    <3>1. \A c \in Clerks : leave[c] = NoLeave \/ leave[c].what \in Leaves
      BY DEF LeaveInv, Running
    <3>2. entered = NoLeave \/ entered.what \in Leaves BY DEF LeaveInv, Whole
    <3>3. NoLeave.what = None BY DEF NoLeave
    <3> QED BY <3>1, <3>2, <3>3
  <2> QED BY <2>2, <2>3, <2>4, <2>5, <2>6, <2>7, <2>8 DEF TypeOK
<1> QED BY <1>1, Solving, Vacations, PTL

(* While tasks are placed, the count of the hours of every person and day  *)
(* (CapacityIndex._used) is what the committed plans had booked and what   *)
(* was placed since, and every task has exactly its hours with each of the *)
(* one or two people who got it, over however many days (GreedySolver).    *)
THEOREM NoHourIsLost == Spec => []HoursConserved
<1>1. Inv => HoursConserved
  <2> SUFFICES ASSUME Inv, job # NoJob PROVE HoursConserved BY DEF HoursConserved
  <2>1. Solves(job.request, placed, used) BY DEF Inv, JobInv
  <2> DEFINE r == job.request
  <2>2. used = r.existing (+) Booked(placed) BY <2>1 DEF Solves
  <2>3. ASSUME NEW t \in DOMAIN placed
        PROVE  LET task == r.tasks[t]
                   who  == {k[1] : k \in DOMAIN placed[t].load}
               IN  /\ \A p \in who : HoursFor(placed[t], p) = task.hours
                   /\ Cardinality(who) =
                          IF task.window THEN 0
                          ELSE IF InPairs(task, Allowed(r, t)) THEN 2 ELSE 1
    <3>1. KeepsHours(placed[t].load, r.tasks[t].hours, People(r, t))
      BY <2>1 DEF Solves
    <3> QED BY <3>1 DEF KeepsHours, People, PeopleOf, HoursBy, HoursFor
  <2> QED BY <2>2, <2>3 DEF HoursConserved
<1> QED BY <1>1, Solving, PTL

(* In any order of the tasks the solver starts each one only after the end,*)
(* or not before the start, of all it is linked to, with at least the lag  *)
(* in working days between them, and books working days only, within the   *)
(* dates of the task (_earliest_start).                                    *)
THEOREM LinksAreKept == Spec => []LinksKept
<1>1. Inv => LinksKept
  <2> SUFFICES ASSUME Inv PROVE LinksKept OBVIOUS
  <2>1. CASE job = NoJob
    <3>1. DOMAIN placed = {} BY <2>1 DEF Inv, JobInv
    <3> QED BY <3>1 DEF LinksKept
  <2>2. CASE job # NoJob
    <3>1. Linked(job.request, placed) BY <2>2 DEF Inv, JobInv
    <3>2. ASSUME NEW t \in DOMAIN placed
          PROVE  /\ placed[t].start >= job.request.start
                 /\ \A k \in DOMAIN placed[t].load :
                        IsWorkingDay(k[2]) /\ k[2] \in placed[t].start..placed[t].end
      <4>1. InWork(placed[t], job.request.start) BY <3>1 DEF Linked
      <4>2. job.request.start \in Nat /\ placed[t].start \in Nat
        BY <2>2, <4>1 DEF Inv, JobInv, Solves, IsRequest, InWork
      <4> QED BY <4>1, <4>2 DEF InWork
    <3>3. ASSUME NEW t \in DOMAIN placed, NEW l \in job.request.tasks[t].after,
                 l.on \in DOMAIN job.request.tasks
          PROVE  LET base == IF l.link = "FS" THEN placed[l.on].end + 1
                                              ELSE placed[l.on].start
                 IN  /\ l.on \in DOMAIN placed
                     /\ placed[t].start >= base
                     /\ BusinessDaysBetween(base, placed[t].start) >= l.lag - 1
      BY <3>1, <3>3 DEF Linked, Follows
    <3> QED BY <3>2, <3>3 DEF LinksKept
  <2> QED BY <2>1, <2>2
<1> QED BY <1>1, Solving, PTL

(* The solver overbooks a day of a person only if the day was overbooked or*)
(* over a lowered capacity already, or for a task whose people have no day *)
(* with the hours it needs between its start and the horizon               *)
(* (_place_single, _place_splittable, _place_pair).                        *)
THEOREM OverloadIsForced == Spec => []OverloadForced
<1>1. Inv => OverloadForced
  <2> SUFFICES ASSUME Inv PROVE OverloadForced OBVIOUS
  <2>1. CASE job = NoJob BY <2>1 DEF OverloadForced
  <2>2. CASE job # NoJob
    <3>1. Forced(job.request, placed, used) BY <2>2 DEF Inv, JobInv
    <3> QED BY <2>2, <3>1 DEF Forced, OverloadForced, PeopleOf, Needed
  <2> QED BY <2>1, <2>2
<1> QED BY <1>1, Solving, PTL

-----------------------------------------------------------------------------
(* What a replan answers                                                   *)

Entries == UNION {DOMAIN read[pr] : pr \in DOMAIN read}
Entry(t) == read[t[1]][t]
EntryHours == [t \in Entries |-> HoursOf(Entry(t))]

LEMMA EntriesAreWork ==
    ASSUME ReadInv, read # None
    PROVE  /\ IsFiniteSet(Entries)
           /\ \A t \in Entries : EntryHours[t] \in Nat
           /\ SumFunction(Total([pr \in DOMAIN read |-> Booked(read[pr])]))
                  = SumFunctionOnSet(EntryHours, Entries)
<1> DEFINE D == DOMAIN read
           parts == [pr \in D |-> DOMAIN read[pr]]
           loads == [pr \in D |-> Booked(read[pr])]
           perPlan == [pr \in D |-> SumFunction(loads[pr])]
           perPart == [pr \in D |-> SumFunctionOnSet(EntryHours, parts[pr])]
<1>1. IsFiniteSet(D) /\ \A pr \in D : Places(pr, read[pr]) BY DEF ReadInv
<1>2. \A pr \in D : \A t \in DOMAIN read[pr] :
          /\ t \in Entries /\ t[1] = pr /\ IsLoad(read[pr][t].load)
          /\ EntryHours[t] = SumFunction(read[pr][t].load) /\ EntryHours[t] \in Nat
  <2> SUFFICES ASSUME NEW pr \in D, NEW t \in DOMAIN read[pr]
               PROVE  /\ t \in Entries /\ t[1] = pr /\ IsLoad(read[pr][t].load)
                      /\ EntryHours[t] = SumFunction(read[pr][t].load) /\ EntryHours[t] \in Nat
    OBVIOUS
  <2>1. t[1] = pr /\ IsLoad(read[pr][t].load) BY <1>1 DEF Places, PlaceFits
  <2>2. t \in Entries BY DEF Entries
  <2>3. EntryHours[t] = SumFunction(read[pr][t].load)
    BY <2>1, <2>2 DEF EntryHours, Entry, HoursOf
  <2> DEFINE load == read[pr][t].load
  <2>4. IsLoad(load) /\ IsFiniteSet(DOMAIN load) BY <2>1 DEF IsLoad
  <2> HIDE DEF load
  <2>5. SumFunction(load) \in Nat BY <2>4, AllHours
  <2> QED BY <2>1, <2>2, <2>3, <2>5 DEF load
<1>3. Entries = UNION {parts[pr] : pr \in DOMAIN parts} BY DEF Entries
<1>4. AreParts(parts, EntryHours)
  <2>1. \A pr \in D : IsFiniteSet(DOMAIN read[pr]) BY <1>1 DEF Places
  <2>2. \A p1, p2 \in D : p1 # p2 => DOMAIN read[p1] \cap DOMAIN read[p2] = {}
    <3> SUFFICES ASSUME NEW p1 \in D, NEW p2 \in D, p1 # p2,
                        NEW t, t \in DOMAIN read[p1], t \in DOMAIN read[p2]
                 PROVE  FALSE
      OBVIOUS
    <3> QED BY <1>2
  <2>3. DOMAIN parts = D /\ \A pr \in D : parts[pr] = DOMAIN read[pr] OBVIOUS
  <2>4. \A pr \in D : \A t \in DOMAIN read[pr] : EntryHours[t] \in Nat BY <1>2
  <2> HIDE DEF parts
  <2> QED BY <1>1, <2>1, <2>2, <2>3, <2>4 DEF AreParts
<1>5. IsFiniteSet(Entries) /\ SumFunctionOnSet(EntryHours, Entries) = SumFunctionOnSet(perPart, D)
  <2>1. DOMAIN parts = D OBVIOUS
  <2> DEFINE all == UNION {parts[pr] : pr \in DOMAIN parts}
             sums == [i \in DOMAIN parts |-> SumFunctionOnSet(EntryHours, parts[i])]
  <2>2. sums = perPart OBVIOUS
  <2>3. IsFiniteSet(all) /\ SumFunctionOnSet(EntryHours, all) = SumFunctionOnSet(sums, DOMAIN parts)
    <3> HIDE DEF parts
    <3> QED BY <1>4, SumOfParts
  <2> HIDE DEF parts, all, sums, perPart
  <2> QED BY <1>3, <2>1, <2>2, <2>3 DEF all
<1>6. AreLoads(loads)
  <2>1. \A pr \in D : IsLoad(Booked(read[pr])) BY <1>1, PlacesAreLoads
  <2> QED BY <1>1, <2>1 DEF AreLoads
<1>7. SumFunction(Total(loads)) = SumFunctionOnSet(perPlan, D)
  <2>1. DOMAIN loads = D OBVIOUS
  <2> DEFINE sums == [pr \in DOMAIN loads |-> SumFunction(loads[pr])]
  <2>2. sums = perPlan OBVIOUS
  <2>3. SumFunction(Total(loads)) = SumFunctionOnSet(sums, DOMAIN loads)
    <3> HIDE DEF loads
    <3> QED BY <1>6, AllHoursOfAll
  <2> HIDE DEF loads, sums, perPlan
  <2> QED BY <2>1, <2>2, <2>3
<1>8. \A pr \in D : perPlan[pr] = perPart[pr] /\ perPart[pr] \in Int
  <2> SUFFICES ASSUME NEW pr \in D
               PROVE  perPlan[pr] = perPart[pr] /\ perPart[pr] \in Int
    OBVIOUS
  <2> DEFINE T == DOMAIN read[pr]
             mine == [t \in T |-> read[pr][t].load]
             sums == [t \in DOMAIN mine |-> SumFunction(mine[t])]
  <2>1. perPlan[pr] = SumFunction(Booked(read[pr])) /\ perPart[pr] = SumFunctionOnSet(EntryHours, T)
    OBVIOUS
  <2>2. AreLoads(mine) BY <1>1, PlacesAreLoads
  <2>3. Booked(read[pr]) = Total(mine) BY DEF Booked
  <2>4. DOMAIN mine = T /\ DOMAIN sums = T
        /\ \A t \in T : sums[t] = EntryHours[t] /\ sums[t] \in Int /\ EntryHours[t] \in Nat
    BY <1>2
  <2>5. IsFiniteSet(T) BY <1>1 DEF Places
  <2>6. SumFunction(Total(mine)) = SumFunctionOnSet(sums, DOMAIN mine)
    <3> HIDE DEF mine
    <3> QED BY <2>2, AllHoursOfAll
  <2> HIDE DEF T, mine, sums, perPlan, perPart
  <2>7. SumFunctionOnSet(sums, T) = SumFunctionOnSet(EntryHours, T)
    BY <2>4, <2>5, SumSame
  <2>8. SumFunctionOnSet(EntryHours, T) \in Nat BY <2>4, <2>5, SumOfNat
  <2> QED BY <2>1, <2>3, <2>4, <2>6, <2>7, <2>8
<1>9. SumFunctionOnSet(perPlan, D) = SumFunctionOnSet(perPart, D)
  <2> HIDE DEF perPlan, perPart, D
  <2> QED BY <1>1, <1>8, SumSame
<1>10. \A t \in Entries : EntryHours[t] \in Nat BY <1>2 DEF Entries
<1> HIDE DEF perPlan, perPart, D
<1> QED BY <1>5, <1>7, <1>9, <1>10 DEF D

(* When all is placed, the tasks of a replan are the entries with hours,   *)
(* and each was given all of its hours.                                    *)
LEMMA ReplanAddsUp ==
    ASSUME Inv, Solved, job.kind = "replan"
    PROVE  SumFunction(used) = SumFunctionOnSet(EntryHours, Entries)
<1> DEFINE r == job.request
           worked == {t \in Entries : HoursOf(Entry(t)) > 0}
           loads == [t \in DOMAIN placed |-> placed[t].load]
           sums == [t \in DOMAIN loads |-> SumFunction(loads[t])]
<1>1. /\ job # NoJob /\ read # None /\ r.tasks = Reconstructed /\ r.existing = EmptyBag
      /\ Solves(r, placed, used)
  BY DEF Inv, JobInv, Solved
<1>2. Reconstructed = [t \in worked |->
          [hours |-> HoursOf(Entry(t)), allowed |-> <<Entry(t).person>>,
           splittable |-> FALSE, pair |-> FALSE, window |-> FALSE, after |-> {}]]
  BY DEF Reconstructed, Entries, Entry
<1>3. DOMAIN placed = worked
  <2>1. DOMAIN r.tasks \subseteq DOMAIN placed BY <1>1 DEF Solved, Unplaced
  <2>2. DOMAIN placed \subseteq DOMAIN r.tasks BY <1>1 DEF Solves
  <2>3. DOMAIN Reconstructed = worked BY <1>2
  <2> HIDE DEF worked
  <2> QED BY <1>1, <2>1, <2>2, <2>3
<1>4. /\ IsFiniteSet(Entries) /\ \A t \in Entries : EntryHours[t] \in Nat
      /\ ReadInv
  BY <1>1, EntriesAreWork DEF Inv
<1>5. \A t \in DOMAIN placed : sums[t] = EntryHours[t] /\ EntryHours[t] \in Nat
  <2> SUFFICES ASSUME NEW t \in DOMAIN placed
               PROVE  sums[t] = EntryHours[t] /\ EntryHours[t] \in Nat
    OBVIOUS
  <2>1. t \in worked /\ t \in Entries BY <1>3
  <2>2. r.tasks[t] = [hours |-> HoursOf(Entry(t)), allowed |-> <<Entry(t).person>>,
           splittable |-> FALSE, pair |-> FALSE, window |-> FALSE, after |-> {}]
    BY <1>1, <1>2, <2>1
  <2>3. r.tasks[t].hours = EntryHours[t] BY <2>1, <2>2 DEF EntryHours
  <2>4. ~r.tasks[t].window /\ ~r.tasks[t].pair BY <2>2
  <2>5. People(r, t) = 1 BY <2>4 DEF People, InPairs
  <2>6. KeepsHours(placed[t].load, r.tasks[t].hours, People(r, t)) BY <1>1 DEF Solves
  <2>7. SumFunction(placed[t].load) = r.tasks[t].hours
    <3> DEFINE load == placed[t].load
               hours == r.tasks[t].hours
    <3>1. KeepsHours(load, hours, 1) BY <2>5, <2>6
    <3> HIDE DEF load, hours
    <3>2. SumFunction(load) = hours BY <3>1, OneDoesAll
    <3> QED BY <3>2 DEF load, hours
  <2>8. sums[t] = SumFunction(placed[t].load) OBVIOUS
  <2> QED BY <1>4, <2>1, <2>3, <2>7, <2>8
<1>6. AreLoads(loads) /\ IsFiniteSet(DOMAIN placed) /\ IsLoad(Booked(placed))
  BY <1>1, SolvesIsLoad, BookedIsLoad
<1>7. SumFunction(Booked(placed)) = SumFunctionOnSet(EntryHours, Entries)
  <2>1. Booked(placed) = Total(loads) BY DEF Booked
  <2>2. SumFunction(Total(loads)) = SumFunctionOnSet(sums, DOMAIN loads)
    <3> HIDE DEF loads
    <3> QED BY <1>6, AllHoursOfAll
  <2>3. DOMAIN loads = DOMAIN placed OBVIOUS
  <2>4. \A t \in Entries \ worked : EntryHours[t] = 0
    <3> SUFFICES ASSUME NEW t \in Entries, ~(HoursOf(Entry(t)) > 0) PROVE EntryHours[t] = 0
      OBVIOUS
    <3>1. EntryHours[t] = HoursOf(Entry(t)) BY DEF EntryHours
    <3> QED BY <1>4, <3>1
  <2>5. worked \in SUBSET Entries OBVIOUS
  <2> HIDE DEF worked, sums, loads
  <2>6. SumFunctionOnSet(EntryHours, worked) = SumFunctionOnSet(EntryHours, Entries)
    BY <1>4, <2>4, <2>5, SumPart
  <2>7. \A t \in worked : sums[t] \in Int /\ sums[t] = EntryHours[t] BY <1>3, <1>5
  <2>8. SumFunctionOnSet(sums, worked) = SumFunctionOnSet(EntryHours, worked)
    <3>1. IsFiniteSet(worked) BY <1>3, <1>6
    <3> QED BY <2>7, <3>1, SumSame
  <2>9. SumFunctionOnSet(sums, DOMAIN loads) = SumFunctionOnSet(sums, worked)
    BY <1>3, <2>3, Zenon
  <2> QED BY <2>1, <2>2, <2>6, <2>8, <2>9
<1>8. SumFunction(EmptyBag) = 0 /\ IsLoad(EmptyBag)
  <2>1. DOMAIN EmptyBag = {} /\ IsABag(EmptyBag) BY DEF EmptyBag, SetToBag, IsABag
  <2>2. SumFunction(EmptyBag) = SumFunctionOnSet(EmptyBag, DOMAIN EmptyBag)
    BY Zenon DEF SumFunction
  <2>3. SumFunctionOnSet(EmptyBag, DOMAIN EmptyBag) = 0 BY <2>1, SumEmpty
  <2> QED BY <2>1, <2>2, <2>3, FS_EmptySet DEF IsLoad
<1>9. used = EmptyBag (+) Booked(placed) BY <1>1 DEF Solves
<1>10. SumFunction(used) = SumFunction(EmptyBag) + SumFunction(Booked(placed))
  BY <1>6, <1>8, <1>9, AllHoursOfTwo
<1>11. SumFunctionOnSet(EntryHours, Entries) \in Nat BY <1>4, SumOfNat
<1> QED BY <1>7, <1>8, <1>10, <1>11

(* A replan gives out all of the hours of the committed plans it read, and *)
(* none twice; and when it lists no overload, everybody's hours on each day*)
(* with an override fit into it, days off included (ReplanPreview, solve). *)
THEOREM ReplanTellsTheTruth == Spec => []AllClearIsTrue
<1>1. Inv => AllClearIsTrue
  <2> SUFFICES ASSUME Inv, Solved, job.kind = "replan"
               PROVE  /\ SumFunction(used)
                             = SumFunction(Total([pr \in DOMAIN read |-> Booked(read[pr])]))
                      /\ Overloads(job.request, used) = {} =>
                             \A k \in DOMAIN overrides : HoursOn(k, used) <= overrides[k]
    BY DEF AllClearIsTrue
  <2> DEFINE r == job.request
  <2>1. job # NoJob /\ read # None /\ r.overrides = overrides /\ Solves(r, placed, used)
    BY DEF Inv, JobInv, Solved
  <2>2. SumFunction(used) = SumFunction(Total([pr \in DOMAIN read |-> Booked(read[pr])]))
    <3>1. ReadInv BY DEF Inv
    <3> QED BY <2>1, <3>1, ReplanAddsUp, EntriesAreWork
  <2>3. ASSUME Overloads(r, used) = {}, NEW k \in DOMAIN overrides
        PROVE  HoursOn(k, used) <= overrides[k]
    <3>1. IsLoad(used) /\ IsRequest(r) BY <2>1, SolvesIsLoad DEF Solves
    <3>2. overrides[k] \in Nat BY DEF Inv, DaysInv, MaxCapacityH
    <3>3. CASE k \notin DOMAIN used BY <3>2, <3>3 DEF HoursOn
    <3>4. CASE k \in DOMAIN used
      <4>1. k = <<k[1], k[2]>> BY <3>1, <3>4 DEF IsLoad
      <4>2. BaseCapacity(r, k[1], k[2]) = overrides[k] BY <2>1, <4>1 DEF BaseCapacity
      <4>3. ~(used[k] > overrides[k]) BY <2>3, <3>4, <4>2 DEF Overloads, BagToSet
      <4>4. HoursOn(k, used) = used[k] /\ used[k] \in Nat
        BY <3>1, <3>4, LoadIsNat DEF IsLoad
      <4> QED BY <3>2, <4>3, <4>4
    <3> QED BY <3>3, <3>4
  <2> QED BY <2>2, <2>3
<1> QED BY <1>1, Solving, PTL

-----------------------------------------------------------------------------
(* What a committed plan shows of the plans it was computed beside         *)

HoursTogether(all, prs) == Total([q \in prs |-> Booked(all[q].placed)])

(* A plan was computed beside committed ones, with all those that these    *)
(* were computed beside; where they overload a day together it is a risk.  *)
Knows(all, done, pr) ==
    LET plan == all[pr]
        sum  == HoursTogether(all, plan.known) (+) Booked(plan.placed)
    IN  /\ plan.known \subseteq done /\ pr \notin plan.known
        /\ \A q \in plan.known : all[q].known \subseteq plan.known
        /\ \A k \in DOMAIN sum : sum[k] > Capacity[k[1]] => k \in plan.risks

KnownInv == \A pr \in Stored : Knows(plans, Committed, pr)

(* What a plan knows depends on the places, not on the statuses.           *)
LEMMA KnowsStays ==
    ASSUME NEW all, NEW more, NEW done, NEW later, NEW pr, Knows(all, done, pr),
           done \subseteq later,
           \A x \in done \cup {pr} : /\ more[x].placed = all[x].placed
                                     /\ more[x].known = all[x].known
                                     /\ more[x].risks = all[x].risks
    PROVE  Knows(more, later, pr)
<1> DEFINE known == all[pr].known
<1>1. known \subseteq done /\ more[pr].known = known /\ more[pr].placed = all[pr].placed
      /\ more[pr].risks = all[pr].risks
  BY DEF Knows
<1>2. \A q \in known : more[q].placed = all[q].placed /\ more[q].known = all[q].known
  BY <1>1
<1>3. HoursTogether(more, more[pr].known) = HoursTogether(all, known)
  <2>1. [q \in known |-> Booked(more[q].placed)] = [q \in known |-> Booked(all[q].placed)]
    BY <1>2
  <2> QED BY <1>1, <2>1 DEF HoursTogether
<1> QED BY <1>1, <1>2, <1>3 DEF Knows

LEMMA KnownAtFirst == Init => KnownInv
<1> SUFFICES ASSUME Init PROVE KnownInv OBVIOUS
<1>1. DOMAIN <<>> = {} OBVIOUS
<1> QED BY <1>1 DEF Init, KnownInv, Stored

LEMMA SaveProposalKnows == ASSUME Inv, KnownInv, SaveProposal PROVE KnownInv'
<1> DEFINE pr == job.project
           r == job.request
           plan == [status |-> "proposed", placed |-> placed,
                    rows |-> SavedRows(job.request, placed),
                    risks |-> Overloads(job.request, used),
                    late |-> DeadlineMissed(job.request, placed),
                    told |-> IF job.request.deadline = NoDay
                             THEN PresentedEarliestEnd(job.request) ELSE NoDay,
                    known |-> Committed]
           more == plans'
<1>1. /\ job # NoJob /\ job.kind = "add" /\ plans' = Put(plans, pr, plan)
  BY DEF SaveProposal, Solved
<1>2. /\ Solves(r, placed, used) /\ pr \notin Stored
      /\ r.existing = BookedBy(Committed) /\ DOMAIN r.overrides = {}
  BY <1>1 DEF Inv, JobInv
<1>3. /\ plan.status = "proposed" /\ plan.placed = placed /\ plan.known = Committed
      /\ plan.risks = Overloads(r, used)
  OBVIOUS
<1> HIDE DEF plan, r, pr
<1>4. /\ Stored' = Stored \cup {pr} /\ more[pr] = plan
      /\ \A x \in Stored : more[x] = plans[x]
  BY <1>1, <1>2 DEF Put, Stored
<1>5. Committed' = Committed
  <2>1. Committed' = {x \in Stored \cup {pr} : more[x].status = "committed"}
    BY <1>4 DEF Committed
  <2>2. more[pr].status # "committed" BY <1>3, <1>4
  <2> HIDE DEF more
  <2> QED BY <1>4, <2>1, <2>2 DEF Committed
<1>6. Committed \subseteq Stored BY DEF Committed
<1> HIDE DEF more
<1>7. Knows(more, Committed, pr)
  <2>1. HoursTogether(more, Committed) = r.existing
    <3>1. [q \in Committed |-> Booked(more[q].placed)] = [q \in Committed |-> Booked(plans[q].placed)]
      BY <1>4, <1>6
    <3> QED BY <1>2, <3>1 DEF HoursTogether, BookedBy
  <2>2. used = HoursTogether(more, Committed) (+) Booked(placed)
    BY <1>2, <2>1 DEF Solves
  <2>3. IsRequest(r) /\ IsLoad(used) BY <1>2, SolvesIsLoad DEF Solves
  <2>4. ASSUME NEW k \in DOMAIN used, used[k] > Capacity[k[1]] PROVE k \in plan.risks
    <3>1. k[1] \in DOMAIN Capacity BY <2>3 DEF IsLoad
    <3>2. Capacity[k[1]] \in Nat BY <3>1, GreedyAssumption
    <3>3. BaseCapacity(r, k[1], k[2]) = Capacity[k[1]] \/ BaseCapacity(r, k[1], k[2]) = 0
      BY <1>2 DEF BaseCapacity
    <3>4. used[k] \in Nat BY <2>3, LoadIsNat DEF IsLoad
    <3>5. used[k] > BaseCapacity(r, k[1], k[2]) BY <2>4, <3>2, <3>3, <3>4
    <3> QED BY <1>3, <3>5 DEF Overloads, BagToSet
  <2>5. ASSUME NEW q \in Committed PROVE more[q].known \subseteq Committed
    <3>1. q \in Stored /\ more[q] = plans[q] BY <1>4, <1>6
    <3> QED BY <3>1 DEF KnownInv, Knows
  <2>6. more[pr].known = Committed /\ more[pr].placed = placed /\ more[pr].risks = plan.risks
    BY <1>3, <1>4
  <2> QED BY <1>2, <1>6, <2>2, <2>4, <2>5, <2>6 DEF Knows
<1>8. \A x \in Stored : Knows(more, Committed, x)
  <2> SUFFICES ASSUME NEW x \in Stored PROVE Knows(more, Committed, x) OBVIOUS
  <2>1. Knows(plans, Committed, x) BY DEF KnownInv
  <2>2. \A y \in Committed \cup {x} : more[y] = plans[y] BY <1>4, <1>6
  <2> QED BY <2>1, <2>2, KnowsStays
<1> QED BY <1>4, <1>5, <1>7, <1>8 DEF KnownInv, more

LEMMA KnownStays == ASSUME Inv, KnownInv, [Next]_vars PROVE KnownInv'
<1>1. CASE UNCHANGED plans BY <1>1 DEF KnownInv, Stored, Committed
<1>2. CASE SaveProposal BY <1>2, SaveProposalKnows
<1>3. ASSUME NEW pr \in Projects, Confirm(pr) PROVE KnownInv'
  <2> DEFINE more == plans'
  <2>1. /\ Stored' = Stored /\ Committed' = Committed \cup {pr}
        /\ \A x \in Stored : /\ more[x].placed = plans[x].placed
                             /\ more[x].known = plans[x].known
                             /\ more[x].risks = plans[x].risks
    BY <1>3, ConfirmSteps DEF Inv
  <2>2. Committed \subseteq Stored BY DEF Committed
  <2> HIDE DEF more
  <2>3. \A x \in Stored : Knows(more, Committed \cup {pr}, x)
    <3> SUFFICES ASSUME NEW x \in Stored PROVE Knows(more, Committed \cup {pr}, x) OBVIOUS
    <3>1. Knows(plans, Committed, x) BY DEF KnownInv
    <3> QED BY <2>1, <2>2, <3>1, KnowsStays
  <2> QED BY <2>1, <2>3 DEF KnownInv, more
<1>4. CASE Next
  <2>1. CASE SaveProposal BY <1>2, <2>1
  <2>2. CASE \E pr \in Projects : Confirm(pr) BY <1>3, <2>2
  <2>3. CASE ~SaveProposal /\ ~(\E pr \in Projects : Confirm(pr))
    <3>1. UNCHANGED plans
      BY <1>4, <2>3, VacationApart
         DEF Next, VacationStep, AddProject, Place, ReadCommitted, SolveAgain, Report,
             Midnight
    <3> QED BY <1>1, <3>1
  <2> QED BY <2>1, <2>2, <2>3
<1> QED BY <1>1, <1>4 DEF vars

THEOREM Knowing == Spec => []KnownInv
<1>1. Inv /\ KnownInv /\ [Next]_vars => KnownInv' BY KnownStays
<1> QED BY <1>1, KnownAtFirst, Solving, PTL DEF Spec

(* The hours of a day that a plan has booked.                              *)
HoursIn(k) == [pr \in Stored |-> HoursOn(k, Booked(plans[pr].placed))]

LEMMA HoursTogetherAdd ==
    ASSUME StoredInv, NEW prs \in SUBSET Stored, NEW k
    PROVE  /\ IsFiniteSet(prs) /\ IsLoad(BookedBy(prs))
           /\ \A pr \in prs : HoursIn(k)[pr] \in Nat
           /\ HoursOn(k, BookedBy(prs)) = SumFunctionOnSet(HoursIn(k), prs)
<1> DEFINE loads == [pr \in prs |-> Booked(plans[pr].placed)]
           f == HoursOfEach(k, loads)
           g == HoursIn(k)
<1>1. AreLoads(loads) /\ DOMAIN loads = prs /\ IsLoad(BookedBy(prs)) BY PlansAreLoads
<1>2. \A pr \in prs : f[pr] = g[pr] BY DEF HoursOfEach, HoursIn
<1>3. BookedBy(prs) = Total(loads) BY DEF BookedBy
<1> HIDE DEF loads
<1>4. /\ HoursOn(k, Total(loads)) = SumFunctionOnSet(f, DOMAIN loads)
      /\ \A pr \in DOMAIN loads : f[pr] \in Nat
  BY <1>1, TotalIsLoad
<1>5. IsFiniteSet(prs) BY <1>1 DEF AreLoads
<1>6. \A pr \in prs : f[pr] \in Int /\ f[pr] = g[pr] /\ g[pr] \in Nat BY <1>1, <1>2, <1>4
<1>7. SumFunctionOnSet(f, DOMAIN loads) = SumFunctionOnSet(f, prs) BY <1>1, Zenon
<1> HIDE DEF f, g
<1>8. SumFunctionOnSet(f, prs) = SumFunctionOnSet(g, prs) BY <1>5, <1>6, SumSame
<1> QED BY <1>1, <1>3, <1>4, <1>5, <1>6, <1>7, <1>8 DEF g

Touches(pr, k) == \E t \in DOMAIN plans[pr].placed : k \in DOMAIN plans[pr].placed[t].load

LEMMA TouchesBooks ==
    ASSUME StoredInv, NEW pr \in Stored, NEW k
    PROVE  k \in DOMAIN Booked(plans[pr].placed) <=> Touches(pr, k)
<1> DEFINE done == plans[pr].placed
           loads == [t \in DOMAIN done |-> done[t].load]
<1>1. Places(pr, done) BY DEF StoredInv, PlanIsWhole
<1>2. AreLoads(loads) BY <1>1, PlacesAreLoads
<1>3. Booked(done) = Total(loads) BY DEF Booked
<1>4. \A t \in DOMAIN done : loads[t] = done[t].load OBVIOUS
<1>5. DOMAIN loads = DOMAIN done OBVIOUS
<1> HIDE DEF loads
<1>6. DOMAIN Total(loads) = UNION {DOMAIN loads[t] : t \in DOMAIN loads} BY <1>2, TotalIsLoad
<1> QED BY <1>3, <1>4, <1>5, <1>6 DEF Touches

LEMMA SomePlanShowsIt ==
    ASSUME StoredInv, KnownInv, NEW k \in DOMAIN BookedBy(Committed),
           BookedBy(Committed)[k] > Capacity[k[1]],
           \A p1, p2 \in Committed :
               p1 # p2 /\ Touches(p1, k) /\ Touches(p2, k) =>
                   p1 \in plans[p2].known \/ p2 \in plans[p1].known
    PROVE  \E pr \in Committed : k \in plans[pr].risks
<1> DEFINE T == {pr \in Committed : Touches(pr, k)}
           all == BookedBy(Committed)
           g == HoursIn(k)
           unknown(pr) == Committed \ plans[pr].known
<1>1. Committed \in SUBSET Stored BY DEF Committed
<1>2. /\ IsFiniteSet(Committed) /\ IsLoad(all) /\ \A pr \in Committed : g[pr] \in Nat
      /\ HoursOn(k, all) = SumFunctionOnSet(g, Committed)
  BY <1>1, HoursTogetherAdd
<1>3. \A pr \in Committed : g[pr] = HoursOn(k, Booked(plans[pr].placed))
  BY <1>1 DEF HoursIn
<1>4. \A pr \in Committed : Knows(plans, Committed, pr) BY <1>1 DEF KnownInv
<1>5. T # {}
  <2> DEFINE loads == [pr \in Committed |-> Booked(plans[pr].placed)]
  <2>1. AreLoads(loads) /\ all = Total(loads) BY <1>1, PlansAreLoads DEF BookedBy
  <2>2. DOMAIN loads = Committed /\ \A pr \in Committed : loads[pr] = Booked(plans[pr].placed)
    OBVIOUS
  <2> HIDE DEF loads
  <2>3. k \in UNION {DOMAIN loads[pr] : pr \in DOMAIN loads} BY <2>1, TotalIsLoad
  <2>4. PICK pr \in Committed : k \in DOMAIN Booked(plans[pr].placed) BY <2>2, <2>3
  <2> QED BY <1>1, <2>4, TouchesBooks
<1> HIDE DEF g, all
(* The plan among them that leaves the fewest unknown knows all the others.*)
<1>6. PICK p \in T : \A q \in T : unknown(q) \subseteq unknown(p) => unknown(q) = unknown(p)
  <2> DEFINE F == {unknown(q) : q \in T}
  <2>1. F \in SUBSET (SUBSET Committed) /\ F # {} BY <1>5
  <2>2. PICK U \in F : \A V \in SUBSET U : V # U => V \notin F
    <3> HIDE DEF F
    <3> QED BY <1>2, <2>1, MinimalSet
  <2>3. PICK p \in T : U = unknown(p) BY <2>2
  <2>4. ASSUME NEW q \in T, unknown(q) \subseteq unknown(p) PROVE unknown(q) = unknown(p)
    <3>1. unknown(q) \in F /\ unknown(q) \in SUBSET U BY <2>3, <2>4
    <3> HIDE DEF F, unknown
    <3> QED BY <2>2, <2>3, <3>1
  <2> QED BY <2>4
<1> DEFINE known == plans[p].known
           rest == T \ {p}
           sum == HoursTogether(plans, known) (+) Booked(plans[p].placed)
<1>7. /\ p \in Committed /\ p \in Stored /\ Touches(p, k)
      /\ known \subseteq Committed /\ p \notin known
      /\ \A j \in DOMAIN sum : sum[j] > Capacity[j[1]] => j \in plans[p].risks
  BY <1>1, <1>4, <1>6 DEF Knows
<1>8. rest \subseteq known
  <2> SUFFICES ASSUME NEW q \in T, q # p, q \notin known PROVE FALSE OBVIOUS
  <2>1. q \in Committed /\ Touches(q, k) OBVIOUS
  <2>2. p \in plans[q].known BY <1>7, <2>1
  <2>3. known \subseteq plans[q].known /\ plans[q].known \subseteq Committed
    BY <1>4, <2>1, <2>2 DEF Knows
  <2>4. unknown(q) \subseteq unknown(p) BY <2>3
  <2>5. unknown(q) = unknown(p) BY <1>6, <2>4
  <2>6. p \in unknown(p) /\ p \notin unknown(q) BY <1>7, <2>2
  <2> QED BY <2>5, <2>6
<1>9. BookedBy(known) = HoursTogether(plans, known) BY DEF BookedBy, HoursTogether
<1> DEFINE mine == Booked(plans[p].placed)
<1> HIDE DEF known, sum
<1>10. known \in SUBSET Stored BY <1>1, <1>7
<1>11. /\ IsFiniteSet(known) /\ IsLoad(BookedBy(known))
       /\ HoursOn(k, BookedBy(known)) = SumFunctionOnSet(g, known)
  BY <1>10, HoursTogetherAdd DEF g
<1>12. IsLoad(mine)
  <2>1. Places(p, plans[p].placed) BY <1>7 DEF StoredInv, PlanIsWhole
  <2> QED BY <2>1, PlacesAreLoads
<1>13. /\ IsLoad(sum) /\ DOMAIN sum = DOMAIN BookedBy(known) \cup DOMAIN mine
       /\ HoursOn(k, sum) = SumFunctionOnSet(g, known) + g[p]
  <2>1. sum = BookedBy(known) (+) mine BY <1>9 DEF sum
  <2>2. g[p] = HoursOn(k, mine) BY <1>3, <1>7
  <2> HIDE DEF mine
  <2> QED BY <1>11, <1>12, <2>1, <2>2, PlusIsLoad
<1>14. SumFunctionOnSet(g, Committed) = g[p] + SumFunctionOnSet(g, rest)
  <2>1. \A pr \in Committed \ T : g[pr] = 0
    <3> SUFFICES ASSUME NEW pr \in Committed, ~Touches(pr, k) PROVE g[pr] = 0 OBVIOUS
    <3>1. k \notin DOMAIN Booked(plans[pr].placed) BY <1>1, TouchesBooks
    <3> QED BY <1>3, <3>1 DEF HoursOn
  <2>2. T \in SUBSET Committed OBVIOUS
  <2> HIDE DEF T, rest
  <2>3. SumFunctionOnSet(g, T) = SumFunctionOnSet(g, Committed) BY <1>2, <2>1, <2>2, SumPart
  <2>4. IsFiniteSet(T) /\ \A pr \in T : g[pr] \in Int BY <1>2, <2>2, FS_Subset
  <2>5. SumFunctionOnSet(g, T) = g[p] + SumFunctionOnSet(g, T \ {p}) BY <1>6, <2>4, SumOut
  <2> QED BY <2>3, <2>5 DEF rest
<1>15. /\ SumFunctionOnSet(g, rest) <= SumFunctionOnSet(g, known)
       /\ SumFunctionOnSet(g, rest) \in Nat /\ SumFunctionOnSet(g, known) \in Nat
       /\ g[p] \in Nat
  <2>1. \A pr \in known : g[pr] \in Nat BY <1>2, <1>7
  <2>2. rest \in SUBSET known /\ IsFiniteSet(rest) BY <1>8, <1>11, FS_Subset
  <2>3. \A pr \in rest : g[pr] \in Nat BY <2>1, <2>2
  <2> HIDE DEF rest
  <2> QED BY <1>2, <1>7, <1>11, <2>1, <2>2, <2>3, SumPart, SumOfNat
<1>16. k \in DOMAIN sum /\ sum[k] > Capacity[k[1]]
  <2>1. k \in DOMAIN mine BY <1>7, TouchesBooks
  <2>2. k \in DOMAIN sum BY <1>13, <2>1
  <2>3. sum[k] = HoursOn(k, sum) BY <2>2 DEF HoursOn
  <2>4. all[k] = HoursOn(k, all) /\ all[k] > Capacity[k[1]] BY DEF HoursOn, all
  <2>5. Capacity[k[1]] \in Nat
    <3>1. k[1] \in DOMAIN Capacity BY <1>2 DEF IsLoad, all
    <3> QED BY <3>1, GreedyAssumption
  <2> HIDE DEF rest
  <2> QED BY <1>2, <1>13, <1>14, <1>15, <2>2, <2>3, <2>4, <2>5
<1> QED BY <1>7, <1>16

(* A day of a person that the committed plans overload together is told as *)
(* a risk of at least one of them, whoever confirmed them and when, unless *)
(* two that put work on it were each computed before the other one was     *)
(* confirmed (build_existing_allocations, detect_overloads).               *)
THEOREM OverloadIsReported == Spec => []OverloadReported
<1>1. Inv /\ KnownInv => OverloadReported
  <2> SUFFICES ASSUME StoredInv, KnownInv PROVE OverloadReported BY DEF Inv
  <2> SUFFICES ASSUME NEW k \in DOMAIN BookedBy(Committed),
                      BookedBy(Committed)[k] > Capacity[k[1]],
                      ~(\E p1, p2 \in Committed :
                            /\ p1 # p2 /\ Touches(p1, k) /\ Touches(p2, k)
                            /\ p1 \notin plans[p2].known /\ p2 \notin plans[p1].known)
               PROVE  \E pr \in Committed : k \in plans[pr].risks
    BY DEF OverloadReported, Touches
  <2>1. \A p1, p2 \in Committed :
            p1 # p2 /\ Touches(p1, k) /\ Touches(p2, k) =>
                p1 \in plans[p2].known \/ p2 \in plans[p1].known
    OBVIOUS
  <2> QED BY <2>1, SomePlanShowsIt
<1> QED BY <1>1, Solving, Knowing, PTL

-----------------------------------------------------------------------------
(* The date a plan is not earlier than                                     *)

(* Something is asked for, and windows last as long as they should.        *)
ChainInv ==
    job # NoJob =>
        /\ DOMAIN job.request.tasks # {}
        /\ \A t \in DOMAIN placed :
               LET task == job.request.tasks[t]
               IN  task.window =>
                       Lasts(placed[t], AtLeast(CeilDiv(task.hours, DayHours), 1))

LEMMA ChainStays == ASSUME Inv, ChainInv, [Next]_vars PROVE ChainInv'
<1>1. CASE UNCHANGED <<job, placed>>
  BY <1>1 DEF ChainInv, NoJob
<1>2. ASSUME NEW pr \in Projects, NEW template \in Templates, NEW deadline \in Deadlines,
             AddProject(pr, template, deadline)
      PROVE  ChainInv'
  <2>1. /\ job'.request.tasks = Instantiate(pr, template) /\ placed' = <<>>
        /\ DOMAIN template # {}
    BY <1>2 DEF AddProject, Begin
  <2>2. DOMAIN Instantiate(pr, template) # {}
    <3>1. PICK ord \in DOMAIN template : TRUE BY <2>1
    <3>2. <<pr, ord>> \in DOMAIN Instantiate(pr, template) BY DEF Instantiate
    <3> QED BY <3>2
  <2>3. DOMAIN placed' = {} BY <2>1
  <2> QED BY <2>1, <2>2, <2>3 DEF ChainInv
<1>3. ASSUME NEW t \in Unplaced, Place(t) PROVE ChainInv'
  <2> DEFINE r == job.request
             task == r.tasks[t]
             place == PlaceTask(r, used, placed, t)
             from == EarliestStart(r, placed, t)
  <2>1. /\ job # NoJob /\ t \in DOMAIN r.tasks /\ t \notin DOMAIN placed
        /\ placed' = Put(placed, t, place) /\ job' = job
    BY <1>3 DEF Place, Unplaced
  <2>2. Solves(r, placed, used) BY <2>1 DEF Inv, JobInv
  <2>3. IsRequest(r) /\ IsTask(task) BY <2>1, <2>2 DEF Solves, IsRequest
  <2>4. from \in Nat
    <3>1. ArePlaces(placed) BY <2>2 DEF Solves, PlaceFits, ArePlaces
    <3> QED BY <2>1, <2>3, <3>1, StartsAfterLinks
  <2>5. ASSUME task.window
        PROVE  Lasts(place, AtLeast(CeilDiv(task.hours, DayHours), 1))
    <3> DEFINE w == PlaceWindow(task.hours, from)
    <3>1. place.start = w.start /\ place.end = w.end BY <2>5 DEF PlaceTask
    <3>2. task.hours \in Nat \ {0} BY <2>3 DEF IsTask
    <3> HIDE DEF place, from, task
    <3>3. Lasts(w, AtLeast(CeilDiv(task.hours, DayHours), 1)) BY <2>4, <3>2, WindowLasts
    <3> QED BY <3>1, <3>3 DEF Lasts
  <2>6. /\ placed'[t] = place /\ DOMAIN placed' = DOMAIN placed \cup {t}
        /\ \A u \in DOMAIN placed : placed'[u] = placed[u]
    <3> HIDE DEF place
    <3> QED BY <2>1 DEF Put
  <2> HIDE DEF place
  <2>7. ASSUME NEW u \in DOMAIN placed', job.request.tasks[u].window
        PROVE  Lasts(placed'[u], AtLeast(CeilDiv(job.request.tasks[u].hours, DayHours), 1))
    <3>1. CASE u = t BY <2>5, <2>6, <2>7, <3>1
    <3>2. CASE u # t
      <4>1. u \in DOMAIN placed /\ placed'[u] = placed[u] BY <2>6, <3>2
      <4> QED BY <2>1, <2>7, <4>1 DEF ChainInv
    <3> QED BY <3>1, <3>2
  <2>8. DOMAIN job.request.tasks # {} BY <2>1 DEF ChainInv
  <2> QED BY <2>1, <2>7, <2>8 DEF ChainInv, Lasts, NoJob
<1>4. CASE SaveProposal \/ Report
  BY <1>4 DEF SaveProposal, Report, ChainInv, NoJob
<1>5. CASE SolveAgain
  <2>1. CASE DOMAIN Reconstructed = {}
    <3>1. UNCHANGED <<job, placed>> BY <1>5, <2>1 DEF SolveAgain
    <3> QED BY <1>1, <3>1
  <2>2. CASE DOMAIN Reconstructed # {}
    <3>1. job'.request.tasks = Reconstructed /\ placed' = <<>>
      BY <1>5, <2>2 DEF SolveAgain, Begin
    <3>2. DOMAIN placed' = {} BY <3>1
    <3> QED BY <2>2, <3>1, <3>2 DEF ChainInv
  <2> QED BY <2>1, <2>2
<1>6. CASE UNCHANGED vars
  <2>1. UNCHANGED <<job, placed>> BY <1>6 DEF vars
  <2> QED BY <1>1, <2>1
<1>7. CASE (\E pr \in Projects : Confirm(pr)) \/ VacationStep \/ ReadCommitted \/ Midnight
  <2>1. UNCHANGED <<job, placed>>
    BY <1>7, VacationApart DEF Confirm, ReadCommitted, Midnight
  <2> QED BY <1>1, <2>1
<1> QED BY <1>2, <1>3, <1>4, <1>5, <1>6, <1>7 DEF Next, VacationStep

LEMMA ChainAtFirst == Init => ChainInv
BY DEF Init, ChainInv

(* A day without an overload holds no more hours of a task than the person *)
(* has.                                                                    *)
LEMMA NoOverload ==
    ASSUME NEW r, NEW done, NEW hours, Solves(r, done, hours), Overloads(r, hours) = {},
           NEW t \in DOMAIN done, NEW k \in DOMAIN done[t].load
    PROVE  /\ done[t].load[k] \in Nat
           /\ done[t].load[k] <= BaseCapacity(r, k[1], k[2])
<1> DEFINE loads == [u \in DOMAIN done |-> done[u].load]
<1>1. IsLoad(r.existing) /\ IsRequest(r) /\ hours = r.existing (+) Booked(done)
  BY DEF Solves
<1>2. IsFiniteSet(DOMAIN done) BY SolvesIsLoad
<1>3. \A u \in DOMAIN done : IsLoad(done[u].load) BY DEF Solves, PlaceFits
<1>4. AreLoads(loads) /\ IsLoad(Booked(done)) BY <1>2, <1>3, BookedIsLoad
<1>5. DOMAIN loads = DOMAIN done /\ loads[t] = done[t].load /\ Booked(done) = Total(loads)
  BY DEF Booked
<1>6. done[t].load[k] \in Nat \ {0} /\ HoursOn(k, done[t].load) = done[t].load[k]
  <2>1. IsABag(done[t].load) BY <1>3 DEF IsLoad
  <2> QED BY <2>1, LoadIsNat
<1> HIDE DEF loads
<1>7. done[t].load[k] <= HoursOn(k, Booked(done))
  <2> DEFINE each == HoursOfEach(k, loads)
  <2>1. /\ HoursOn(k, Total(loads)) = SumFunctionOnSet(each, DOMAIN loads)
        /\ \A i \in DOMAIN loads : each[i] \in Nat
    BY <1>4, TotalIsLoad
  <2>2. each[t] = HoursOn(k, loads[t]) BY <1>5 DEF HoursOfEach
  <2> HIDE DEF each
  <2>3. each[t] <= SumFunctionOnSet(each, DOMAIN loads) BY <1>2, <1>5, <2>1, SumOfNat
  <2> QED BY <1>5, <1>6, <2>1, <2>2, <2>3
<1>8. /\ HoursOn(k, hours) = HoursOn(k, r.existing) + HoursOn(k, Booked(done))
      /\ IsLoad(hours)
  BY <1>1, <1>4, PlusIsLoad
<1>9. /\ HoursOn(k, r.existing) \in Nat /\ HoursOn(k, Booked(done)) \in Nat
      /\ HoursOn(k, hours) \in Nat
  BY <1>1, <1>4, <1>8, LoadIsNat DEF IsLoad
<1>10. k \in DOMAIN hours /\ HoursOn(k, hours) = hours[k]
  <2>1. HoursOn(k, hours) # 0 BY <1>6, <1>7, <1>8, <1>9
  <2> QED BY <2>1 DEF HoursOn
<1>11. BaseCapacity(r, k[1], k[2]) \in Nat BY <1>1, CapacityIsNat
<1>12. ~(hours[k] > BaseCapacity(r, k[1], k[2])) BY <1>10 DEF Overloads, BagToSet
<1> QED BY <1>6, <1>7, <1>8, <1>9, <1>10, <1>11, <1>12

(* The date shown when no deadline is named comes from the longest chain of*)
(* links (critical_path_days) and not from the plan.  With links that are  *)
(* finish-to-start and nobody able to do more on a day of a task than it is*)
(* assumed to get, no plan of the solver that overloads nobody ends before *)
(* that chain does, whatever the templates, the people and the holidays.   *)
THEOREM ChainIsNeverLater == Spec => []ChainIsLowerBound
<1>1. Inv /\ ChainInv => ChainIsLowerBound
  <2> DEFINE r == job.request
             assumed(t) == AssumedHours(r, t)
  <2> SUFFICES ASSUME Inv, ChainInv, Solved, Overloads(r, used) = {},
                      \A t \in DOMAIN placed :
                          /\ \A l \in r.tasks[t].after : l.link = "FS"
                          /\ r.tasks[t].window => DayHours <= assumed(t)
                          /\ \A k \in DOMAIN placed[t].load :
                                 BaseCapacity(r, k[1], k[2]) <= assumed(t)
               PROVE  EndOf(placed) >= CriticalPathEnd(r)
    BY DEF ChainIsLowerBound
  <2>1. /\ job # NoJob /\ Solves(r, placed, used) /\ Linked(r, placed)
        /\ DOMAIN r.tasks # {}
    BY DEF Solved, Inv, JobInv, ChainInv
  <2>2. DOMAIN placed = DOMAIN r.tasks /\ IsRequest(r)
    BY <2>1 DEF Solved, Unplaced, Solves
  <2>3. ASSUME NEW t \in DOMAIN placed
        PROVE  /\ DurationDays(r, t) \in Nat \ {0}
               /\ Lasts(placed[t], DurationDays(r, t))
    <3> DEFINE task == r.tasks[t]
               c == assumed(t)
               days == AtLeast(CeilDiv(task.hours, c), 1)
    <3>1. c \in Nat \ {0} BY <2>2, AssumedIsPositive
    <3>2. IsTask(task) /\ task.hours \in Nat \ {0} BY <2>2 DEF IsRequest, IsTask
    <3>3. CeilDiv(task.hours, c) \in Nat
      <4> HIDE DEF task, c
      <4> QED BY <3>1, <3>2, CeilHolds
    <3>4. days \in Nat \ {0} BY <3>3 DEF AtLeast
    <3>5. DurationDays(r, t) = days BY DEF DurationDays
    <3>6. CASE task.window
      <4> DEFINE span == AtLeast(CeilDiv(task.hours, DayHours), 1)
      <4>1. DayHours \in Nat \ {0} /\ DayHours <= c BY <3>6, GreedyAssumption
      <4>2. Lasts(placed[t], span) BY <2>1, <3>6 DEF ChainInv
      <4>3. CeilDiv(task.hours, c) <= CeilDiv(task.hours, DayHours)
            /\ CeilDiv(task.hours, DayHours) \in Nat
        <5> HIDE DEF task, c
        <5> QED BY <3>1, <3>2, <4>1, CeilShrinks, CeilHolds
      <4>4. days <= span /\ span \in Nat BY <3>3, <4>3 DEF AtLeast
      <4>5. BusinessDaysBetween(placed[t].start, placed[t].end + 1) \in Nat
        <5>1. placed[t].start \in Int /\ placed[t].end + 1 \in Int
          BY <2>1 DEF Linked, InWork
        <5> QED BY <5>1, BetweenIsNat
      <4>6. Lasts(placed[t], days)
        <5> HIDE DEF days, span
        <5> QED BY <3>4, <4>2, <4>4, <4>5 DEF Lasts
      <4> QED BY <3>4, <3>5, <4>6
    <3>7. CASE ~task.window
      <4>1. InWork(placed[t], r.start) BY <2>1 DEF Linked
      <4>2. KeepsHours(placed[t].load, task.hours, People(r, t)) BY <2>1 DEF Solves
      <4>3. People(r, t) # 0 BY <3>7 DEF People
      <4>4. ASSUME NEW k \in DOMAIN placed[t].load PROVE placed[t].load[k] <= c
        <5>1. /\ placed[t].load[k] \in Nat
              /\ placed[t].load[k] <= BaseCapacity(r, k[1], k[2])
          BY <2>1, NoOverload
        <5>2. BaseCapacity(r, k[1], k[2]) <= c OBVIOUS
        <5>3. BaseCapacity(r, k[1], k[2]) \in Nat BY <2>2, CapacityIsNat
        <5> HIDE DEF c
        <5> QED BY <3>1, <5>1, <5>2, <5>3
      <4> DEFINE place == placed[t]
                 hours == task.hours
                 n == People(r, t)
      <4> HIDE DEF place, hours, n, c
      <4>5. Lasts(place, AtLeast(CeilDiv(hours, c), 1))
        <5>1. /\ hours \in Nat \ {0} /\ InWork(place, r.start) /\ n # 0
              /\ KeepsHours(place.load, hours, n)
              /\ \A k \in DOMAIN place.load : place.load[k] <= c
          BY <3>2, <4>1, <4>2, <4>3, <4>4 DEF place, hours, n
        <5> QED BY <3>1, <5>1, WorkLasts
      <4>6. Lasts(placed[t], days) BY <4>5 DEF place, hours
      <4> QED BY <3>4, <3>5, <4>6
    <3> QED BY <3>6, <3>7
  <2>4. ASSUME NEW t \in DOMAIN placed
        PROVE  /\ placed[t].start \in Nat /\ placed[t].end \in Nat
               /\ r.start <= placed[t].start /\ placed[t].start <= placed[t].end
    BY <2>1 DEF Linked, InWork
  <2>5. ASSUME NEW t \in DOMAIN placed, NEW u \in Before(r, t)
        PROVE  u \in DOMAIN placed /\ placed[u].end < placed[t].start
    <3>1. PICK l \in r.tasks[t].after : l.on = u BY DEF Before
    <3>2. u \in DOMAIN r.tasks BY DEF Before
    <3>3. l.link = "FS" OBVIOUS
    <3>4. u \in DOMAIN placed /\ Follows(l, placed[u], placed[t].start)
      BY <2>1, <3>1, <3>2 DEF Linked
    <3>5. placed[t].start >= placed[u].end + 1 BY <3>3, <3>4 DEF Follows
    <3>6. placed[u].end \in Nat /\ placed[t].start \in Nat BY <2>4, <3>4
    <3> QED BY <3>4, <3>5, <3>6
  <2>6. InTurn(r, placed) BY <2>2, <2>3, <2>4, <2>5 DEF InTurn
  <2> QED BY <2>1, <2>2, <2>6, ChainEndsInTime
<1>2. Inv /\ ChainInv /\ [Next]_vars => ChainInv' BY ChainStays
<1> QED BY <1>1, <1>2, ChainAtFirst, Solving, PTL DEF Spec

-----------------------------------------------------------------------------
(* The rows of a stored plan                                               *)

IsRowOf(row, t, p, place) ==
    /\ row.task = t /\ row.person = p
    /\ row.start = place.start /\ row.end = place.end
    /\ row.hours = HoursBy(place.load, p)

RowsFit(places, rows) ==
    /\ AreRows(rows)
    /\ \A t \in DOMAIN places :
           /\ \A k \in DOMAIN places[t].load : k[2] \in places[t].start..places[t].end
           /\ \A p \in PeopleOf(places[t].load) :
                  \E row \in rows : IsRowOf(row, t, p, places[t])

(* Each person on a task has a row with the person's hours and its days.   *)
RowsInv == \A pr \in Stored : RowsFit(plans[pr].placed, plans[pr].rows)

LEMMA PeopleAreFew ==
    ASSUME NEW load, IsLoad(load)
    PROVE  IsFiniteSet(PeopleOf(load))
<1> DEFINE f == [k \in DOMAIN load |-> k[1]]
<1>1. PeopleOf(load) = {f[k] : k \in DOMAIN load} BY DEF PeopleOf
<1>2. IsFiniteSet(DOMAIN load) BY DEF IsLoad
<1> HIDE DEF f
<1> QED BY <1>1, <1>2, ImageIsFinite

LEMMA SavedRowsFit ==
    ASSUME NEW r, NEW done, NEW hours, Solves(r, done, hours), Linked(r, done)
    PROVE  RowsFit(done, SavedRows(r, done))
<1> DEFINE people(t) == IF done[t].load = EmptyBag THEN {done[t].person}
                        ELSE {k[1] : k \in DOMAIN done[t].load}
           row(t, p) == [task |-> t, person |-> p, hours |-> r.tasks[t].hours,
                         start |-> done[t].start, end |-> done[t].end,
                         deadline |-> r.deadline]
           each == [t \in DOMAIN done |-> {row(t, p) : p \in people(t)}]
           rows == SavedRows(r, done)
<1>1. rows = UNION {each[t] : t \in DOMAIN done} BY DEF SavedRows
<1>2. IsFiniteSet(DOMAIN done) BY SolvesIsLoad
<1>3. ASSUME NEW t \in DOMAIN done
      PROVE  /\ InWork(done[t], r.start) /\ IsLoad(done[t].load)
             /\ KeepsHours(done[t].load, r.tasks[t].hours, People(r, t))
             /\ r.tasks[t].hours \in Nat
  BY DEF Solves, Linked, PlaceFits, IsRequest, IsTask
<1>4. ASSUME NEW t \in DOMAIN done
      PROVE  /\ IsFiniteSet(each[t])
             /\ \A x \in each[t] : Dated(x) /\ x.hours \in Nat
  <2>1. IsFiniteSet(people(t))
    <3>1. people(t) = {done[t].person} \/ people(t) = PeopleOf(done[t].load) BY DEF PeopleOf
    <3>2. IsFiniteSet({done[t].person}) BY FS_Singleton
    <3>3. IsFiniteSet(PeopleOf(done[t].load)) BY <1>3, PeopleAreFew
    <3> HIDE DEF people
    <3> QED BY <3>1, <3>2, <3>3
  <2>2. IsFiniteSet(each[t])
    <3> DEFINE P == people(t)
               f == [p \in P |-> row(t, p)]
    <3>1. each[t] = {f[p] : p \in P} OBVIOUS
    <3> HIDE DEF f, P, each
    <3>2. IsFiniteSet({f[p] : p \in P}) BY <2>1, ImageIsFinite DEF P
    <3> QED BY <3>1, <3>2
  <2>3. done[t].start \in Nat /\ done[t].end \in Nat /\ done[t].start <= done[t].end
    BY <1>3 DEF InWork
  <2>4. \A x \in each[t] : /\ x.start = done[t].start /\ x.end = done[t].end
                           /\ x.hours = r.tasks[t].hours
    OBVIOUS
  <2> QED BY <1>3, <2>2, <2>3, <2>4 DEF Dated
<1>5. AreRows(rows)
  <2> HIDE DEF each, rows
  <2>1. IsFiniteSet({each[t] : t \in DOMAIN done}) BY <1>2, ImageIsFinite
  <2>2. IsFiniteSet(UNION {each[t] : t \in DOMAIN done}) BY <1>4, <2>1, FS_UNION
  <2> QED BY <1>1, <1>4, <2>2 DEF AreRows
<1>6. ASSUME NEW t \in DOMAIN done
      PROVE  /\ \A k \in DOMAIN done[t].load : k[2] \in done[t].start..done[t].end
             /\ \A p \in PeopleOf(done[t].load) :
                    \E x \in rows : IsRowOf(x, t, p, done[t])
  <2>1. \A k \in DOMAIN done[t].load : k[2] \in done[t].start..done[t].end
    BY <1>3 DEF InWork
  <2>2. ASSUME NEW p \in PeopleOf(done[t].load)
        PROVE  \E x \in rows : IsRowOf(x, t, p, done[t])
    <3>1. p \in people(t)
      <4>1. DOMAIN EmptyBag = {} BY DEF EmptyBag, SetToBag
      <4>2. done[t].load # EmptyBag BY <4>1 DEF PeopleOf
      <4> QED BY <4>2 DEF PeopleOf
    <3>2. row(t, p) \in each[t] BY <3>1
    <3>3. row(t, p) \in rows
      <4> HIDE DEF each, rows, row
      <4> QED BY <1>1, <3>2
    <3>4. HoursBy(done[t].load, p) = r.tasks[t].hours BY <1>3 DEF KeepsHours
    <3>5. IsRowOf(row(t, p), t, p, done[t]) BY <3>4 DEF IsRowOf
    <3> QED BY <3>3, <3>5
  <2> QED BY <2>1, <2>2
<1> HIDE DEF rows
<1>7. RowsFit(done, rows) BY <1>5, <1>6 DEF RowsFit
<1> QED BY <1>7 DEF rows

LEMMA RowsAtFirst == Init => RowsInv
BY DEF Init, RowsInv, Stored

LEMMA RowsStay == ASSUME Inv, RowsInv, [Next]_vars PROVE RowsInv'
<1>1. CASE UNCHANGED plans
  BY <1>1 DEF RowsInv, Stored
<1>2. CASE SaveProposal
  <2> DEFINE pr == job.project
             rows == SavedRows(job.request, placed)
             plan == [status |-> "proposed", placed |-> placed, rows |-> rows,
                      risks |-> Overloads(job.request, used),
                      late |-> DeadlineMissed(job.request, placed),
                      told |-> IF job.request.deadline = NoDay
                               THEN PresentedEarliestEnd(job.request) ELSE NoDay,
                      known |-> Committed]
  <2>1. job # NoJob /\ job.kind = "add" /\ plans' = Put(plans, pr, plan)
    BY <1>2 DEF SaveProposal, Solved
  <2>2. /\ Solves(job.request, placed, used) /\ Linked(job.request, placed)
        /\ pr \notin Stored
    BY <2>1 DEF Inv, JobInv
  <2>3. plan.placed = placed /\ plan.rows = rows OBVIOUS
  <2> HIDE DEF plan, pr
  <2>4. RowsFit(plan.placed, plan.rows) BY <2>2, <2>3, SavedRowsFit
  <2>5. /\ Stored' = Stored \cup {pr}
        /\ plans'[pr] = plan /\ \A x \in Stored : plans'[x] = plans[x]
    BY <2>1, <2>2 DEF Put, Stored
  <2>6. ASSUME NEW x \in Stored' PROVE RowsFit(plans'[x].placed, plans'[x].rows)
    <3>1. CASE x = pr BY <2>4, <2>5, <3>1
    <3>2. CASE x # pr
      <4>1. x \in Stored /\ plans'[x] = plans[x] BY <2>5, <3>2
      <4> QED BY <4>1 DEF RowsInv
    <3> QED BY <3>1, <3>2
  <2> QED BY <2>6 DEF RowsInv, RowsFit, AreRows, Dated, IsRowOf
<1>3. ASSUME NEW pr \in Projects, Confirm(pr) PROVE RowsInv'
  <2>1. pr \in Stored /\ plans' = [plans EXCEPT ![pr].status = "committed"]
    BY <1>3 DEF Confirm
  <2>2. Stored' = Stored BY <2>1 DEF Stored
  <2>3. \A x \in Stored : /\ plans'[x].placed = plans[x].placed
                          /\ plans'[x].rows = plans[x].rows
    <3> TAKE x \in Stored
    <3>1. PlanIsWhole(pr, plans[pr]) BY <2>1 DEF Inv, StoredInv
    <3>2. plans'[x] = IF x = pr THEN [plans[pr] EXCEPT !.status = "committed"] ELSE plans[x]
      BY <2>1 DEF Stored
    <3> QED BY <3>1, <3>2 DEF PlanIsWhole
  <2>4. \A x \in Stored' : RowsFit(plans'[x].placed, plans'[x].rows)
    BY <2>2, <2>3 DEF RowsInv
  <2> QED BY <2>4 DEF RowsInv, RowsFit, AreRows, Dated, IsRowOf
<1>4. CASE UNCHANGED vars
  <2>1. UNCHANGED plans BY <1>4 DEF vars
  <2> QED BY <1>1, <2>1
<1>5. CASE \E pr \in Projects, template \in Templates, deadline \in Deadlines :
               AddProject(pr, template, deadline)
  <2>1. UNCHANGED plans BY <1>5 DEF AddProject
  <2> QED BY <1>1, <2>1
<1>6. CASE \/ \E t \in Unplaced : Place(t)
           \/ VacationStep \/ ReadCommitted \/ SolveAgain \/ Report \/ Midnight
  <2>1. UNCHANGED plans
    BY <1>6, VacationApart DEF Place, ReadCommitted, SolveAgain, Report, Midnight
  <2> QED BY <1>1, <2>1
<1> QED BY <1>2, <1>3, <1>4, <1>5, <1>6 DEF Next, VacationStep

(* The committed tasks, which are of different projects and so distinct.   *)
TasksOf(prs) == UNION {DOMAIN plans[pr].placed : pr \in prs}
PlaceOf(t) == plans[t[1]].placed[t]

LEMMA TasksArePlaced ==
    ASSUME StoredInv, RowsInv
    PROVE  /\ IsFiniteSet(TasksOf(Committed))
           /\ \A t \in TasksOf(Committed) :
                  /\ t[1] \in Committed /\ t \in DOMAIN plans[t[1]].placed
                  /\ IsLoad(PlaceOf(t).load)
<1> DEFINE each == [pr \in Committed |-> DOMAIN plans[pr].placed]
<1>1. \A pr \in Committed : Places(pr, plans[pr].placed)
  BY DEF StoredInv, PlanIsWhole, Committed
<1>2. IsFiniteSet(Committed) BY FS_Subset DEF StoredInv, Committed
<1>3. TasksOf(Committed) = UNION {each[pr] : pr \in Committed} BY DEF TasksOf
<1>4. \A pr \in Committed : IsFiniteSet(each[pr]) BY <1>1 DEF Places
<1> HIDE DEF each
<1>5. IsFiniteSet(UNION {each[pr] : pr \in Committed})
  <2>1. IsFiniteSet({each[pr] : pr \in Committed}) BY <1>2, ImageIsFinite
  <2> QED BY <1>4, <2>1, FS_UNION
<1>6. ASSUME NEW t \in TasksOf(Committed)
      PROVE  /\ t[1] \in Committed /\ t \in DOMAIN plans[t[1]].placed
             /\ IsLoad(PlaceOf(t).load)
  <2>1. PICK pr \in Committed : t \in DOMAIN plans[pr].placed BY DEF TasksOf
  <2> QED BY <1>1, <2>1 DEF Places, PlaceFits, PlaceOf
<1> QED BY <1>3, <1>5, <1>6

(* What is booked on a day is what each committed task has on it.          *)
LEMMA BookedByTasks ==
    ASSUME StoredInv, RowsInv, NEW k,
           NEW f, \A t \in TasksOf(Committed) : f[t] = HoursOn(k, PlaceOf(t).load)
    PROVE  HoursOn(k, BookedBy(Committed)) = SumFunctionOnSet(f, TasksOf(Committed))
<1> DEFINE T == TasksOf(Committed)
           parts == [pr \in Committed |-> DOMAIN plans[pr].placed]
           sums == [pr \in DOMAIN parts |-> SumFunctionOnSet(f, parts[pr])]
           loads == [pr \in Committed |-> Booked(plans[pr].placed)]
           each == HoursOfEach(k, loads)
<1>1. \A pr \in Committed : Places(pr, plans[pr].placed)
  BY DEF StoredInv, PlanIsWhole, Committed
<1>2. IsFiniteSet(Committed) BY FS_Subset DEF StoredInv, Committed
<1>3. AreLoads(loads) /\ DOMAIN loads = Committed /\ BookedBy(Committed) = Total(loads)
  BY PlansAreLoads DEF Committed, BookedBy
<1>4. \A t \in T : f[t] \in Nat
  <2> TAKE t \in T
  <2>1. IsABag(PlaceOf(t).load) BY TasksArePlaced DEF IsLoad
  <2> QED BY <2>1, LoadIsNat
<1>5. ASSUME NEW pr \in Committed
      PROVE  each[pr] = sums[pr] /\ each[pr] \in Int
  <2> DEFINE done == plans[pr].placed
             mine == [t \in DOMAIN done |-> done[t].load]
             hours == HoursOfEach(k, mine)
  <2>1. AreLoads(mine) /\ Booked(done) = Total(mine) /\ DOMAIN mine = DOMAIN done
    BY <1>1, PlacesAreLoads DEF Booked
  <2>2. each[pr] = HoursOn(k, Booked(done)) BY DEF HoursOfEach
  <2>3. \A t \in DOMAIN done : hours[t] = HoursOn(k, done[t].load) BY DEF HoursOfEach
  <2>4. \A t \in DOMAIN done : t \in T /\ f[t] = HoursOn(k, done[t].load)
    <3> TAKE t \in DOMAIN done
    <3>1. t \in T BY DEF TasksOf
    <3>2. t[1] = pr BY <1>1 DEF Places
    <3> QED BY <3>1, <3>2 DEF PlaceOf
  <2>5. sums[pr] = SumFunctionOnSet(f, DOMAIN done) OBVIOUS
  <2>6. IsFiniteSet(DOMAIN done) BY <1>1 DEF Places
  <2> HIDE DEF mine, hours, each, sums, done
  <2>7. HoursOn(k, Total(mine)) = SumFunctionOnSet(hours, DOMAIN mine)
    BY <2>1, TotalIsLoad DEF hours
  <2>8. \A t \in DOMAIN done : hours[t] \in Int /\ hours[t] = f[t] BY <1>4, <2>3, <2>4
  <2>9. SumFunctionOnSet(hours, DOMAIN done) = SumFunctionOnSet(f, DOMAIN done)
        /\ SumFunctionOnSet(hours, DOMAIN done) \in Int
    BY <2>6, <2>8, SumSame, SumIsInt
  <2> QED BY <2>1, <2>2, <2>5, <2>7, <2>9
<1>6. AreParts(parts, f)
  <2>1. \A pr \in Committed : IsFiniteSet(parts[pr]) /\ \A t \in parts[pr] : t[1] = pr /\ t \in T
    BY <1>1 DEF Places, TasksOf
  <2>2. DOMAIN parts = Committed OBVIOUS
  <2> HIDE DEF parts, T
  <2> QED BY <1>2, <1>4, <2>1, <2>2 DEF AreParts
<1>7. UNION {parts[pr] : pr \in DOMAIN parts} = T BY DEF TasksOf
<1>8. DOMAIN parts = Committed OBVIOUS
<1> HIDE DEF parts, T
<1>9. SumFunctionOnSet(f, UNION {parts[pr] : pr \in DOMAIN parts})
          = SumFunctionOnSet(sums, DOMAIN parts)
  BY <1>6, SumOfParts
<1> HIDE DEF sums, loads
<1>10. HoursOn(k, Total(loads)) = SumFunctionOnSet(each, DOMAIN loads) BY <1>3, TotalIsLoad
<1>11. SumFunctionOnSet(each, Committed) = SumFunctionOnSet(sums, Committed)
  <2> HIDE DEF each
  <2> QED BY <1>2, <1>5, SumSame
<1>12. HoursOn(k, BookedBy(Committed)) = SumFunctionOnSet(each, Committed) BY <1>3, <1>10
<1>13. SumFunctionOnSet(f, T) = SumFunctionOnSet(sums, Committed) BY <1>7, <1>8, <1>9
<1> QED BY <1>11, <1>12, <1>13 DEF T

CommittedRows == UNION {plans[pr].rows : pr \in Committed}

LEMMA RowsAreRows ==
    ASSUME StoredInv, RowsInv, NEW prs \in SUBSET Stored
    PROVE  AreRows(UNION {plans[pr].rows : pr \in prs})
<1> DEFINE each == [pr \in prs |-> plans[pr].rows]
           all == UNION {plans[pr].rows : pr \in prs}
<1>1. all = UNION {each[pr] : pr \in prs} OBVIOUS
<1>2. IsFiniteSet(prs) BY FS_Subset DEF StoredInv
<1>3. \A pr \in prs : IsFiniteSet(each[pr]) /\ \A row \in each[pr] : Dated(row) /\ row.hours \in Nat
  BY DEF RowsInv, RowsFit, AreRows
<1> HIDE DEF each, all
<1>4. IsFiniteSet({each[pr] : pr \in prs}) BY <1>2, ImageIsFinite
<1>5. IsFiniteSet(all) BY <1>1, <1>3, <1>4, FS_UNION
<1>6. AreRows(all) BY <1>1, <1>3, <1>5 DEF AreRows
<1> QED BY <1>6 DEF all

(* On some days no more is booked for a person than the rows hold that     *)
(* show one of these days.                                                 *)
LEMMA HoursHaveRows ==
    ASSUME StoredInv, RowsInv, NEW p, NEW D, IsFiniteSet(D),
           NEW C, C = {row \in CommittedRows : row.person = p /\ D \cap TaskSpan(row) # {}},
           NEW hours, \A row \in C : hours[row] = row.hours,
           NEW day, \A d \in D : day[d] = HoursOn(<<p, d>>, BookedBy(Committed))
    PROVE  SumFunctionOnSet(day, D) <= SumFunctionOnSet(hours, C)
<1> DEFINE T == TasksOf(Committed)
           load(t) == PlaceOf(t).load
           X == {t \in T : \E d \in D : <<p, d>> \in DOMAIN load(t)}
           f == [t \in T |-> [d \in D |-> HoursOn(<<p, d>>, load(t))]]
           a == Across(f, T, D)
           b == Down(f, T, D)
           g == [t \in T |-> IF t \in X THEN HoursBy(load(t), p) ELSE 0]
<1>1. /\ IsFiniteSet(T)
      /\ \A t \in T : /\ t[1] \in Committed /\ t \in DOMAIN plans[t[1]].placed
                      /\ IsLoad(load(t))
  BY TasksArePlaced
<1>2. \A t \in T, d \in D : f[t][d] \in Int
  <2> TAKE t \in T, d \in D
  <2>1. IsABag(load(t)) BY <1>1 DEF IsLoad
  <2>2. f[t][d] = HoursOn(<<p, d>>, load(t)) OBVIOUS
  <2> HIDE DEF f, load
  <2>3. HoursOn(<<p, d>>, load(t)) \in Nat BY <2>1, LoadIsNat
  <2> QED BY <2>2, <2>3
<1>3. SumFunctionOnSet(a, T) = SumFunctionOnSet(b, D)
  <2> HIDE DEF f, T
  <2> QED BY <1>1, <1>2, SumSwap
<1>4. ASSUME NEW d \in D PROVE b[d] = day[d] /\ b[d] \in Int
  <2> DEFINE k == <<p, d>>
             col == [t \in T |-> f[t][d]]
  <2>1. b[d] = SumFunctionOnSet(col, T) BY DEF Down
  <2>2. \A t \in T : col[t] = HoursOn(k, PlaceOf(t).load) /\ col[t] \in Int BY <1>2
  <2>3. day[d] = HoursOn(k, BookedBy(Committed)) OBVIOUS
  <2> HIDE DEF col, k, b
  <2>4. HoursOn(k, BookedBy(Committed)) = SumFunctionOnSet(col, T)
    BY <2>2, BookedByTasks
  <2>5. SumFunctionOnSet(col, T) \in Int
    <3> HIDE DEF T
    <3> QED BY <1>1, <2>2, SumIsInt
  <2> QED BY <2>1, <2>3, <2>4, <2>5
<1>5. ASSUME NEW t \in T PROVE a[t] \in Int /\ g[t] \in Nat /\ a[t] <= g[t]
  <2> DEFINE l == load(t)
             h == f[t]
  <2>1. IsLoad(l) BY <1>1
  <2>2. \A d \in D : h[d] = HoursOn(<<p, d>>, l) OBVIOUS
  <2>3. a[t] = SumFunctionOnSet(h, D) BY DEF Across
  <2>4. t \in X => g[t] = HoursBy(l, p) OBVIOUS
  <2>5. t \notin X => g[t] = 0 /\ \A d \in D : <<p, d>> \notin DOMAIN l OBVIOUS
  <2> HIDE DEF l, h, a, g, X
  <2>6. /\ SumFunctionOnSet(h, D) \in Nat /\ HoursBy(l, p) \in Nat
        /\ SumFunctionOnSet(h, D) <= HoursBy(l, p)
        /\ (\A d \in D : <<p, d>> \notin DOMAIN l) => SumFunctionOnSet(h, D) = 0
    BY <2>1, <2>2, PersonDays
  <2> QED BY <2>3, <2>4, <2>5, <2>6
<1>6. X \in SUBSET T /\ \A t \in T \ X : g[t] = 0 OBVIOUS
<1> DEFINE row == [t \in X |-> CHOOSE x \in plans[t[1]].rows : IsRowOf(x, t, p, PlaceOf(t))]
<1>7. ASSUME NEW t \in X
      PROVE  row[t] \in C /\ row[t].task = t /\ hours[row[t]] = g[t]
  <2>1. PICK d \in D : <<p, d>> \in DOMAIN load(t) OBVIOUS
  <2>2. t[1] \in Committed /\ t \in DOMAIN plans[t[1]].placed /\ t[1] \in Stored
    BY <1>1 DEF Committed
  <2>3. RowsFit(plans[t[1]].placed, plans[t[1]].rows) BY <2>2 DEF RowsInv
  <2>4. p \in PeopleOf(load(t))
    <3>1. <<p, d>>[1] = p OBVIOUS
    <3> QED BY <2>1, <3>1 DEF PeopleOf
  <2>5. \E x \in plans[t[1]].rows : IsRowOf(x, t, p, PlaceOf(t))
    BY <2>2, <2>3, <2>4 DEF RowsFit, PlaceOf
  <2>6. row[t] \in plans[t[1]].rows /\ IsRowOf(row[t], t, p, PlaceOf(t)) BY <2>5
  <2>7. d \in PlaceOf(t).start..PlaceOf(t).end
    <3>1. <<p, d>>[2] = d OBVIOUS
    <3> QED BY <2>1, <2>2, <2>3, <3>1 DEF RowsFit, PlaceOf
  <2>8. Dated(row[t]) BY <2>3, <2>6 DEF RowsFit, AreRows
  <2> DEFINE x == row[t]
  <2>9. x \in CommittedRows BY <2>2, <2>6 DEF CommittedRows
  <2>10. g[t] = HoursBy(PlaceOf(t).load, p) OBVIOUS
  <2> HIDE DEF row, x, g, X, load
  <2>11. TaskSpan(x) = x.start..x.end BY <2>8, SpanOfDated DEF x
  <2>12. IsRowOf(x, t, p, PlaceOf(t)) BY <2>6 DEF x
  <2>13. d \in TaskSpan(x) /\ x.person = p /\ x.task = t /\ x.hours = HoursBy(PlaceOf(t).load, p)
    BY <2>7, <2>11, <2>12 DEF IsRowOf
  <2>14. x \in C BY <2>9, <2>13
  <2>15. hours[x] = x.hours BY <2>14
  <2> QED BY <2>10, <2>13, <2>14, <2>15 DEF x
<1> HIDE DEF row, a, b, g, X, T, f
<1>8. IsFiniteSet(X) BY <1>1, <1>6, FS_Subset
<1>9. SumFunctionOnSet(a, T) <= SumFunctionOnSet(g, T)
  <2>1. \A t \in T : a[t] \in Int /\ g[t] \in Int /\ a[t] <= g[t] BY <1>5
  <2> QED BY <1>1, <2>1, SumOrder
<1>10. SumFunctionOnSet(g, X) = SumFunctionOnSet(g, T)
  <2>1. \A t \in T : g[t] \in Nat BY <1>5
  <2> QED BY <1>1, <1>6, <2>1, SumPart
<1> DEFINE image == {row[t] : t \in X}
<1>11. SumFunctionOnSet(hours, image) = SumFunctionOnSet(g, X)
  <2>1. \A t \in X : g[t] \in Nat /\ hours[row[t]] = g[t] BY <1>5, <1>6, <1>7
  <2>2. \A t, u \in X : row[t] = row[u] => t = u
    <3> SUFFICES ASSUME NEW t \in X, NEW u \in X, row[t] = row[u] PROVE t = u OBVIOUS
    <3>1. row[t].task = t /\ row[u].task = u BY <1>7
    <3> QED BY <3>1
  <2> QED BY <1>8, <2>1, <2>2, SumImage
<1>12. SumFunctionOnSet(hours, image) <= SumFunctionOnSet(hours, C)
       /\ SumFunctionOnSet(hours, C) \in Nat
  <2>1. AreRows(CommittedRows)
    <3>1. Committed \in SUBSET Stored BY DEF Committed
    <3> QED BY <3>1, RowsAreRows DEF CommittedRows
  <2>2. C \in SUBSET CommittedRows OBVIOUS
  <2>3. IsFiniteSet(C) BY <2>1, <2>2, FS_Subset DEF AreRows
  <2>4. \A x \in C : hours[x] \in Nat BY <2>1, <2>2 DEF AreRows
  <2>5. image \in SUBSET C BY <1>7
  <2> HIDE DEF image
  <2> QED BY <2>3, <2>4, <2>5, SumPart, SumOfNat
<1>13. SumFunctionOnSet(b, D) = SumFunctionOnSet(day, D) /\ SumFunctionOnSet(b, D) \in Int
  BY <1>4, SumSame, SumIsInt
<1>14. SumFunctionOnSet(g, T) \in Nat
  <2>1. \A t \in T : g[t] \in Nat BY <1>5
  <2> QED BY <1>1, <2>1, SumOfNat
<1>15. SumFunctionOnSet(a, T) \in Int BY <1>3, <1>13
<1>16. SumFunctionOnSet(hours, image) \in Int BY <1>10, <1>11, <1>14
<1> HIDE DEF image
<1> QED BY <1>3, <1>9, <1>10, <1>11, <1>12, <1>13, <1>14, <1>15, <1>16

(* The board counts in slots of whole days, of the rows that were stored   *)
(* with each plan, proposals included; the heatmap counts the hours of the *)
(* committed allocations.  A person's slots hold all the hours of the      *)
(* heatmap if the window shows every day of the committed tasks, and a day *)
(* overloaded on the heatmap is so on the board if what is booked that day *)
(* begins and ends on it (build_member_cells, build_heatmap).              *)
THEOREM BoardHidesNothing == Spec => []BoardHoldsLoad
<1>1. Inv /\ RowsInv => BoardHoldsLoad
  <2> DEFINE booked == BookedBy(Committed)
             rows == UNION {plans[pr].rows : pr \in Stored}
             heat == [k \in DOMAIN booked |->
                          HeatCell(booked, today, BoardDays, k[1], k[2])]
             shown(p) == \A pr \in Committed : \A row \in plans[pr].rows :
                             row.person = p => TaskSpan(row) \subseteq BoardWindow
  <2> SUFFICES ASSUME Inv, RowsInv PROVE BoardHoldsLoad OBVIOUS
  <2>1. /\ StoredInv /\ IsLoad(booked) /\ Committed \in SUBSET Stored
        /\ Stored \in SUBSET Stored
    BY PlansAreLoads DEF Inv, Committed
  <2>2. AreRows(rows) /\ CommittedRows \in SUBSET rows
    BY <2>1, RowsAreRows DEF CommittedRows
  <2>3. IsFiniteSet(BoardWindow)
    <3>1. today \in Int /\ today + BoardDays - 1 \in Int
      BY <2>1, BookingAssumption DEF StoredInv, BoardDays
    <3> QED BY <3>1, FS_Interval DEF BoardWindow
  <2>4. /\ IsABag(booked) /\ IsFiniteSet(DOMAIN booked)
        /\ \A k \in DOMAIN booked : k \in (DOMAIN Capacity) \X Nat
    BY <2>1 DEF IsLoad
  <2>5. \A k : HoursOn(k, booked) \in Nat BY <2>4, LoadIsNat
  <2>6. ASSUME NEW k \in DOMAIN booked
        PROVE  /\ k = <<k[1], k[2]>> /\ heat[k] \in Nat /\ heat[k] <= HoursOn(k, booked)
               /\ heat[k] # 0 => k[2] \in BoardWindow /\ heat[k] = HoursOn(k, booked)
    <3>1. k = <<k[1], k[2]>> BY <2>4
    <3>2. heat[k] = IF k[2] \in BoardWindow THEN HoursOn(k, booked) ELSE 0
      BY <3>1 DEF HeatCell, BoardWindow
    <3>3. HoursOn(k, booked) \in Nat BY <2>5
    <3> HIDE DEF heat, booked
    <3> QED BY <3>1, <3>2, <3>3
  <2>7. ASSUME NEW p, shown(p)
        PROVE  SumFunctionOnSet(heat, {k \in DOMAIN booked : k[1] = p})
                   <= SlotHours * SumFunction(LoadRow(rows, p, BoardWindow).slots)
    <3> DEFINE K == {k \in DOMAIN booked : k[1] = p}
               D == {k[2] : k \in K}
               g == [d \in D |-> heat[<<p, d>>]]
               day == [d \in D |-> HoursOn(<<p, d>>, booked)]
               C == {row \in CommittedRows : row.person = p /\ D \cap TaskSpan(row) # {}}
               hours == [row \in C |-> row.hours]
    <3>1. IsFiniteSet(D)
      <4> DEFINE second == [k \in K |-> k[2]]
      <4>1. D = {second[k] : k \in K} OBVIOUS
      <4>2. IsFiniteSet(K) BY <2>4, FS_Subset
      <4> HIDE DEF second, K, D
      <4> QED BY <4>1, <4>2, ImageIsFinite
    <3>2. K = {p} \X D
      <4>1. \A k \in K : k = <<p, k[2]>> BY <2>6
      <4>2. \A d \in D : <<p, d>> \in K BY <4>1
      <4>3. \A k \in K : k \in {p} \X D BY <4>1
      <4> HIDE DEF K, D
      <4> QED BY <4>2, <4>3
    <3>3. \A d \in D : /\ g[d] \in Int /\ day[d] \in Int /\ g[d] <= day[d]
                       /\ g[d] = heat[<<p, d>>]
                       /\ day[d] = HoursOn(<<p, d>>, BookedBy(Committed))
      <4> TAKE d \in D
      <4>1. <<p, d>> \in K BY <3>2
      <4>2. <<p, d>> \in DOMAIN booked BY <4>1
      <4>3. g[d] = heat[<<p, d>>] /\ day[d] = HoursOn(<<p, d>>, booked) OBVIOUS
      <4> DEFINE k == <<p, d>>
      <4> HIDE DEF heat, g, day, k
      <4>4. heat[k] \in Nat /\ heat[k] <= HoursOn(k, booked) BY <2>6, <4>2 DEF k
      <4>5. HoursOn(k, booked) \in Nat BY <2>5
      <4> QED BY <4>3, <4>4, <4>5 DEF k
    <3>4. \A row \in C : /\ row.person = p /\ TaskSpan(row) \in SUBSET BoardWindow
                         /\ hours[row] = row.hours
      <4> TAKE row \in C
      <4>1. PICK pr \in Committed : row \in plans[pr].rows BY DEF CommittedRows
      <4> QED BY <2>7, <4>1
    <3>5. C \in SUBSET rows BY <2>2
    <3>6. C = {row \in CommittedRows : row.person = p /\ D \cap TaskSpan(row) # {}} OBVIOUS
    <3> HIDE DEF K, D, g, day, C, hours, heat
    <3>7. SumFunctionOnSet(heat, K) = SumFunctionOnSet(g, D)
      <4>1. ByDay(heat, K, p, g, D) BY <3>2, <3>3 DEF ByDay
      <4> QED BY <3>1, <4>1, SumOfPerson
    <3>8. /\ SumFunctionOnSet(g, D) <= SumFunctionOnSet(day, D)
          /\ SumFunctionOnSet(g, D) \in Int /\ SumFunctionOnSet(day, D) \in Int
      <4>1. \A d \in D : g[d] \in Int /\ day[d] \in Int /\ g[d] <= day[d] BY <3>3
      <4> QED BY <3>1, <4>1, SumOrder
    <3>9. SumFunctionOnSet(day, D) <= SumFunctionOnSet(hours, C)
      <4>1. \A d \in D : day[d] = HoursOn(<<p, d>>, BookedBy(Committed)) BY <3>3
      <4>2. \A row \in C : hours[row] = row.hours BY <3>4
      <4> QED BY <2>1, <3>1, <3>6, <4>1, <4>2, HoursHaveRows
    <3> DEFINE slots == SumFunction(LoadRow(rows, p, BoardWindow).slots)
    <3>10. /\ SumFunctionOnSet(hours, C) \in Nat
           /\ SumFunctionOnSet(hours, C) <= SlotHours * slots
      <4> HIDE DEF rows
      <4> QED BY <2>2, <2>3, <3>4, <3>5, BoardHoldsRows
    <3>11. SlotHours * slots \in Int
      <4>1. \A d \in BoardWindow : LoadRow(rows, p, BoardWindow).slots[d] \in Nat
        BY <2>2, SlotsHold
      <4> DEFINE s == LoadRow(rows, p, BoardWindow).slots
      <4>2. DOMAIN s = BoardWindow BY DEF LoadRow
      <4>3. \A d \in BoardWindow : s[d] \in Int BY <4>1
      <4> HIDE DEF s
      <4>4. SumFunction(s) = SumFunctionOnSet(s, BoardWindow)
        BY <4>2, Zenon DEF SumFunction
      <4>5. SumFunctionOnSet(s, BoardWindow) \in Int BY <2>3, <4>3, SumIsInt
      <4>6. slots \in Int BY <4>4, <4>5 DEF s
      <4> HIDE DEF slots
      <4> QED BY <4>6, SlotAssumption
    <3>12. SumFunctionOnSet(heat, K) <= SlotHours * slots
      <4> HIDE DEF slots
      <4> QED BY <3>7, <3>8, <3>9, <3>10, <3>11
    <3> QED BY <3>12 DEF K
  <2>8. ASSUME NEW k \in DOMAIN booked,
               heat[k] > Capacity[k[1]], Capacity[k[1]] % SlotHours = 0,
               \A row \in rows : row.person = k[1] /\ k[2] \in TaskSpan(row)
                                     => row.start = k[2] /\ row.end = k[2]
        PROVE  k[2] \in LoadRow(rows, k[1], BoardWindow).overloaded
    <3> DEFINE p == k[1]
               d == k[2]
               D == {d}
               day == [e \in D |-> HoursOn(<<p, e>>, booked)]
               C == {row \in CommittedRows : row.person = p /\ D \cap TaskSpan(row) # {}}
               mine == OnDay(rows, p, d)
               hours == [row \in mine |-> row.hours]
    <3>1. Capacity[p] \in Nat BY <2>4, GreedyAssumption
    <3>2. /\ k = <<p, d>> /\ heat[k] \in Nat
          /\ heat[k] # 0 => d \in BoardWindow /\ heat[k] = HoursOn(<<p, d>>, booked)
      BY <2>6
    <3>3. d \in BoardWindow /\ HoursOn(<<p, d>>, booked) > Capacity[p]
      <4>1. heat[k] > Capacity[p] BY <2>8
      <4> HIDE DEF heat, p, d
      <4>2. heat[k] # 0 BY <3>1, <3>2, <4>1
      <4> QED BY <3>2, <4>1, <4>2
    <3>4. C \in SUBSET mine BY <2>2 DEF OnDay
    <3>5. /\ \A row \in mine : row \in rows /\ hours[row] = row.hours /\ hours[row] \in Nat
          /\ IsFiniteSet(mine)
      <4>1. mine \in SUBSET rows BY DEF OnDay
      <4>2. IsFiniteSet(rows) /\ \A row \in rows : row.hours \in Nat BY <2>2 DEF AreRows
      <4>3. IsFiniteSet(mine)
        <5> HIDE DEF mine, rows
        <5> QED BY <4>1, <4>2, FS_Subset
      <4> HIDE DEF rows
      <4> QED BY <4>1, <4>2, <4>3
    <3>6. C = {row \in CommittedRows : row.person = p /\ D \cap TaskSpan(row) # {}} OBVIOUS
    <3>7. /\ \A e \in D : day[e] = HoursOn(<<p, e>>, BookedBy(Committed))
          /\ D = {d} /\ day[d] = HoursOn(<<p, d>>, booked)
      OBVIOUS
    <3>8. \A row \in rows : row.person = p /\ d \in TaskSpan(row) => row.start = d /\ row.end = d
      BY <2>8
    <3>9. Capacity[p] % SlotHours = 0 BY <2>8
    <3> HIDE DEF p, d, D, day, C, mine, hours, heat
    <3>10. IsFiniteSet(D) BY <3>7, FS_Singleton
    <3>11. SumFunctionOnSet(day, D) <= SumFunctionOnSet(hours, C)
      <4>1. \A row \in C : hours[row] = row.hours BY <3>4, <3>5
      <4> QED BY <2>1, <3>6, <3>7, <3>10, <4>1, HoursHaveRows
    <3>12. SumFunctionOnSet(day, D) = day[d] /\ day[d] \in Nat
      <4>1. day[d] \in Nat BY <2>5, <3>7
      <4>2. d \in D /\ day[d] \in Int /\ \A e \in D \ {d} : day[e] = 0 BY <3>7, <4>1
      <4> QED BY <3>10, <4>1, <4>2, SumOfOne
    <3>13. SumFunctionOnSet(hours, C) <= SumFunctionOnSet(hours, mine)
           /\ SumFunctionOnSet(hours, C) \in Nat /\ SumFunctionOnSet(hours, mine) \in Nat
      <4>1. IsFiniteSet(C) /\ \A row \in C : hours[row] \in Nat
        BY <3>4, <3>5, FS_Subset
      <4> QED BY <3>4, <3>5, <4>1, SumPart, SumOfNat
    <3>14. SumFunctionOnSet(hours, mine) > Capacity[p]
      BY <3>1, <3>3, <3>7, <3>11, <3>12, <3>13
    <3>15. d \in LoadRow(rows, p, BoardWindow).overloaded
      <4>1. \A row \in OnDay(rows, p, d) : hours[row] = row.hours BY <3>5 DEF mine
      <4>2. SumFunctionOnSet(hours, OnDay(rows, p, d)) > Capacity[p] BY <3>14 DEF mine
      <4> HIDE DEF rows
      <4> QED BY <2>2, <3>1, <3>3, <3>8, <3>9, <4>1, <4>2, BoardShowsDay
    <3> QED BY <3>15 DEF p, d
  <2> HIDE DEF heat, booked, rows
  <2>9. BoardHoldsLoad BY <2>7, <2>8, Zenon DEF BoardHoldsLoad, heat, booked, rows
  <2> QED BY <2>9
<1>2. Inv /\ RowsInv /\ [Next]_vars => RowsInv' BY RowsStay
<1> QED BY <1>1, <1>2, RowsAtFirst, Solving, PTL DEF Spec
=============================================================================
