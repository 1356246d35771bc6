------------------------------ MODULE PlanSync ------------------------------
(***************************************************************************)
(* Who does a task and when, kept twice: in the rows of the tasks and       *)
(* assignments tables (the board) and in the payload of the project's plan  *)
(* version (the gantt and the load).  Chat and web handlers change both,    *)
(* one transaction after the other.                                         *)
(*                                                                         *)
(* The sessions run at READ COMMITTED and read before they write, so a      *)
(* transaction is a read action and a write action.  A task is in the       *)
(* payload of one plan, and each write touches the payload of one plan: the *)
(* model has the tasks of a single project.                                 *)
(***************************************************************************)
EXTENDS Naturals, FiniteSets

CONSTANTS
    Tasks,     \* the tasks of the project
    People,
    Days,
    Handlers,  \* slots for concurrently running chat and web handlers
    Team0,     \* [Tasks -> the people the solver put on the task]
    Day0,      \* [Tasks -> the day the solver planned]
    None       \* no task, person or day

ASSUME SyncAssumption ==
    /\ Team0 \in [Tasks -> SUBSET People]
    /\ Day0 \in [Tasks -> Days]
    /\ None \notin Tasks \cup People \cup Days

VARIABLES
    committed,   \* is the plan version committed (or still proposed)?
    assigned,    \* [Tasks -> the people with an assignments row]
    day,         \* [Tasks -> the date of the tasks row]
    payload,     \* [Tasks -> the task's entry of the plan payload]
    run,         \* [Handlers -> the running handler of that slot]
    rowsRead,    \* [Handlers -> the assignments rows it selected]
    chartRead,   \* [Handlers -> the payload it selected]
    everOn,      \* history: [Tasks -> everyone who ever had a row]
    everDay,     \* history: [Tasks -> every date its row ever had]
    blemish      \* history: which disturbances there have been

rows    == <<assigned, day, everOn, everDay>>
reads   == <<rowsRead, chartRead>>
vars    == <<committed, rows, payload, run, reads, blemish>>

Entry  == [who : SUBSET People, day : Days]
Chart  == [Tasks -> Entry]
Chart0 == [t \in Tasks |-> [who |-> Team0[t], day |-> Day0[t]]]

Labels == {"idle", "match", "read_rows", "write_rows", "write_day",
           "read_plan", "write_plan", "audit"}

(* A running request: a reassignment has a person, a date edit has a day.   *)
Run == [at : Labels, task : Tasks \cup {None}, person : People \cup {None},
        day : Days \cup {None}]

Idle == [at |-> "idle", task |-> None, person |-> None, day |-> None]

TypeOK ==
    /\ committed \in BOOLEAN
    /\ assigned \in [Tasks -> SUBSET People]
    /\ day \in [Tasks -> Days]
    /\ payload \in Chart
    /\ run \in [Handlers -> Run]
    /\ rowsRead \in [Handlers -> SUBSET People]
    /\ chartRead \in [Handlers -> Chart]
    /\ everOn \in [Tasks -> SUBSET People]
    /\ everDay \in [Tasks -> SUBSET Days]
    /\ blemish \subseteq {"overlap", "early", "cut"}

(* The rows and the payload as add-project stored them.                     *)
Init ==
    /\ committed = FALSE
    /\ assigned = Team0
    /\ day = Day0
    /\ payload = Chart0
    /\ run = [h \in Handlers |-> Idle]
    /\ rowsRead = [h \in Handlers |-> {}]
    /\ chartRead = [h \in Handlers |-> Chart0]
    /\ everOn = Team0
    /\ everDay = [t \in Tasks |-> {Day0[t]}]
    /\ blemish = {}

Quiet == \A h \in Handlers : run[h] = Idle

-----------------------------------------------------------------------------
Begin(h, label, t, p, d) ==
    /\ run[h] = Idle
    /\ run' = [run EXCEPT ![h] = [at |-> label, task |-> t, person |-> p, day |-> d]]
    /\ blemish' = blemish \cup (IF Quiet THEN {} ELSE {"overlap"})
                          \cup (IF committed THEN {} ELSE {"early"})
    /\ UNCHANGED <<committed, rows, payload, reads>>

Go(h, label) == run' = [run EXCEPT ![h].at = label]

(* The handler returns; what it had read goes with it.                      *)
Leave(h) ==
    /\ run' = [run EXCEPT ![h] = Idle]
    /\ rowsRead' = [rowsRead EXCEPT ![h] = {}]
    /\ chartRead' = [chartRead EXCEPT ![h] = Chart0]

(* The three entry points.  The board picks a task by its id, the chat by   *)
(* its name.                                                                *)
AskInChat(h)  == \E t \in Tasks, p \in People : Begin(h, "match", t, p, None)
AskOnBoard(h) == \E t \in Tasks, p \in People : Begin(h, "read_rows", t, p, None)
EditDates(h)  == \E t \in Tasks, d \in Days : Begin(h, "write_day", t, None, d)

(* The proposal is confirmed; a reset or a new plan is left out.            *)
Commit ==
    /\ ~committed
    /\ committed' = TRUE
    /\ UNCHANGED <<rows, payload, run, reads, blemish>>

(* list_tasks_with_meta returns a task once per assignee, and more than one *)
(* candidate is answered with a question.                                   *)
MatchTask(h) ==
    /\ run[h].at = "match"
    /\ IF Cardinality(assigned[run[h].task]) <= 1
       THEN Go(h, "read_rows") /\ UNCHANGED reads
       ELSE Leave(h)
    /\ UNCHANGED <<committed, rows, payload, blemish>>

-----------------------------------------------------------------------------
(* set_task_assignee: select the rows, delete them, add the new one.        *)

(* Mutant: the handler goes straight to the payload.                        *)
SelectAssignmentsSkips(h) ==
    /\ run[h].at = "read_rows"
    /\ Go(h, "read_plan")
    /\ UNCHANGED <<committed, rows, payload, reads, blemish>>

SelectAssignments(h) ==
    /\ run[h].at = "read_rows"
    /\ rowsRead' = [rowsRead EXCEPT ![h] = assigned[run[h].task]]
    /\ Go(h, "write_rows")
    /\ UNCHANGED <<committed, rows, payload, chartRead, blemish>>

(* Mutant: the new row is added and the old ones stay.                      *)
ReplaceAssignmentsKeeps(h) ==
    LET t == run[h].task
    IN  /\ run[h].at = "write_rows"
        /\ assigned' = [assigned EXCEPT ![t] = @ \cup {run[h].person}]
        /\ everOn' = [everOn EXCEPT ![t] = @ \cup {run[h].person}]
        /\ rowsRead' = [rowsRead EXCEPT ![h] = {}]
        /\ Go(h, "read_plan")
        /\ UNCHANGED <<committed, day, everDay, payload, chartRead, blemish>>

(* A row to add that somebody else added since, or to keep that somebody    *)
(* else deleted since, breaks the flush: the transaction rolls back.        *)
Clash(h) ==
    LET t == run[h].task
        p == run[h].person
    IN  IF p \in rowsRead[h] THEN p \notin assigned[t] ELSE p \in assigned[t]

ReplaceAssignments(h) ==
    LET t == run[h].task
        p == run[h].person
    IN  /\ run[h].at = "write_rows"
        /\ ~Clash(h)
        /\ assigned' = [assigned EXCEPT ![t] = (@ \ rowsRead[h]) \cup {p}]
        /\ everOn' = [everOn EXCEPT ![t] = @ \cup {p}]
        /\ rowsRead' = [rowsRead EXCEPT ![h] = {}]
        /\ Go(h, "read_plan")
        /\ UNCHANGED <<committed, day, everDay, payload, chartRead, blemish>>

FailAssignments(h) ==
    /\ run[h].at = "write_rows"
    /\ Clash(h)
    /\ Leave(h)
    /\ UNCHANGED <<committed, rows, payload, blemish>>

(* update_task_schedule.                                                    *)
WriteTaskDay(h) ==
    LET t == run[h].task
    IN  /\ run[h].at = "write_day"
        /\ day' = [day EXCEPT ![t] = run[h].day]
        /\ everDay' = [everDay EXCEPT ![t] = @ \cup {run[h].day}]
        /\ Go(h, "read_plan")
        /\ UNCHANGED <<committed, assigned, everOn, payload, reads, blemish>>

-----------------------------------------------------------------------------
(* reassign_in_plan and update_schedule_in_plan: select the committed       *)
(* plans, change the entry in a copy of the payload, write the copy.        *)

SelectPlan(h) ==
    /\ run[h].at = "read_plan"
    /\ IF committed
       THEN Go(h, "write_plan") /\ chartRead' = [chartRead EXCEPT ![h] = payload]
       ELSE Go(h, "audit") /\ UNCHANGED chartRead
    /\ UNCHANGED <<committed, rows, payload, rowsRead, blemish>>

(* Mutant: a field left empty in the request is written too.                *)
RevisedBoth(h) ==
    [chartRead[h] EXCEPT ![run[h].task] =
        [who |-> {run[h].person}, day |-> run[h].day]]

(* A reassignment puts the person on every allocation of the task.          *)
Revised(h) ==
    [chartRead[h] EXCEPT ![run[h].task] =
        IF run[h].person # None THEN [@ EXCEPT !.who = {run[h].person}]
                                ELSE [@ EXCEPT !.day = run[h].day]]

(* A copy equal to what was selected is not written.                        *)
WritePlan(h) ==
    /\ run[h].at = "write_plan"
    /\ payload' = IF Revised(h) = chartRead[h] THEN payload ELSE Revised(h)
    /\ chartRead' = [chartRead EXCEPT ![h] = Chart0]
    /\ Go(h, "audit")
    /\ UNCHANGED <<committed, rows, rowsRead, blemish>>

(* The audit row is only ever appended; the reply ends the handler.         *)
Audit(h) ==
    /\ run[h].at = "audit"
    /\ Leave(h)
    /\ UNCHANGED <<committed, rows, payload, blemish>>

(* An exception at an await, or the process dies.                           *)
Abort(h) ==
    /\ run[h] # Idle
    /\ Leave(h)
    /\ blemish' = blemish \cup {"cut"}
    /\ UNCHANGED <<committed, rows, payload>>

Step(h) ==
    \/ AskInChat(h) \/ AskOnBoard(h) \/ EditDates(h)
    \/ MatchTask(h) \/ SelectAssignments(h) \/ ReplaceAssignments(h) \/ FailAssignments(h)
    \/ WriteTaskDay(h) \/ SelectPlan(h) \/ WritePlan(h) \/ Audit(h) \/ Abort(h)

Next == Commit \/ \E h \in Handlers : Step(h)

Spec == Init /\ [][Next]_vars

-----------------------------------------------------------------------------
(* Properties.                                                              *)

(* The gantt and the load never show a person or a date the board has not   *)
(* shown first: both handlers write the rows before the payload, and a      *)
(* failed or cut handler, or a lost update, leaves the payload behind the   *)
(* rows but never ahead of them.                                            *)
ChartFollowsRows ==
    \A t \in Tasks : payload[t].who \subseteq everOn[t] /\ payload[t].day \in everDay[t]

Agree == \A t \in Tasks : payload[t] = [who |-> assigned[t], day |-> day[t]]

(* Rows and payload agree whenever no handler is running, provided *)
(* that no two changes have overlapped, none was begun before the plan was  *)
(* committed and none was cut.                                              *)
InSync == Quiet /\ blemish = {} => Agree

(* "Keep the committed PlanVersion payload in sync" also when two people    *)
(* change the plan at once.                                                 *)
InSyncUnderOverlap == Quiet /\ blemish \subseteq {"overlap"} => Agree

(* The same for changes made while the plan is only proposed, once it is    *)
(* committed.                                                               *)
InSyncFromProposal == Quiet /\ committed /\ blemish \subseteq {"early"} => Agree
=============================================================================
