-------------------------- MODULE PlanSyncProofs ---------------------------
(***************************************************************************)
(* Proofs about PlanSync for any tasks, people, days and handler slots.     *)
(***************************************************************************)
EXTENDS PlanSync, TLAPS

Charting == {"read_plan", "write_plan"}

(* What a running handler carries.                                          *)
RunOK(h) ==
    LET r == run[h] IN
    /\ r.at = "idle" => r = Idle
    /\ r.at # "idle" => r.task \in Tasks
    /\ r.at \in {"match", "read_rows", "write_rows"} => r.person \in People
    /\ r.at = "write_day" => r.person = None /\ r.day \in Days
    /\ r.at \in Charting /\ r.person = None => r.day \in Days

TypeInv == TypeOK /\ \A h \in Handlers : RunOK(h)

(* What has been on the board: the history holds every entry a handler may  *)
(* still put into the payload.                                              *)
Seen(t, e) == e.who \subseteq everOn[t] /\ e.day \in everDay[t]

FollowOK ==
    /\ \A t \in Tasks : Seen(t, payload[t]) /\ Seen(t, Chart0[t])
    /\ \A h \in Handlers : \A t \in Tasks : Seen(t, chartRead[h][t])
    /\ \A h \in Handlers : run[h].at \in Charting =>
          /\ run[h].person # None => run[h].person \in everOn[run[h].task]
          /\ run[h].person = None => run[h].day \in everDay[run[h].task]

(* The payload once the request of h is put into it.                        *)
Caught(h) ==
    \A t \in Tasks :
        /\ t # run[h].task \/ run[h].person = None => payload[t].who = assigned[t]
        /\ t # run[h].task \/ run[h].person # None => payload[t].day = day[t]
        /\ t = run[h].task => IF run[h].person # None THEN assigned[t] = {run[h].person}
                                                      ELSE day[t] = run[h].day

(* While nothing has been disturbed at most one handler runs, and only the  *)
(* entry it is about to change may differ from the rows.                    *)
CalmOK ==
    blemish = {} =>
        /\ committed \/ Quiet
        /\ \A h, g \in Handlers : h # g => run[h] = Idle \/ run[g] = Idle
        /\ (\A h \in Handlers : run[h].at \notin Charting) => Agree
        /\ \A h \in Handlers :
              /\ run[h].at \in Charting => Caught(h)
              /\ run[h].at = "write_plan" => chartRead[h] = payload
              /\ run[h].at = "write_rows" => rowsRead[h] = assigned[run[h].task]

IInv == TypeInv /\ FollowOK /\ CalmOK

-----------------------------------------------------------------------------
LEMMA IdleType == Idle \in Run
BY DEF Idle, Run, Labels

LEMMA Chart0Type == Chart0 \in Chart
BY SyncAssumption DEF Chart0, Chart, Entry

LEMMA GoType ==
    ASSUME run \in [Handlers -> Run], NEW h \in Handlers, NEW l \in Labels, Go(h, l)
    PROVE  run' \in [Handlers -> Run]
BY DEF Go, Run

LEMMA LeaveType ==
    ASSUME TypeOK, NEW h \in Handlers, Leave(h)
    PROVE  /\ run' \in [Handlers -> Run]
           /\ rowsRead' \in [Handlers -> SUBSET People]
           /\ chartRead' \in [Handlers -> Chart]
BY IdleType, Chart0Type DEF Leave, TypeOK

(* The payload a handler writes is again a payload.                         *)
LEMMA RevisedType ==
    ASSUME TypeInv, NEW h \in Handlers, run[h].at = "write_plan"
    PROVE  Revised(h) \in Chart
<1>1. chartRead[h] \in Chart BY DEF TypeInv, TypeOK
<1>2. run[h] \in Run /\ run[h].task \in Tasks BY DEF TypeInv, TypeOK, RunOK
<1>3. run[h].person # None => {run[h].person} \in SUBSET People BY <1>2 DEF Run
<1>4. run[h].person = None => run[h].day \in Days BY DEF TypeInv, RunOK, Charting
<1>5. ASSUME NEW e \in Entry
      PROVE  (IF run[h].person # None THEN [e EXCEPT !.who = {run[h].person}]
                                      ELSE [e EXCEPT !.day = run[h].day]) \in Entry
  BY <1>3, <1>4 DEF Entry
<1> QED BY <1>1, <1>2, <1>5 DEF Revised, Chart

LEMMA TypeStep ==
    ASSUME TypeInv, NEW h \in Handlers, Step(h)
    PROVE  TypeInv'
<1> USE DEF TypeInv, TypeOK, rows, reads
<1>0. run[h] \in Run OBVIOUS
<1>a. /\ \A l \in Labels : Go(h, l) => run' \in [Handlers -> Run]
      /\ Leave(h) => /\ run' \in [Handlers -> Run]
                     /\ rowsRead' \in [Handlers -> SUBSET People]
                     /\ chartRead' \in [Handlers -> Chart]
  BY GoType, LeaveType
<1>1. ASSUME NEW l \in Labels, NEW t \in Tasks, NEW p \in People \cup {None},
             NEW d \in Days \cup {None}, Begin(h, l, t, p, d)
      PROVE  TypeOK'
  <2>1. [at |-> l, task |-> t, person |-> p, day |-> d] \in Run BY DEF Run
  <2> QED BY <1>1, <2>1 DEF Begin
<1>2. TypeOK'
  <2> USE DEF Labels
  <2>1. CASE AskInChat(h) BY <2>1, <1>1 DEF AskInChat
  <2>2. CASE AskOnBoard(h) BY <2>2, <1>1 DEF AskOnBoard
  <2>3. CASE EditDates(h) BY <2>3, <1>1 DEF EditDates
  <2>4. CASE MatchTask(h) BY <2>4, <1>a DEF MatchTask
  <2>5. CASE SelectAssignments(h)
    <3>1. assigned[run[h].task] \subseteq People BY <2>5 DEF SelectAssignments, RunOK
    <3> QED BY <2>5, <3>1, <1>a DEF SelectAssignments
  <2>6. CASE ReplaceAssignments(h)
    <3>1. run[h].task \in Tasks /\ run[h].person \in People
      BY <2>6 DEF ReplaceAssignments, RunOK
    <3> QED BY <2>6, <3>1, <1>a DEF ReplaceAssignments
  <2>7. CASE FailAssignments(h) BY <2>7, <1>a DEF FailAssignments
  <2>8. CASE WriteTaskDay(h)
    <3>1. run[h].task \in Tasks /\ run[h].day \in Days BY <2>8 DEF WriteTaskDay, RunOK
    <3> QED BY <2>8, <3>1, <1>a DEF WriteTaskDay
  <2>9. CASE SelectPlan(h) BY <2>9, <1>a DEF SelectPlan
  <2>10. CASE WritePlan(h)
    <3>1. payload' \in Chart BY <2>10, RevisedType DEF WritePlan
    <3> QED BY <2>10, <3>1, <1>a, Chart0Type DEF WritePlan
  <2>11. CASE Audit(h) BY <2>11, <1>a DEF Audit
  <2>12. CASE Abort(h) BY <2>12, <1>a DEF Abort
  <2> QED BY <2>1, <2>2, <2>3, <2>4, <2>5, <2>6, <2>7, <2>8, <2>9, <2>10, <2>11, <2>12 DEF Step
<1>3. ASSUME NEW g \in Handlers PROVE RunOK(g)'
  <2>1. CASE g # h
    <3>1. run'[g] = run[g]
      BY <2>1
         DEF Step, AskInChat, AskOnBoard, EditDates, Begin, MatchTask, SelectAssignments,
             ReplaceAssignments, FailAssignments, WriteTaskDay, SelectPlan, WritePlan, Audit, Abort,
             Go, Leave
    <3> QED BY <3>1 DEF RunOK
  <2>2. CASE g = h
    <3> USE <2>2 DEF RunOK, Charting
    <3>1. CASE AskInChat(h) \/ AskOnBoard(h) \/ EditDates(h)
      BY <3>1 DEF AskInChat, AskOnBoard, EditDates, Begin
    <3>2. CASE Leave(h) BY <3>2 DEF Leave, Idle
    <3>3. CASE MatchTask(h) /\ ~Leave(h) BY <3>3 DEF MatchTask, Go, Run
    <3>4. CASE SelectAssignments(h) BY <3>4 DEF SelectAssignments, Go, Run
    <3>5. CASE ReplaceAssignments(h)
      <4>1. Go(h, "read_plan") /\ run[h].at = "write_rows" BY <3>5 DEF ReplaceAssignments
      <4>2. run' = [run EXCEPT ![h] = [run[h] EXCEPT !.at = "read_plan"]] BY <4>1 DEF Go
      <4>3. run'[h] = [run[h] EXCEPT !.at = "read_plan"] BY <4>2
      <4>4. /\ run'[h].at = "read_plan"
            /\ run'[h].person = run[h].person
            /\ run'[h].task = run[h].task
        BY <4>3, <1>0 DEF Run
      <4>5. run[h].person \in People /\ run[h].person # None BY <4>1, SyncAssumption
      <4> QED BY <4>1, <4>4, <4>5
    <3>6. CASE WriteTaskDay(h) BY <3>6 DEF WriteTaskDay, Go, Run
    <3>7. CASE SelectPlan(h)
      <4>1. PICK l \in {"write_plan", "audit"} : Go(h, l) BY <3>7 DEF SelectPlan
      <4>2. run' = [run EXCEPT ![h] = [run[h] EXCEPT !.at = l]] BY <4>1 DEF Go
      <4>3. run'[h] = [run[h] EXCEPT !.at = l] BY <4>2
      <4>4. /\ run'[h].at = l
            /\ run'[h].person = run[h].person
            /\ run'[h].task = run[h].task
            /\ run'[h].day = run[h].day
        BY <4>3, <1>0 DEF Run
      <4>5. run[h].at = "read_plan" BY <3>7 DEF SelectPlan
      <4> QED BY <4>4, <4>5
    <3>8. CASE WritePlan(h) BY <3>8 DEF WritePlan, Go, Run
    <3> QED
      BY <3>1, <3>2, <3>3, <3>4, <3>5, <3>6, <3>7, <3>8
         DEF Step, FailAssignments, Audit, Abort
  <2> QED BY <2>1, <2>2
<1> QED BY <1>2, <1>3

-----------------------------------------------------------------------------
(* Rows first, then the payload: no step puts it ahead of the history.      *)
LEMMA FollowStep ==
    ASSUME TypeInv, FollowOK, NEW h \in Handlers, Step(h)
    PROVE  FollowOK'
<1> USE DEF TypeInv, TypeOK, rows, reads, FollowOK
<1>0. TypeInv' BY TypeStep
<1>1. /\ \A t \in Tasks : everOn[t] \subseteq everOn'[t] /\ everDay[t] \subseteq everDay'[t]
      /\ Chart0' = Chart0
  <2>1. CASE ReplaceAssignments(h) BY <2>1 DEF ReplaceAssignments, Chart0
  <2>2. CASE WriteTaskDay(h) BY <2>2 DEF WriteTaskDay, Chart0
  <2>3. CASE ~ReplaceAssignments(h) /\ ~WriteTaskDay(h)
    <3>1. UNCHANGED <<everOn, everDay>>
      BY <2>3
         DEF Step, AskInChat, AskOnBoard, EditDates, Begin, MatchTask, SelectAssignments,
             FailAssignments, SelectPlan, WritePlan, Audit, Abort
    <3> QED BY <3>1 DEF Chart0
  <2> QED BY <2>1, <2>2, <2>3
<1>2. \A t \in Tasks : \A e : Seen(t, e) => Seen(t, e)' BY <1>1 DEF Seen
<1>3. \A t \in Tasks : Seen(t, payload[t])'
  <2>1. CASE WritePlan(h)
    <3>1. ASSUME NEW t \in Tasks PROVE Seen(t, Revised(h)[t])
      <4>1. Seen(t, chartRead[h][t]) /\ chartRead[h] \in Chart OBVIOUS
      <4>2. run[h].at \in Charting /\ run[h].task \in Tasks BY <2>1 DEF WritePlan, Charting, RunOK
      <4> QED BY <4>1, <4>2 DEF Revised, Seen, Chart, Entry
    <3>2. \A t \in Tasks : Seen(t, payload'[t]) BY <2>1, <3>1 DEF WritePlan
    <3> QED BY <2>1, <3>2 DEF WritePlan, Seen
  <2>2. CASE ~WritePlan(h)
    <3>1. payload' = payload
      BY <2>2
         DEF Step, AskInChat, AskOnBoard, EditDates, Begin, MatchTask, SelectAssignments,
             ReplaceAssignments, FailAssignments, WriteTaskDay, SelectPlan, Audit, Abort
    <3> QED BY <3>1, <1>2 DEF Seen
  <2> QED BY <2>1, <2>2
<1>4. \A t \in Tasks : Seen(t, Chart0[t])' BY <1>1, <1>2 DEF Seen
<1>5. ASSUME NEW g \in Handlers, NEW t \in Tasks PROVE Seen(t, chartRead[g][t])'
  <2>1. chartRead'[g] \in {chartRead[g], payload, Chart0}
    BY DEF Step, AskInChat, AskOnBoard, EditDates, Begin, MatchTask, SelectAssignments, Leave,
           ReplaceAssignments, FailAssignments, WriteTaskDay, SelectPlan, WritePlan, Audit, Abort
  <2>2. Seen(t, chartRead'[g][t]) BY <2>1
  <2> QED BY <2>2, <1>1 DEF Seen
<1>6. ASSUME NEW g \in Handlers, run'[g].at \in Charting
      PROVE  /\ run'[g].person # None => run'[g].person \in everOn'[run'[g].task]
             /\ run'[g].person = None => run'[g].day \in everDay'[run'[g].task]
  <2> USE DEF Charting
  <2>1. CASE run'[g] = run[g]
    <3>1. run[g].at \in Charting /\ run[g].task \in Tasks BY <2>1, <1>6 DEF RunOK
    <3>2. /\ run[g].person # None => run[g].person \in everOn[run[g].task]
          /\ run[g].person = None => run[g].day \in everDay[run[g].task]
      BY <3>1
    <3> QED BY <2>1, <3>1, <3>2, <1>1
  <2>2. CASE ReplaceAssignments(h) /\ g = h
    <3>1. run[h].task \in Tasks /\ run[h].person \in People /\ run[h].person # None
      BY <2>2, SyncAssumption DEF ReplaceAssignments, RunOK
    <3> QED BY <2>2, <3>1 DEF ReplaceAssignments, Go, Run
  <2>3. CASE WriteTaskDay(h) /\ g = h
    BY <2>3 DEF WriteTaskDay, Go, Run, RunOK
  <2>4. CASE SelectPlan(h) /\ g = h
    BY <2>4, <1>1 DEF SelectPlan, Go, Run, RunOK
  <2>5. run'[g] = run[g] \/ (g = h /\ (ReplaceAssignments(h) \/ WriteTaskDay(h) \/ SelectPlan(h)))
    BY <1>6
       DEF Step, AskInChat, AskOnBoard, EditDates, Begin, MatchTask, SelectAssignments, Leave, Go,
           ReplaceAssignments, FailAssignments, WriteTaskDay, SelectPlan, WritePlan, Audit, Abort,
           Idle, Run
  <2> QED BY <2>1, <2>2, <2>3, <2>4, <2>5
<1> QED BY <1>3, <1>4, <1>5, <1>6

-----------------------------------------------------------------------------
(* An undisturbed handler runs alone, on a committed plan.                  *)
LEMMA Alone ==
    ASSUME TypeInv, CalmOK, blemish = {}, NEW h \in Handlers, run[h] # Idle
    PROVE  /\ committed
           /\ run[h].at # "idle"
           /\ \A g \in Handlers : g # h => run[g] = Idle
           /\ IF run[h].at \in Charting THEN Caught(h) ELSE Agree
BY DEF CalmOK, Quiet, Idle, Charting, TypeInv, RunOK

(* What the steps of that one handler have to show.                         *)
LEMMA CalmAlone ==
    ASSUME NEW h \in Handlers, committed',
           \A g \in Handlers : g # h => run'[g] = Idle,
           IF run'[h].at \in Charting THEN Caught(h)' ELSE Agree',
           run'[h].at = "write_plan" => chartRead'[h] = payload',
           run'[h].at = "write_rows" => rowsRead'[h] = assigned'[run'[h].task]
    PROVE  CalmOK'
<1>1. \A g \in Handlers : g # h => run'[g].at = "idle" BY DEF Idle
<1>2. ASSUME NEW g \in Handlers
      PROVE  /\ run'[g].at \in Charting => Caught(g)'
             /\ run'[g].at = "write_plan" => chartRead'[g] = payload'
             /\ run'[g].at = "write_rows" => rowsRead'[g] = assigned'[run'[g].task]
  BY <1>1 DEF Charting
<1> QED BY <1>2 DEF CalmOK

LEMMA CalmStep ==
    ASSUME TypeInv, CalmOK, NEW h \in Handlers, Step(h)
    PROVE  CalmOK'
<1> USE DEF TypeInv, TypeOK, rows, reads
<1> SUFFICES ASSUME blemish' = {} PROVE CalmOK' BY DEF CalmOK
<1>1. blemish = {} /\ ~Abort(h)
  BY DEF Step, AskInChat, AskOnBoard, EditDates, Begin, MatchTask, SelectAssignments,
         ReplaceAssignments, FailAssignments, WriteTaskDay, SelectPlan, WritePlan, Audit, Abort
<1>2. CASE AskInChat(h) \/ AskOnBoard(h) \/ EditDates(h)
  <2>1. PICK l, t, p, d : /\ l \in {"match", "read_rows", "write_day"}
                          /\ Begin(h, l, t, p, d)
    BY <1>2 DEF AskInChat, AskOnBoard, EditDates
  <2>2. Quiet /\ committed BY <2>1 DEF Begin
  <2>3. Agree BY <1>1, <2>2 DEF CalmOK, Quiet, Idle, Charting
  <2>4. \A g \in Handlers : g # h => run'[g] = Idle BY <2>1, <2>2 DEF Begin, Quiet
  <2>5. run'[h].at \in {"match", "read_rows", "write_day"} BY <2>1 DEF Begin
  <2>6. Agree' /\ committed' BY <2>1, <2>2, <2>3 DEF Begin, Agree
  <2> QED BY <2>4, <2>5, <2>6, CalmAlone DEF Charting
<1>3. CASE ~(AskInChat(h) \/ AskOnBoard(h) \/ EditDates(h))
  <2>1. run[h] # Idle
    BY <1>3
       DEF Step, MatchTask, SelectAssignments, ReplaceAssignments, FailAssignments, WriteTaskDay,
           SelectPlan, WritePlan, Audit, Abort, Idle
  <2>2. /\ committed
        /\ \A g \in Handlers : g # h => run[g] = Idle
        /\ IF run[h].at \in Charting THEN Caught(h) ELSE Agree
        /\ run[h].task \in Tasks
    BY <1>1, <2>1, Alone DEF RunOK
  <2>3. committed' /\ \A g \in Handlers : g # h => run'[g] = Idle
    BY <1>1, <1>3, <2>2
       DEF Step, MatchTask, SelectAssignments, ReplaceAssignments, FailAssignments, WriteTaskDay,
           SelectPlan, WritePlan, Audit, Go, Leave
  <2> USE DEF Charting
  <2>4. CASE MatchTask(h)
    <3>1. Agree' BY <2>4, <2>2 DEF MatchTask, Agree
    <3>2. run'[h].at \in {"read_rows", "idle"} BY <2>4 DEF MatchTask, Go, Leave, Idle, Run
    <3> QED BY <2>3, <3>1, <3>2, CalmAlone
  <2>5. CASE SelectAssignments(h)
    <3>1. Agree' BY <2>5, <2>2 DEF SelectAssignments, Agree
    <3>2. run'[h].at = "write_rows" /\ rowsRead'[h] = assigned'[run'[h].task]
      BY <2>5 DEF SelectAssignments, Go, Run
    <3> QED BY <2>3, <3>1, <3>2, CalmAlone
  <2>6. CASE ReplaceAssignments(h)
    <3>1. run[h].person \in People /\ run[h].person # None
      BY <2>6, SyncAssumption DEF ReplaceAssignments, RunOK
    <3>2. run'[h].at = "read_plan" /\ run'[h].task = run[h].task /\ run'[h].person = run[h].person
      BY <2>6 DEF ReplaceAssignments, Go, Run
    <3>3. rowsRead[h] = assigned[run[h].task]
      BY <2>6, <1>1 DEF CalmOK, ReplaceAssignments
    <3>4. assigned' = [assigned EXCEPT ![run[h].task] = {run[h].person}]
      BY <2>6, <3>3, <2>2 DEF ReplaceAssignments
    <3>5. Agree BY <2>6, <2>2 DEF ReplaceAssignments
    <3>6. payload' = payload /\ day' = day BY <2>6 DEF ReplaceAssignments
    <3>7. ASSUME NEW t \in Tasks
          PROVE  /\ payload[t].who = assigned[t] /\ payload[t].day = day[t]
                 /\ assigned'[t] = IF t = run[h].task THEN {run[h].person} ELSE assigned[t]
      <4>1. payload[t] = [who |-> assigned[t], day |-> day[t]] BY <3>5 DEF Agree
      <4>2. assigned \in [Tasks -> SUBSET People] OBVIOUS
      <4> QED BY <3>4, <4>1, <4>2
    <3>8. Caught(h)' BY <3>1, <3>2, <3>6, <3>7 DEF Caught
    <3> QED BY <2>3, <3>2, <3>8, CalmAlone
  <2>7. CASE FailAssignments(h)
    <3>1. Agree' BY <2>7, <2>2 DEF FailAssignments, Agree
    <3>2. run'[h].at = "idle" BY <2>7 DEF FailAssignments, Leave, Idle
    <3> QED BY <2>3, <3>1, <3>2, CalmAlone
  <2>8. CASE WriteTaskDay(h)
    <3>1. run[h].person = None BY <2>8 DEF WriteTaskDay, RunOK
    <3>2. /\ run'[h].at = "read_plan" /\ run'[h].task = run[h].task
          /\ run'[h].person = None /\ run'[h].day = run[h].day
      BY <2>8, <3>1 DEF WriteTaskDay, Go, Run
    <3>3. Agree BY <2>8, <2>2 DEF WriteTaskDay
    <3>4. /\ payload' = payload /\ assigned' = assigned
          /\ day' = [day EXCEPT ![run[h].task] = run[h].day]
      BY <2>8 DEF WriteTaskDay
    <3>5. ASSUME NEW t \in Tasks
          PROVE  /\ payload[t].who = assigned[t] /\ payload[t].day = day[t]
                 /\ day'[t] = IF t = run[h].task THEN run[h].day ELSE day[t]
      <4>1. payload[t] = [who |-> assigned[t], day |-> day[t]] BY <3>3 DEF Agree
      <4>2. day \in [Tasks -> Days] OBVIOUS
      <4> QED BY <3>4, <4>1, <4>2
    <3>6. Caught(h)' BY <3>2, <3>4, <3>5 DEF Caught
    <3> QED BY <2>3, <3>2, <3>6, CalmAlone
  <2>9. CASE SelectPlan(h)
    <3>1. /\ run'[h].at = "write_plan" /\ chartRead'[h] = payload'
          /\ run'[h].task = run[h].task /\ run'[h].person = run[h].person
          /\ run'[h].day = run[h].day
      BY <2>9, <2>2 DEF SelectPlan, Go, Run
    <3>2. Caught(h)' BY <2>9, <2>2, <3>1 DEF SelectPlan, Caught
    <3> QED BY <2>3, <3>1, <3>2, CalmAlone
  <2>10. CASE WritePlan(h)
    <3>1. chartRead[h] = payload /\ Caught(h) /\ payload \in [Tasks -> Entry]
      BY <2>10, <1>1, <2>2 DEF CalmOK, WritePlan, Chart
    <3>2. payload' = Revised(h) BY <2>10, <3>1 DEF WritePlan
    <3>3. ASSUME NEW t \in Tasks PROVE Revised(h)[t] = [who |-> assigned[t], day |-> day[t]]
      <4>1. payload[t] \in Entry BY <3>1
      <4>2. CASE t # run[h].task BY <4>1, <4>2, <3>1 DEF Revised, Caught, Entry
      <4>3. CASE t = run[h].task BY <4>1, <4>3, <3>1 DEF Revised, Caught, Entry
      <4> QED BY <4>2, <4>3
    <3>4. Agree' BY <2>10, <3>2, <3>3 DEF WritePlan, Agree
    <3>5. run'[h].at = "audit" BY <2>10 DEF WritePlan, Go, Run
    <3> QED BY <2>3, <3>4, <3>5, CalmAlone
  <2>11. CASE Audit(h)
    <3>1. Agree' BY <2>11, <2>2 DEF Audit, Agree
    <3>2. run'[h].at = "idle" BY <2>11 DEF Audit, Leave, Idle
    <3> QED BY <2>3, <3>1, <3>2, CalmAlone
  <2> QED BY <1>1, <1>3, <2>4, <2>5, <2>6, <2>7, <2>8, <2>9, <2>10, <2>11 DEF Step
<1> QED BY <1>2, <1>3

-----------------------------------------------------------------------------
(* The invariant holds in every reachable state.                            *)
THEOREM Inductive == Spec => []IInv
<1>1. Init => IInv
  <2> SUFFICES ASSUME Init PROVE IInv OBVIOUS
  <2>1. TypeInv
    BY SyncAssumption, IdleType, Chart0Type DEF Init, TypeInv, TypeOK, RunOK, Idle, Charting
  <2>2. FollowOK BY DEF Init, FollowOK, Seen, Chart0, Idle, Charting
  <2>3. CalmOK BY DEF Init, CalmOK, Agree, Chart0, Idle, Charting, Quiet
  <2> QED BY <2>1, <2>2, <2>3 DEF IInv
<1>2. IInv /\ [Next]_vars => IInv'
  <2> SUFFICES ASSUME IInv, [Next]_vars PROVE IInv' OBVIOUS
  <2>1. CASE UNCHANGED vars
    BY <2>1
       DEF IInv, TypeInv, TypeOK, RunOK, FollowOK, Seen, CalmOK, Caught, Agree, Quiet, Chart0,
           vars, rows, reads
  <2>2. CASE Commit
    BY <2>2
       DEF Commit, IInv, TypeInv, TypeOK, RunOK, FollowOK, Seen, CalmOK, Caught, Agree, Quiet,
           Chart0, rows, reads
  <2>3. ASSUME NEW h \in Handlers, Step(h) PROVE IInv'
    BY <2>3, TypeStep, FollowStep, CalmStep DEF IInv
  <2> QED BY <2>1, <2>2, <2>3 DEF Next
<1> QED BY <1>1, <1>2, PTL DEF Spec

(* Every variable keeps its type, whatever races or is cut.                 *)
THEOREM SyncTypeCorrect == Spec => []TypeOK
<1>1. IInv => TypeOK BY DEF IInv, TypeInv
<1> QED BY <1>1, Inductive, PTL

(* The payload never shows what the rows have not shown: lost updates, cut  *)
(* handlers and failed flushes only leave it behind.                        *)
THEOREM ChartNeverLeads == Spec => []ChartFollowsRows
<1>1. IInv => ChartFollowsRows BY DEF IInv, FollowOK, Seen, ChartFollowsRows
<1> QED BY <1>1, Inductive, PTL

(* Rows and payload agree at rest when no change overlapped another one,    *)
(* began before the commit or was cut.                                      *)
THEOREM UndisturbedInSync == Spec => []InSync
<1>1. IInv => InSync BY DEF IInv, CalmOK, InSync, Quiet, Idle, Charting
<1> QED BY <1>1, Inductive, PTL
=============================================================================
