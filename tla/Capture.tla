------------------------------- MODULE Capture -------------------------------
(***************************************************************************)
(* From a message to captured tasks.  With an agent, a turn is a loop of    *)
(* model answers, each a list of tool calls on a toolbox made for the turn; *)
(* a capture that lacks a key field is put aside, and the fields are asked  *)
(* for with keyboards, whose taps and typed answers are handlers of their   *)
(* own over the user's FSM data.  Without one, and for the text of an edit  *)
(* that is awaited, the parsed intents are dispatched in order.  All of them *)
(* interleave, and the process restarts.                                    *)
(***************************************************************************)
EXTENDS TaskCapture

CONSTANTS Users,        (* who may speak to the bot in the chat               *)
          Admins,
          Wants,        (* captures asked for: [title, project, people, deadline] *)
          Calls,        (* the other tool calls of the model: [tool, ...]     *)
          Answers(_),   (* the lists of calls, out of a set of calls, of one answer *)
          People,       (* the roster, in order of names                      *)
          Today,        (* what a tapped or a usable typed date comes to      *)
          Typed,        (* the new titles users type                          *)
          Budgets       (* bounds: [messages, rounds, taps, failures], of which *)
                        (* rounds is _MAX_ITERS                               *)

(* What people say of a task has these fields, the other tools capture       *)
(* nothing, and an answer of the model is a list of the calls there are.     *)
CaptureCalls == {[tool |-> "capture_task", want |-> w] : w \in Wants}

ASSUME CaptureAssumption ==
    /\ \A w \in Wants :
           /\ w = [title |-> w.title, project |-> w.project, people |-> w.people,
                  deadline |-> w.deadline]
           /\ w.people \in Seq(ToSet(w.people))
    /\ \A c \in Calls : c.tool # "capture_task"
    /\ Answers(Wants) \subseteq Seq(Wants)
    /\ Answers(CaptureCalls \cup Calls) \subseteq Seq(CaptureCalls \cup Calls)
    /\ Seeded \in Seq(ToSet(Seeded)) /\ People \in Seq(ToSet(People))
    /\ None \notin Nat \cup {"proposed"}

VARIABLES wired,      (* is there an agent?  Fixed when the program starts    *)
          run,        (* handler -> what it does                              *)
          fsm,        (* user -> FSM data and state                           *)
          keyboards,  (* the questions sent: [user, field, options, n, ...]   *)
          left        (* what is left of the bounds of this execution         *)

vars == <<projects, tasks, capture, wired, run, fsm, keyboards, left>>

Idle == [at |-> "idle"]
Fields == {"project", "people"}
Blank == [title |-> None, project |-> None, people |-> <<>>, deadline |-> None]

(* typing is the FSM state: what the next text is the answer to, if at all.  *)
NoData == [capture |-> Blank, typing |-> None, options |-> [f \in Fields |-> <<>>]]

Init ==
    /\ StoreInit
    /\ wired \in BOOLEAN
    /\ run = [h \in Handlers |-> Idle]
    /\ fsm = [u \in Users |-> NoData]
    /\ keyboards = {}
    /\ left \in Budgets

(* Mutant: the deadline is left empty. *)
MissingButDeadline(want) == {f \in Fields : want[f] \in {None, <<>>}}

(* _missing *)
Missing(want) == {f \in Fields \cup {"deadline"} : want[f] \in {None, <<>>}}

(* The order in which the fields are asked for. *)
FirstOf(missing) ==
    CASE "project" \in missing -> "project"
      [] "project" \notin missing /\ "people" \in missing -> "people"
      [] missing \cap Fields = {} -> "deadline"

Spend(what) ==
    /\ left[what] > 0
    /\ left' = [left EXCEPT ![what] = @ - 1]

To(h, at) == run' = [run EXCEPT ![h].at = at]

-----------------------------------------------------------------------------
(* A turn of the agent *)

(* Of these last, wrote, broken, refused and other are not in the code: what *)
(* became of the last plan asked for, the tasks captured, those whose capture *)
(* was cut, the cards that a merge was refused for since, and whether another *)
(* tool stored something.                                                    *)
NewBox == [pending |-> None, cards |-> <<>>, merged |-> <<>>, proposed |-> None,
           last |-> None, wrote |-> {}, broken |-> {}, refused |-> {}, other |-> FALSE]

(* A voice message or a command goes to the agent if there is one, and so    *)
(* does a text; but where an edit is awaited a text is handled without it.   *)
Message(h, u) ==
    /\ run[h] = Idle
    /\ Spend("messages")
    /\ \/ /\ wired
          /\ run' = [run EXCEPT ![h] = [at |-> "model", user |-> u, calls |-> <<>>,
                                        todo |-> <<>>, rounds |-> 0, box |-> NewBox]]
       \/ /\ wired => fsm[u].typing = "edit"
          /\ \E wants \in Answers(Wants) :
                 run' = [run EXCEPT ![h] = [at |-> "dispatch", user |-> u, calls |-> wants]]
    /\ UNCHANGED <<store, wired, fsm, keyboards>>

Think(h) ==
    /\ run[h].at = "model"
    /\ run[h].rounds < left.rounds
    /\ \E calls \in Answers(CaptureCalls \cup Calls) :
           run' = [run EXCEPT ![h].at = "tool", ![h].calls = calls, ![h].rounds = @ + 1]
    /\ UNCHANGED <<store, wired, fsm, keyboards, left>>

Call(h, tool) ==
    /\ run[h].at = "tool"
    /\ run[h].calls # <<>>
    /\ Head(run[h].calls).tool = tool

Box(h) == run[h].box

(* A call has its result, with the toolbox as it leaves it; after the last   *)
(* one the model is asked again.                                             *)
Result(h, box) ==
    run' = [run EXCEPT ![h].at = IF Len(run[h].calls) = 1 THEN "model" ELSE "tool",
                       ![h].calls = Tail(@), ![h].box = box]

(* replan only tells.                                                        *)
WriteTools == {"capture_task", "plan_project", "set_vacation", "assign_task",
               "mark_task_done"}

(* Read tools change nothing, nor does a write tool when the author is no    *)
(* administrator.                                                            *)
CallWithoutEffect(h) ==
    /\ run[h].at = "tool"
    /\ run[h].calls # <<>>
    /\ Head(run[h].calls).tool \in WriteTools => run[h].user \notin Admins
    /\ Result(h, Box(h))
    /\ UNCHANGED <<store, wired, fsm, keyboards, left>>

Wanted(h) == Head(run[h].calls).want

CapturePending(h) ==
    /\ Call(h, "capture_task")
    /\ run[h].user \in Admins
    /\ Missing(Wanted(h)) # {}
    /\ Result(h, [Box(h) EXCEPT !.pending = Wanted(h)])
    /\ UNCHANGED <<store, wired, fsm, keyboards, left>>

(* A title of this turn: whatever its project, it is that task, which is     *)
(* given to those of the people who do not have it by the card.              *)
CaptureAgain(h) ==
    /\ Call(h, "capture_task")
    /\ run[h].user \in Admins
    /\ Missing(Wanted(h)) = {}
    /\ Wanted(h).title \in DOMAIN Box(h).merged
    /\ run' = [run EXCEPT ![h].at = "merge", ![h].todo = Wanted(h).people]
    /\ UNCHANGED <<store, wired, fsm, keyboards, left>>

Entry(h) == Box(h).merged[Wanted(h).title]

(* Mutant: the person is put on the card and not on the task. *)
MergePersonShown(h) ==
    /\ run[h].at = "merge"
    /\ run[h].todo # <<>>
    /\ run' = [run EXCEPT ![h].todo = Tail(@),
           ![h].box.merged[Wanted(h).title].people = @ \cup ({Head(run[h].todo)} \cap Known)]
    /\ UNCHANGED <<store, wired, fsm, keyboards, left>>

MergePerson(h) ==
    /\ run[h].at = "merge"
    /\ run[h].todo # <<>>
    /\ LET who == ({Head(run[h].todo)} \cap Known) \ Entry(h).people
       IN  /\ tasks' = [tasks EXCEPT ![Entry(h).task].people = @ \cup who]
           /\ run' = [run EXCEPT ![h].todo = Tail(@),
                                 ![h].box.merged[Wanted(h).title].people = @ \cup who]
    /\ UNCHANGED <<projects, capture, wired, fsm, keyboards, left>>

MergeShown(h) ==
    /\ run[h].at = "merge"
    /\ run[h].todo = <<>>
    /\ Result(h, [Box(h) EXCEPT !.cards[Entry(h).card].people = Entry(h).people,
                                !.refused = @ \ {Entry(h).card}])
    /\ UNCHANGED <<store, wired, fsm, keyboards, left>>

(* The people before this one have the task, and the card is not made again. *)
MergeRefused(h) ==
    /\ run[h].at = "merge"
    /\ run[h].todo # <<>>
    /\ Spend("failures")
    /\ Result(h, [Box(h) EXCEPT !.refused = @ \cup {Entry(h).card}])
    /\ UNCHANGED <<store, wired, fsm, keyboards>>

CaptureNew(h) ==
    /\ Call(h, "capture_task")
    /\ run[h].user \in Admins
    /\ Missing(Wanted(h)) = {}
    /\ Wanted(h).title \notin DOMAIN Box(h).merged
    /\ Execute(h, Wanted(h), FALSE)
    /\ To(h, "capturing")
    /\ UNCHANGED <<wired, fsm, keyboards, left>>

CardOf(h) == [task    |-> capture[h].task,
              project |-> projects[capture[h].project].title,
              people  |-> capture[h].named]

EntryOf(h) == [task   |-> capture[h].task,
               people |-> capture[h].named,
               card   |-> Len(Box(h).cards) + 1]

Captured(h) ==
    /\ run[h].at = "capturing"
    /\ Leave(h, "captured")
    /\ Result(h, [Box(h) EXCEPT
           !.cards  = Append(@, CardOf(h)),
           !.merged = [t \in DOMAIN @ \cup {Wanted(h).title} |->
                           IF t = Wanted(h).title THEN EntryOf(h) ELSE @[t]],
           !.wrote  = @ \cup {capture[h].task}])
    /\ UNCHANGED <<wired, fsm, keyboards, left>>

CaptureRefused(h) ==
    /\ run[h].at = "capturing"
    /\ Leave(h, "duplicate")
    /\ Result(h, Box(h))
    /\ UNCHANGED <<wired, fsm, keyboards, left>>

CaptureBroken(h) ==
    /\ run[h].at = "capturing"
    /\ Leave(h, "failed")
    /\ LET torn == {capture[h].task} \ {0}
       IN  Result(h, [Box(h) EXCEPT !.wrote = @ \cup torn, !.broken = @ \cup torn])
    /\ UNCHANGED <<wired, fsm, keyboards, left>>

(* A proposal, or the answer that there is none; when an exception ends the  *)
(* call, what was proposed before stays.                                     *)
PlanProject(h) ==
    /\ Call(h, "plan_project")
    /\ run[h].user \in Admins
    /\ \E outcome \in {"proposed", "refused", "failed"} :
           /\ projects' = IF outcome = "refused" THEN projects
                          ELSE Append(projects, [title |-> Head(run[h].calls).title,
                                                 stub |-> FALSE, since |-> Len(projects)])
           /\ Result(h, CASE outcome = "proposed" ->
                               [Box(h) EXCEPT !.proposed = Len(projects'), !.last = outcome]
                          [] outcome = "refused" ->
                               [Box(h) EXCEPT !.proposed = None, !.last = outcome]
                          [] outcome = "failed" -> Box(h))
    /\ UNCHANGED <<tasks, capture, wired, fsm, keyboards, left>>

Wrote(h) == [Box(h) EXCEPT !.other = TRUE]

(* One task of the name, with one row: it is given to that person alone.     *)
AssignTask(h) ==
    /\ Call(h, "assign_task")
    /\ run[h].user \in Admins
    /\ LET rows == RowsNamed(Head(run[h].calls).title)
           who  == {Head(run[h].calls).person} \cap Known
       IN  \/ /\ Cardinality(rows) = 1 /\ who # {}
              /\ tasks' = [i \in DOMAIN tasks |-> IF \E r \in rows : r[1] = i
                            THEN [tasks[i] EXCEPT !.people = who, !.moved = TRUE]
                            ELSE tasks[i]]
              /\ Result(h, Wrote(h))
           \/ /\ Cardinality(rows) # 1 \/ who = {}
              /\ tasks' = tasks
              /\ Result(h, Box(h))
    /\ UNCHANGED <<projects, capture, wired, fsm, keyboards, left>>

MarkTaskDone(h) ==
    /\ Call(h, "mark_task_done")
    /\ run[h].user \in Admins
    /\ LET rows == RowsNamed(Head(run[h].calls).title)
       IN  \/ /\ Cardinality(rows) = 1
              /\ tasks' = [i \in DOMAIN tasks |-> [tasks[i] EXCEPT
                             !.done = @ \/ \E r \in rows : r[1] = i]]
              /\ Result(h, Wrote(h))
           \/ /\ Cardinality(rows) # 1
              /\ tasks' = tasks
              /\ Result(h, Box(h))
    /\ UNCHANGED <<projects, capture, wired, fsm, keyboards, left>>

(* The days of a vacation are not kept here, only that some were stored.     *)
SetVacation(h) ==
    /\ Call(h, "set_vacation")
    /\ run[h].user \in Admins
    /\ Result(h, Wrote(h)) \/ Result(h, Box(h))
    /\ UNCHANGED <<store, wired, fsm, keyboards, left>>

(* The answer on its way: its text, with the cards of the turn if there are, *)
(* and the buttons of a plan.                                                *)
Answer(h, text, cards, proposed) ==
    run' = [run EXCEPT ![h] = [at |-> "answer", user |-> run[h].user, box |-> Box(h),
                               text |-> text, cards |-> cards, proposed |-> proposed]]

Closing(h) == IF Box(h).cards = <<>> THEN "model" ELSE "cards"
Notice(h) ==
    IF Box(h).cards = <<>> /\ Box(h).proposed = None THEN "fallback" ELSE "notice"

(* Mutant: there is an answer as long as there are rounds. *)
FinishUncapped(h) ==
    /\ run[h].at = "model"
    /\ run[h].rounds < left.rounds
    /\ IF Box(h).pending # None THEN To(h, "stash")
       ELSE Answer(h, Closing(h), Box(h).cards, Box(h).proposed)
    /\ UNCHANGED <<store, wired, fsm, keyboards, left>>

(* The model is done, or the rounds are: keyboards if a capture is pending,  *)
(* and then nothing else is shown; or the cards, or else the words of the    *)
(* model, and the proposal.                                                  *)
Finish(h) ==
    /\ run[h].at = "model"
    /\ IF Box(h).pending # None THEN To(h, "stash")
       ELSE Answer(h, Closing(h), Box(h).cards, Box(h).proposed)
    /\ UNCHANGED <<store, wired, fsm, keyboards, left>>

(* Mutant: the fallback answers for a turn that wrote something. *)
BreakBlank(h) ==
    /\ run[h].at = "model"
    /\ run[h].rounds < left.rounds
    /\ Answer(h, "fallback", <<>>, None)
    /\ UNCHANGED <<store, wired, fsm, keyboards, left>>

(* The model cannot be reached: the cards and the proposal are shown with a  *)
(* notice, and a pending capture is dropped; if there are none, the fallback *)
(* answers, whatever the other tools have stored.                            *)
Break(h) ==
    /\ run[h].at = "model"
    /\ run[h].rounds < left.rounds
    /\ Answer(h, Notice(h), Box(h).cards, Box(h).proposed)
    /\ UNCHANGED <<store, wired, fsm, keyboards, left>>

Answered(h) ==
    /\ run[h].at = "answer"
    /\ run' = [run EXCEPT ![h] = Idle]
    /\ UNCHANGED <<store, wired, fsm, keyboards, left>>

-----------------------------------------------------------------------------
(* Without an agent, or in an edit *)

DispatchCapture(h) ==
    /\ run[h].at = "dispatch"
    /\ run[h].calls # <<>>
    /\ run[h].user \in Admins
    /\ Execute(h, Head(run[h].calls), TRUE)
    /\ To(h, "dispatched")
    /\ UNCHANGED <<wired, fsm, keyboards, left>>

DispatchRefused(h) ==
    /\ run[h].at = "dispatch"
    /\ run[h].calls # <<>>
    /\ run[h].user \notin Admins
    /\ run' = [run EXCEPT ![h].calls = Tail(@)]
    /\ UNCHANGED <<store, wired, fsm, keyboards, left>>

(* Each intent is answered by a message; one that raises ends the turn. *)
Dispatched(h) ==
    /\ run[h].at = "dispatched"
    /\ \/ /\ (Leave(h, "captured") \/ Leave(h, "duplicate"))
          /\ run' = [run EXCEPT ![h].at = "dispatch", ![h].calls = Tail(@)]
       \/ /\ Leave(h, "failed")
          /\ run' = [run EXCEPT ![h] = Idle]
    /\ UNCHANGED <<wired, fsm, keyboards, left>>

DispatchEnd(h) ==
    /\ run[h].at = "dispatch"
    /\ run[h].calls = <<>>
    /\ run' = [run EXCEPT ![h] = Idle]
    /\ UNCHANGED <<store, wired, fsm, keyboards, left>>

-----------------------------------------------------------------------------
(* The clarify dialogue *)

(* start_capture_clarify *)
Stash(h) ==
    /\ run[h].at = "stash"
    /\ fsm' = [fsm EXCEPT ![run[h].user].capture = Box(h).pending]
    /\ run' = [run EXCEPT ![h] = [at |-> "ask", user |-> run[h].user,
                                  args |-> Box(h).pending]]
    /\ UNCHANGED <<store, wired, keyboards, left>>

(* The options are read: projects newest first, or people by name.  How many *)
(* keyboards there were then is not in the code, nor that a later one for    *)
(* the field was lost on its way.                                            *)
AskField(h) ==
    /\ run[h].at = "ask"
    /\ LET field == FirstOf(Missing(run[h].args))
       IN  run' = [run EXCEPT ![h] =
               [at |-> IF field = "deadline" THEN "state" ELSE "options",
                user |-> run[h].user, args |-> run[h].args, field |-> field,
                began |-> Cardinality(keyboards),
                options |-> CASE field = "project" ->
                                   Reverse([i \in DOMAIN projects |-> projects[i].title])
                              [] field = "people" -> People
                              [] field = "deadline" -> <<Today>>]]
    /\ UNCHANGED <<store, wired, fsm, keyboards, left>>

(* Mutant: options that are there already are kept. *)
StoreOptionsOnce(h) ==
    /\ run[h].at = "options"
    /\ fsm' = [fsm EXCEPT
           ![run[h].user].options = [f \in Fields |->
               IF f = run[h].field /\ @[f] = <<>> THEN run[h].options ELSE @[f]]]
    /\ To(h, "state")
    /\ UNCHANGED <<store, wired, keyboards, left>>

StoreOptions(h) ==
    /\ run[h].at = "options"
    /\ fsm' = [fsm EXCEPT
           ![run[h].user].options = [f \in Fields |->
               IF f = run[h].field THEN run[h].options ELSE @[f]]]
    /\ To(h, "state")
    /\ UNCHANGED <<store, wired, keyboards, left>>

ClearTyping(h) ==
    /\ run[h].at = "state"
    /\ fsm' = [fsm EXCEPT ![run[h].user].typing = None]
    /\ To(h, "send")
    /\ UNCHANGED <<store, wired, keyboards, left>>

Sent(h, shown) ==
    keyboards' = keyboards \cup
        {[user |-> run[h].user, field |-> run[h].field, options |-> run[h].options,
          began |-> run[h].began, n |-> Cardinality(keyboards), shown |-> shown,
          lost |-> FALSE]}

SendKeyboard(h) ==
    /\ run[h].at = "send"
    /\ Sent(h, TRUE)
    /\ run' = [run EXCEPT ![h] = Idle]
    /\ UNCHANGED <<store, wired, fsm, left>>

(* Telegram refuses the message: its options stay stored, and the error      *)
(* boundary ends the handler.                                                *)
SendRefused(h) ==
    /\ run[h].at = "send"
    /\ Spend("failures")
    /\ Sent(h, FALSE)
    /\ run' = [run EXCEPT ![h] = Idle]
    /\ UNCHANGED <<store, wired, fsm>>

Filled(u, field, value) == [fsm[u].capture EXCEPT ![field] = value]

Fill(h, u, args, tap) ==
    run' = [run EXCEPT ![h] = [at |-> "fill", user |-> u, args |-> args, tap |-> tap]]

Begins(h) ==
    /\ run[h] = Idle
    /\ Spend("taps")
    /\ UNCHANGED <<store, wired, keyboards>>

OnDisplay == {kb \in keyboards : kb.shown}

(* Anybody in the chat may press a button of any keyboard; what it stands    *)
(* for is looked up in the options of whoever presses it.  A place beyond    *)
(* them is answered with an alert.                                           *)
TapOption(h, u, kb, i) ==
    /\ Begins(h)
    /\ kb.field \in Fields
    /\ i \in DOMAIN fsm[u].options[kb.field]
    /\ LET label == fsm[u].options[kb.field][i]
       IN  Fill(h, u, Filled(u, kb.field, IF kb.field = "people" THEN <<label>> ELSE label),
                [pressed |-> kb, meant |-> kb.options[i], took |-> label])
    /\ UNCHANGED fsm

TapDeadline(h, u, kb) ==
    /\ Begins(h)
    /\ kb.field = "deadline"
    /\ Fill(h, u, Filled(u, "deadline", Today), None)
    /\ UNCHANGED fsm

(* "New project", "another date": the next message is the answer. *)
TapType(h, u, field) ==
    /\ Begins(h)
    /\ \E kb \in OnDisplay : kb.field = field
    /\ fsm' = [fsm EXCEPT ![u].typing = field]
    /\ UNCHANGED run

(* The edit button under a plan, of which this is all that matters here.     *)
PressEdit(h, u) ==
    /\ Begins(h)
    /\ u \in Admins
    /\ \E i \in DOMAIN projects : ~projects[i].stub
    /\ fsm' = [fsm EXCEPT ![u].typing = "edit"]
    /\ UNCHANGED run

(* A blank title leaves the project missing. *)
TypeProject(h, u, title) ==
    /\ Begins(h)
    /\ fsm[u].typing = "project"
    /\ Fill(h, u, Filled(u, "project", title), None)
    /\ UNCHANGED fsm

(* A date that cannot be read changes nothing. *)
TypeDeadline(h, u) ==
    /\ Begins(h)
    /\ fsm[u].typing = "deadline"
    /\ Fill(h, u, Filled(u, "deadline", Today), None)
    /\ UNCHANGED fsm

(* _after_fill *)
StoreFilled(h) ==
    /\ run[h].at = "fill"
    /\ fsm' = [fsm EXCEPT ![run[h].user].capture = run[h].args]
    /\ run' = [run EXCEPT ![h] =
           [at |-> IF Missing(run[h].args) = {} THEN "finalize" ELSE "ask",
            user |-> run[h].user, args |-> run[h].args]]
    /\ UNCHANGED <<store, wired, keyboards, left>>

(* The FSM is cleared first.  Then only an administrator goes on, and one    *)
(* whose data was gone by the first tap has no title: the handler raises.    *)
Finalize(h) ==
    /\ run[h].at = "finalize"
    /\ fsm' = [fsm EXCEPT ![run[h].user] = NoData]
    /\ IF run[h].user \in Admins /\ run[h].args.title # None
       THEN /\ Execute(h, run[h].args, FALSE)
            /\ To(h, "finalizing")
       ELSE /\ run' = [run EXCEPT ![h] = Idle]
            /\ UNCHANGED store
    /\ UNCHANGED <<wired, keyboards, left>>

Finalized(h) ==
    /\ run[h].at = "finalizing"
    /\ Leave(h, "captured") \/ Leave(h, "duplicate") \/ Leave(h, "failed")
    /\ run' = [run EXCEPT ![h] = Idle]
    /\ UNCHANGED <<wired, fsm, keyboards, left>>

-----------------------------------------------------------------------------
CapturingStep(h) ==
    /\ \/ CaptureStep(h) /\ UNCHANGED left
       \/ Refused(h) /\ Spend("failures")
    /\ UNCHANGED <<wired, run, fsm, keyboards>>

(* A keyboard is being made. *)
OnItsWay(h, u, field) ==
    run[h].at \in {"options", "state", "send"} /\ run[h].user = u /\ run[h].field = field

(* The handlers are lost; the database, the FSM and the chat are not. *)
Crash ==
    /\ Spend("failures")
    /\ tasks' = CutBy(Handlers)
    /\ capture' = [h \in Handlers |-> NoCapture]
    /\ run' = [h \in Handlers |-> Idle]
    /\ keyboards' = {[kb EXCEPT !.lost = @ \/ \E h \in Handlers : OnItsWay(h, kb.user, kb.field)] :
                         kb \in keyboards}
    /\ UNCHANGED <<projects, wired, fsm>>

(* What a handler that has begun does next. *)
Step(h) ==
    \/ Think(h) \/ CallWithoutEffect(h) \/ CapturePending(h)
    \/ CaptureAgain(h) \/ MergePerson(h) \/ MergeShown(h) \/ MergeRefused(h)
    \/ CaptureNew(h) \/ Captured(h) \/ CaptureRefused(h) \/ CaptureBroken(h)
    \/ PlanProject(h) \/ AssignTask(h) \/ MarkTaskDone(h) \/ SetVacation(h)
    \/ Finish(h) \/ Break(h) \/ Answered(h)
    \/ DispatchCapture(h) \/ DispatchRefused(h) \/ Dispatched(h) \/ DispatchEnd(h)
    \/ Stash(h) \/ AskField(h) \/ StoreOptions(h) \/ ClearTyping(h)
    \/ SendKeyboard(h) \/ SendRefused(h) \/ StoreFilled(h) \/ Finalize(h) \/ Finalized(h)
    \/ CapturingStep(h)

Asked(h, u) ==
    \/ Message(h, u)
    \/ \E kb \in OnDisplay :
           \/ \E i \in DOMAIN kb.options : TapOption(h, u, kb, i)
           \/ TapDeadline(h, u, kb)
    \/ \E field \in {"project", "deadline"} : TapType(h, u, field)
    \/ PressEdit(h, u)
    \/ \E title \in Typed : TypeProject(h, u, title)
    \/ TypeDeadline(h, u)

Next ==
    \/ \E h \in Handlers : Step(h) \/ \E u \in Users : Asked(h, u)
    \/ Crash

(* asyncio runs every handler that can run, and calls to the database and to *)
(* the model end, if only by their timeouts.                                 *)
Spec == Init /\ [][Next]_vars /\ \A h \in Handlers : WF_vars(Step(h))

-----------------------------------------------------------------------------
(* Properties *)

(* Rows refer to rows that exist, a handler that captures has a capture, and *)
(* what is put aside has the fields of a capture.                            *)
TypeOK ==
    /\ \A i \in DOMAIN tasks :
           /\ tasks[i].project \in DOMAIN projects
           /\ tasks[i].people \subseteq Known
           /\ tasks[i].since < i
    /\ \A h \in Handlers :
           /\ capture[h] # NoCapture
                  <=> run[h].at \in {"capturing", "dispatched", "finalizing"}
           /\ capture[h] # NoCapture =>
                  /\ capture[h].project \in 0..Len(projects)
                  /\ capture[h].task \in 0..Len(tasks)
    /\ \A u \in Users : DOMAIN fsm[u].capture = DOMAIN Blank

Replies == {run[h] : h \in {g \in Handlers : run[g].at = "answer"}}

(* A card of an answer says what is stored: its task is in a project of that *)
(* title and exactly the people on the card have it, unless it was given to  *)
(* somebody else since its first card was made; when a merge was refused     *)
(* halfway, after the card was last made, others may have the task too, and  *)
(* the card does not tell.                                                   *)
CardsTrue ==
    \A r \in Replies : \A k \in DOMAIN r.cards :
        LET card == r.cards[k]
            task == tasks[card.task]
        IN  /\ projects[task.project].title = card.project
            /\ ~task.moved => /\ card.people \subseteq task.people
                              /\ k \notin r.box.refused => card.people = task.people

(* What an answer says nothing of, of all that the turn stored: tasks        *)
(* captured and not cut, the plan proposed last, and what other tools        *)
(* stored, which nothing but the words of the model tells.                   *)
Unsaid(r) ==
    {what \in {"capture", "proposal", "other"} :
        CASE what = "capture"  -> ~(r.box.wrote \ r.box.broken
                                       \subseteq {c.task : c \in ToSet(r.cards)})
          [] what = "proposal" -> r.box.last = "proposed" /\ r.proposed = None
          [] what = "other"    -> r.box.other /\ r.text # "model"}

(* Even when the model is lost halfway, or the rounds are spent, the answer  *)
(* of a turn tells every task it captured and the plan it proposed.  What it *)
(* may leave unsaid is what assign_task, mark_task_done and set_vacation     *)
(* stored, if cards, a notice or the fallback take the place of the words of *)
(* the model.  And no answer is given where a missing field is asked for:    *)
(* then the question is all that is said, whatever the turn stored.          *)
WrittenIsShown ==
    \A r \in Replies : Unsaid(r) \subseteq {"other"}

(* Where the agent or the dialogue captures, nothing key is made up: a task  *)
(* has a deadline, somebody was named for it, and it is in the project that  *)
(* was named.  Only what is parsed from a text, with no agent or in an edit, *)
(* may lack them, and come to the default project.                           *)
NothingMadeUp ==
    \A i \in DOMAIN tasks :
        tasks[i].parsed \/ /\ tasks[i].deadline # None
                           /\ tasks[i].asked # <<>>
                           /\ tasks[i].place # None
                           /\ projects[tasks[i].project].title = tasks[i].place

(* Who presses a button of the newest keyboard for a field that was sent to  *)
(* him gets what the button says, whatever was made or asked meanwhile,      *)
(* unless another for the field was on its way to him while this one was     *)
(* made, or is when it is pressed, or was since lost on its way, by a crash  *)
(* or because Telegram refused it.                                           *)
PressedIsTaken ==
    \A h \in Handlers :
        LET r  == run[h]
            kb == r.tap.pressed
            others == {k \in keyboards \ {kb} : k.user = r.user /\ k.field = kb.field}
            alone  == /\ kb.user = r.user /\ ~kb.lost
                      /\ \A k \in others : k.n < kb.began
                      /\ \A g \in Handlers : ~OnItsWay(g, r.user, kb.field)
        IN  r.at = "fill" /\ r.tap # None /\ alone => r.tap.took = r.tap.meant

(* A turn ends, and is answered, however many tools the model asks for.      *)
TurnEnds ==
    \A h \in Handlers : run[h].at \in {"model", "tool", "dispatch"} ~> run[h] = Idle
=============================================================================
