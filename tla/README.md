# Planner bot: a TLA+ verification project

The program is a Telegram bot with a web board for a design team.  A chat
message becomes an intent; a solver turns an "add project" intent into a plan
proposal; people confirm or edit the proposal with buttons or words; tasks can
be captured, reassigned, rescheduled and marked done; Notion receives a
best-effort copy.  One asyncio process serves every chat: a handler gives way
at each `await`, so handlers of different people (or two messages of one
person) interleave.  Every repository method (`infra/db/repo.py`) opens a
session, commits and closes: it is one transaction, and a use case that calls
several of them is not atomic.

## Inventory

| Part | State it keeps | Operations | What is hard | What makes it correct |
|---|---|---|---|---|
| Plan proposal lifecycle: `app/add_project.py`, `app/confirm_plan.py`, `bot/handlers/confirm.py`, `task_router.py` | projects, tasks, plan versions, audit log; chat keyboards; FSM state and data in Redis | propose, show, stash, confirm (button, phrase, intent), edit, retire | racing confirmations, reads before awaits, four transactions per proposal, two FSM awaits per change, crashes | one decision per proposal; the audit log agrees with it; nothing names what is not stored; a failed edit costs nothing |
| Solver: `domain/solver/*`, `domain/calendar/rules.py` | none (pure) | plan, critical path, presented deadline | horizon, capacity boundaries, vacations, non-splittable tasks, any topological order | hours are conserved, links kept, an overload only when forced, and then shown |
| Reassignment and schedule edits: `task_router.py`, `repo.py`, `web/routes/board.py`, `plan.py` | assignments, committed plan payloads | reassign, set assignee, move dates | read-modify-write of a payload, two transactions per reassignment | board and plan name the same person |
| Bookings: the committed plans that the solver, the heatmap, the board and a replan read | plan payloads, task rows, day overrides | propose, confirm, replan, show the load | a proposal computed against plans that change before it is confirmed | every overload is reported; board, heatmap and replan do not contradict the bookings |
| Task capture: `app/capture_task.py` | projects, tasks, assignments, audit log | find or create the project, find a duplicate, save, assign | check-then-act with awaits between, one transaction per assignee | no twin tasks or projects unless captures overlap; no half task unless cut |
| Capture dialogue: `bot/handlers/clarify.py` | partial task, option lists, FSM state in Redis | ask, pick, type, finish | old keyboards, option lists replaced while a tap is on its way | a button does what it says |
| Agent loop: `infra/llm/agent.py`, `tools.py` | message list, tool box of the turn | call the model, run tools, stop | tools write before the loop fails or its budget ends | what was captured or proposed is shown, and was not made up |
| Vacations: `app/set_vacation.py` | day overrides | one upsert per day, audit | cut half way, two vacations entered at once | a vacation that was reported has no hole |
| Notion mirror: `infra/notion/*`, `app/mark_task_done.py` | remote rows, cards and checklists; `projects.notion_page_id`; the schema and the kind of parent kept in the sinks | push, retry with fewer columns, create a card, tick | refusals, errors after the fact, lost answers, people who edit the board, a schema shared by all handlers and kept after an await | Notion shows what the database says, save for ticks looked up by title; the count reported as failed covers what is missing |
| Chat gate: `bot/middlewares/*`, `voice_arm.py`, `history.py`, `task_router.py` | last message per user, arming per chat and user, history per chat | throttle, resolve the actor, hear, transcribe, refuse, remember | windows, messages overtaking each other, restarts | the bot acts on what was meant for it, from whom it may |
| Seed: `seed/load_seed.py`; template and capability reads in `repo.py`, `suggest_assignees.py` | people, templates, template tasks with people and links, roles and skills | load, load again, read a template, suggest people | four reads in read-committed isolation while a load commits; loading again over hand edits | a template is of one file; nobody loses an ability |
| Intent parsers, rendering, web login, start-up | none of interest | | text | not modelled |

`PROJECT.json` lists every component with its status, and every hazard at its
line with the properties that cover it.

## Modules

* `PlanDecision` - the abstract specification: each proposal is opened,
  proposed, decided once (committed or superseded), and its project row follows
  the decision.  It knows no handlers.
* `PlanLifecycle` - the handlers.  `plan`, `project`, `tasks`, `added` and
  `confirmed` are the rows; `editing` and `pending` are the FSM state
  (`PlanEditState.waiting`) and `pending_pv_id` of each user; `keyboards` are
  the messages whose inline keyboard is still shown; `run` holds, for each
  running coroutine, the await it performs next and the values it read earlier.
* `PlanLineage` - `PlanLifecycle` with a history variable: which plan each
  proposal was an edit of.
* `PlanSync` - the two records of who does a task and when: `assigned` and `day`
  are the assignments and tasks rows, `payload` is the plan version's copy, which
  the gantt and the load read.  Chat and web handlers change both.
* `WorkCalendar` - working days, over a parameter `Holidays`; days are naturals
  and two of every seven are the weekend.
* `Greedy` - the solver as operators over a request: capacity, earliest start,
  placing one task (alone, split, in a pair, as a window), and what is told of
  the whole plan (end, missed deadline, critical path).
* `LoadViews` - the arithmetic of the load heatmap and of the admin board.
* `Booking` - composes the three: proposals are computed from the committed
  plans, saved, confirmed; vacations are entered; the committed work is replanned.
  `plans` are the plan versions with their task rows, `overrides` the table
  `day_overrides`, `job`, `placed` and `used` the local state of a running
  `GreedySolver.plan`, `leave` that of each handler (of `Clerks`) that is entering
  a vacation.  `office` says which clerks, vacations and templates one execution
  has, so that TLC need not combine all of them.
* `TaskCapture` - `CaptureTaskUseCase`: `projects` and `tasks` are the rows in the
  order of their creation, `capture` the local state of each running execution.
* `Capture` - composes `TaskCapture` with the agent's turn, the dispatch of parsed
  intents and the clarify dialogue: `run` is each handler with its tool box, `fsm`
  the Redis data of each user, `keyboards` what is on display in the chat.
* `OneWayMirror` - the abstract specification of a mirror: the truth grows, and
  the surface gains only what is true.
* `NotionMirror` - the sinks against a Notion that refuses, answers with errors,
  loses answers and is edited by people: `rows` and `cards` are the remote pages,
  `schema` and `parent` what the sinks keep in memory, `run` each handler; `late`
  counts how often a schema was kept that the board no longer had.
* `SeedData` - the tables of people, templates and skills, the loader and the
  readers.
* `ChatGate` - composes `SeedData` with what stands between a Telegram message and
  a turn: the route by the FSM state, throttle, actor, group rules, voice arming,
  history, an awaited edit or answer.
* `PlanLifecycleProofs`, `PlanSyncProofs`, `GreedyProofs` with `BookingProofs`,
  `NotionMirrorProofs`, `CaptureProofs` with `CaptureCardProofs`, and
  `ChatGateProofs` - theorems and proofs.  `GreedyProofs` holds the facts about the
  operators of `Greedy`, `WorkCalendar` and `LoadViews`, and no specification.
* `MCPlanLifecycle`, `MCPlanLineage`, `MCPlanSync`, `MCBooking`, `MCCapture`,
  `MCNotionMirror`, `MCChatGate` - the sets, values and symmetries of the TLC
  instances.

### How an action corresponds to the code

A handler enters with `Message`, `PressConfirm`, `PressEdit` or `PressCapture`
and then takes one action per await that changes or reads shared state:

| Code | Actions in order |
|---|---|
| `handle_mention_or_dm`, `_handle_text`, `_dispatch_intent` | `Message`, then `TextIsConfirm` or `TextIsRequest`, then `ParseOther`, `ParseAddProject` or `ParseConfirm` |
| `AddProjectUseCase.execute` and the reply | `CreateProject`, `SaveProjectTasks`, `SavePlanVersion`, `AuditAddProject`, `Present` (or `AgentClarifies`), `StashPending` |
| `handle_edit_text` | `EditRead`, the above, `RetireOld`, `CancelOldProject`, `RearmState`, `RearmData` |
| `ConfirmPlanUseCase.execute` and its callers | `ConfirmTransition`, `AuditConfirm`, `CommitProject`, `ReplyCommitted` or `ReplyAlreadyCommitted`, `ClearState`, `ClearData` |
| `handle_edit` | `ArmEdit`, `ArmEditData` |
| the capture dialogue, as far as it touches the shared FSM context | `CaptureAnswer`, `CaptureAsk`, `ClearState`, `ClearData` |
| `ErrorBoundaryMiddleware`, process death | `Abort` |
| `reset_all_plans` | `ResetAllPlans` |

`PlanSync` is finer, since its hazards lie inside the transactions: at READ
COMMITTED a method that selects and then writes is two actions.

| Code | Actions in order |
|---|---|
| `build_assign_reply` (chat) | `AskInChat`, `MatchTask`, then as the board |
| `reassign` (board) | `AskOnBoard`, then `set_task_assignee`: `SelectAssignments`, `ReplaceAssignments` or `FailAssignments`; `reassign_in_plan`: `SelectPlan`, `WritePlan`; `Audit` |
| `edit_task` (plan page) | `EditDates`, then `update_task_schedule`: `WriteTaskDay`; `update_schedule_in_plan`: `SelectPlan`, `WritePlan`; `Audit` |
| a confirmation by anybody | `Commit` |
| an exception, process death | `Abort` |

| Code (bookings) | Actions in order |
|---|---|
| `build_add_project_reply`, `AddProjectUseCase.execute` | `AddProject`, `Place` for each task, `SaveProposal` |
| `transition_plan_status` | `Confirm` |
| `SetVacationUseCase.execute` | `AskVacation`; `upsert_day_override` for each day: `GetDay`, `PutDay`; `AuditVacation` (or `CutVacation`) |
| `handle_replan` | `ReadCommitted`, `SolveAgain`, `Place` for each task, `Report` |
| the calendar date | `Midnight` |

| Code (capture) | Actions in order |
|---|---|
| `CaptureTaskUseCase.execute` | `Execute`, `GetProjectByTitle`, `CreateProject`, `FindDuplicate`, `CreateTask`, `AssignNext` for each person, `AddAudit`; `Refused` for a write that fails |
| `PlannerAgent.run`, `ToolBox.execute` | `Message`, `Think`, then for each call one of `CallWithoutEffect`, `CapturePending`, `CaptureAgain` (with `MergePerson`, `MergeShown` or `MergeRefused`), `CaptureNew` (with `Captured`, `CaptureRefused` or `CaptureBroken`), `PlanProject`, `AssignTask`, `MarkTaskDone`, `SetVacation`; in the end `Finish`, or `Break` when the model fails; `Answered` |
| `_dispatch_intent` without an agent, or for the text of an edit (`handle_edit_text` passes none) | `Message`, `DispatchCapture`, `Dispatched` or `DispatchRefused`, `DispatchEnd` |
| `handle_edit`, of which only the awaited text matters here | `PressEdit` |
| `start_capture_clarify`, `_send_field_keyboard` | `Stash`, `AskField`, `StoreOptions`, `ClearTyping`, `SendKeyboard` or, when Telegram refuses the message, `SendRefused` |
| taps and typed answers | `TapOption`, `TapDeadline`, `TapType`, `TypeProject`, `TypeDeadline`, `StoreFilled`, then the next question or `Finalize`, `Finalized` |
| the end of the process | `Crash` |

| Code (mirror) | Actions in order |
|---|---|
| `ConfirmPlanUseCase._mirror_tasks` | `CommitPlan`, `ReadNames`, a push for each task, `PushedAll` or, when a sink raises, `BreakOff`; `Reply` |
| `NotionTaskSink.push_task` | `PushTask`; the schema: `AskSchema`, `KeepSchema`; the row: `PostRow`, `PostError` or `PostLost`; after a refusal or an error `Retry`, and the next attempt |
| the push of a captured task | `CaptureTask`, a push, `PushedAll`, `Reply` |
| the card of a new project | `AddProject`, `ResolveParent`, `KeepParent`, `CreateCard` or `CardLost`, `SetProjectNotionPage` |
| `MarkTaskDoneUseCase.execute` | `MarkTaskDone`, `FindCard`, `FindTodo`, `TickTodo`, `Marked` |
| people and the process | `EditBoard`, `Crash` |

| Code (chat gate and seed) | Actions in order |
|---|---|
| the filters and middlewares of the router (`StateFilter` reads the state first) | `Receive`, `Throttle`, `ResolveActor`; for a button `Press`, `ResolveActor` |
| `handle_edit_text`, the typed answers of `clarify.py`, `handle_mention_or_dm`, `handle_task`, `handle_voice` | `HearEdit`, `HearAnswer`, `HearText`, `HearTask`, or `HearVoice` and `Transcribe` |
| `_handle_text` with the agent | `Refuse`; or `ConfirmPending`, `ClearState`, `ClearData`; or `Remember`, the reads of the turn, `Reply`, `Stash` |
| `_handle_text` for an edit, and the rest of `handle_edit_text` | the same, with `ReplyEdit` for `Reply`, then `Stash`, `Rearm`, `KeepPending` |
| `get_project_template` | `SelectTemplate`, `SelectTasks`, `SelectAssignees`, `SelectDependencies`, `PlanRead` |
| `SuggestAssigneesUseCase.execute` | `FindAssignees` |
| `handle_edit` (two awaits), the "type it" buttons of `clarify.py` | `HearPress`, `KeepPending` |
| `ErrorBoundaryMiddleware` | `Fail` |
| `load_seed.main` | `LoadTeam`, `LoadTemplate` for each code, `LoadCapability`, `Commit` or `Rollback` |
| edits by hand | `LinkTelegram`, `Relabel`, `GrantRole` |
| the clock, a restart | `Tick`, `Restart` |

Decisions behind `PlanLifecycle`:

* `transition_plan_status` is `UPDATE ... WHERE status = :from`; the number of
  rows tells the caller whether it won.  It is one action with two disjuncts.
  The read of the plan version before it is folded in: what it returns (project
  and payload ids) never changes and plan versions are never deleted.
* The confirmation phrase prefers the FSM data read again over the plan read on
  entry; the parsed `ConfirmIntent` prefers the plan read on entry.  The order
  is in `TextIsConfirm` and `ParseConfirm`.
* `state.clear()` and `set_state` + `update_data` are two Redis writes each,
  hence two actions; another handler may run between them.
* A crash of the process is the same as `Abort` of every running handler: all
  that survives is in Postgres, Redis and the chat.
* Messages carry one intent.  A compound message runs its parts in order inside
  one handler and is not modelled.
* Users are chat participants: membership gives every one of them full rights
  (`bot/middlewares/permissions.py`), so the rights check is not a guard.
* A text of somebody whose edit is awaited goes to `handle_edit_text`; his voice
  messages and `/task` go to handlers registered before it, and take the general way.
* A text of somebody whose edit is awaited goes to `handle_edit_text`; his voice
  messages and `/task` go to handlers registered before it, and take the general way.
* With the agent wired (`AgentWired`), a general message never reaches the
  intent parser, and its reply may carry a capture clarification.
  `PressCapture` may happen at any time then, though the program offers those
  buttons only during a dialogue: more behaviours than the code has.
* `reset_all_plans` exists in the repository but no handler calls it; the
  constant `Resets` says whether a run includes it.
* Notion calls inside these use cases are best effort, swallow exceptions and
  write none of this state; they are in `NotionMirror`.

Decisions behind `PlanSync`:

* The reassignment of an unknown task or person returns before it writes, as an
  empty request does; a request names a task and a person that exist.
* The chat finds a task by name in `list_tasks_with_meta`, which returns a task
  once per assignee: a task of a pair is answered with "several tasks"
  (`MatchTask`).  The board has no such check.
* SQLAlchemy turns the deletion and the addition of one key in a session into an
  update.  If that row is gone, or the row to add is there by now, the flush
  fails and the transaction rolls back (`Clash`); deleting a row that is gone is
  only a warning.
* A payload equal to the one selected is not written.
* Start and end date change together and are one `day`.  A committed plan stays
  committed (no reset), and the audit rows are only appended.
* `everOn`, `everDay` and `blemish` are history: what the rows have ever held, and
  whether handlers have overlapped, begun before the confirmation, or been cut.

Decisions behind `Booking`:

* `GreedySolver.plan` is synchronous: between its first and its last step no
  other handler runs, so every other action has the guard `job = NoJob`.  It is
  still one action per task, since networkx may order the tasks in any way the
  links allow.
* Hours are exact; people's hours, tasks and days are naturals.  Fixed dates of
  done tasks, which `plan` accepts, are set by no caller; `diff.py` has none.
* A task of an external window occupies nobody in the solver and the heatmap, and
  counts on the board, which divides a task's hours evenly over its dates.  The
  board counts proposals too, the heatmap only what is committed.
* The replan passes the day overrides to the solver; "add a project" does not,
  although the answer to a vacation promises that it will be taken into account
  in the next project (`bot/handlers/vacation.py`).
* A request with tasks and nobody to do them is refused, as are links in a circle
  (`Begin`), and a template without tasks and a deadline in the past.  A replan of committed plans
  without hours is answered without the solver.
* `AssumedHours` is what the critical path assumes a task gets a day: the hours of
  the least able of the people it is bound to, or `DayHours`.
* `known`, `late` and `told` of a plan are what it was computed from and what its
  author was told.
* `upsert_day_override` reads the row of a day and then writes it: a missing row that
  another handler has inserted meanwhile makes the flush fail, which is `CutVacation`.
  `others` of `leave` and `entered`, the vacations under way in the meantime, is
  history.
* `upsert_day_override` reads the row of a day and then writes it: a missing row that
  another handler has inserted meanwhile makes the flush fail, which is `CutVacation`.
  `others` of `leave` and `entered`, the vacations under way in the meantime, is
  history.

Decisions behind `Capture`:

* The FSM storage is Redis: every `get_data`, `update_data`, `set_state` and
  `clear` is an await.  `update_data` is taken to be atomic, as one handler of a
  user rarely overlaps another of his own, and the storage is a library.
* What the model asks for is free, out of `Calls` and captures of `Wants`.  A
  tool box belongs to one turn.  Several projects of one title may be found in
  any order, as no order is asked for.
* `wired` says whether there is an agent.  With one, the parsed intents are
  dispatched only for the text of an edit that is awaited: `handle_edit_text` calls
  `_handle_text` without it (`task_router.py:747-752`), so such a text can reach
  `CaptureTaskIntent` (`:392-400`) and store a task in the inbox, without people and
  deadline.
* The days a vacation stores are in `Booking`; here `set_vacation` only marks that
  something was stored (`other`).
* A clarification takes the place of the whole answer (`task_router.py:556-560`).
* `since`, `cut`, `moved`, `asked`, `place` and `parsed` of a row, `began`, `shown` and
  `lost` of a keyboard, `last`, `wrote`, `broken`, `refused` and `other` of a tool box and
  `took`, `meant`, `pressed` of a handler are history.

Decisions behind `NotionMirror`:

* A request may be answered, refused, answered with an error, or lost.  When its
  answer is lost or an error, it may have been carried out.  `client.py:55` takes
  every status from 400 up for a refusal, so `PostError` enters the ladder too.  What
  a board refuses by itself is its `mood`: columns it takes no value for, and columns
  that take no new option.
* The schema and the kind of parent are asked for in one await and kept in the step
  after it, so other handlers run between the answer and its being kept.
* `NotionTaskSink` swallows every exception, so it does not break off the loop of
  `_mirror_tasks`; the port allows a sink that does, the loop guards against it
  (`confirm_plan.py:112`), and `BreakOff` is that.
* The card of a task that is done is looked up by the title of its project
  (`mark_task_done.py:58`), and the box by its text: of two projects with one title the
  card of the other may be ticked.  `Mistaken` are those ticks.  `project.py:5-6` and
  `mark_task_done.py:5` say that the task's card is ticked; that is so where titles are
  unique.
* `ColumnsOf` and `New` abstract `build_properties`: which columns a task fills,
  and which of the values are not among the options there.
* Tasks and projects are written in other modules; here they are sets that only
  grow.  No plan has a task twice (`greedy.py:333` has an entry per task), which
  `MirrorAssumption` says.

Decisions behind `ChatGate` and `SeedData`:

* The clock is abstract: the throttle's interval and the arming window are
  constants in its unit.  The interval is not zero (`throttle.py`).
  `calls` is history: what became of each text that addressed the bot in a group.
* A message is dropped by the throttle or goes on; buttons are not throttled.  A
  message has one intent, and the bot has its agent.
* `handle_edit` sets the state in one await and the data in the next (`HearPress`,
  `KeepPending`), so an edit may be awaited before its plan is kept.
* The answer to an edit, and a clarification, join no history; other answers do.
* The Redis data and the tables survive a restart, the memory of the middlewares
  does not.
* One load runs at a time.  It is one transaction, written when it commits.
  Loading again replaces the tasks of a template and only adds elsewhere.  The
  docstring of `load_capability` says that the join tables are rebuilt
  (`load_seed.py:193-194`), the comment below it that nothing is deleted
  (`:206-207`); the comment is what the code does.  A label is a role if this file or
  one loaded before has it.  The Makefile calls the loader `seed.load`; the module is
  `seed.load_seed`.
* What the typed answers of the capture dialogue do is in `Capture`; here they only
  take the text (`HearAnswer`).
* The list of suggestions is cut to five in the code; fewer people are enough to
  tell the order.

## Runs

| Run | Instance | What it shows |
|---|---|---|
| `lifecycle_cut` | 3 plans, 1 user, 2 handlers, agent wired, handlers may be cut, symmetry | `TypeOK`, `StoredBeforeNamed`, `ConfirmedOnce`, `RetireNeedsReplacement`, and `DecidedOnce` (the handlers implement `PlanDecision`) |
| `lifecycle_fair` | 2 plans, 1 user, 2 handlers, intent parser, resets, nothing cut, fairness | `DecisionCompleted`, `ProposalReachable`, `CommitShows`, `HandlersFinish` |
| `lifecycle_already` | 2 plans, 1 handler | violation of `AlreadyCommittedIsTrue` |
| `lifecycle_reach` | 2 plans, 1 handler, agent wired | violation of `ProposalReachable` |
| `lineage_edit` | 3 plans, 1 handler | violation of `OneHeir` |
| `sync_cut` | a pair task and a single task, 2 people, 2 days, 2 handlers, handlers may be cut | `TypeOK`, `ChartFollowsRows` (the payload never shows what the rows have not), `InSync` (undisturbed changes leave both equal) |
| `sync_race` | the same | violation of `InSyncUnderOverlap` |
| `sync_early` | the same | violation of `InSyncFromProposal` |
| `booking` | 2 people of 2 and 3 hours a day, 2 projects, 6 templates with every kind of task and link, a weekend and a holiday, horizon of 6 days; one clerk and vacations of 2 days and of 1 day with too many hours, or two clerks and two overlapping vacations of one person | `HoursConserved`, `LinksKept`, `OverloadForced`, `OverloadReported`, `ChainIsLowerBound`, `BoardHoldsLoad`, `EnteredIsWhole`, `AllClearIsTrue` |
| `capture` | 2 handlers, an administrator and a member, with and without the agent, 4 captures of one title, the other tools, 5 budgets of messages, model answers, taps and failures | `NoTwins`, `WholeUnlessCut`, `CardsTrue`, `WrittenIsShown`, `NothingMadeUp`, `PressedIsTaken`, `TurnEnds` |
| `mirror` | 2 handlers, 2 projects of one title, 3 tasks, boards of three moods, one fault or edit | `MirrorsOneWay` (refinement of `OneWayMirror`), `FailuresCounted`, `RowUnlessRefused`, `StaleOnce`, `DoneIsTicked`, `PushingEnds` |
| `gate` | 2 handlers, 2 users, a private chat and two groups, 3 file sets, 6 budgets of messages, ticks, loads, edits by hand, buttons, failures and restarts | `TemplateOfOneFile`, `HeardOnPurpose`, `LearnedIsKept` |

The properties of the later runs in words:

* `HoursConserved`: the solver's count of each day is what was booked before plus
  what it placed; each person who does a task gets exactly its hours.
* `LinksKept`: whatever the order of placing, links and lags hold and hours lie on
  working days within the task's dates.
* `OverloadForced`: a person's day is overloaded only if it was before, or if the
  people who got the task have no day for it within the horizon.
* `OverloadReported`: what the committed plans together overload is among the
  risks one of them showed, unless two were computed each without the other.  The
  exception is the code's: a proposal is not solved again when it is confirmed.
* `ChainIsLowerBound`: the end of the longest chain, from which the date shown
  without a deadline is counted, never lies after the end of a plan that fits.  It
  holds for links of kind FS (an SS link counts for the chain as if it were FS) and
  where nobody who got a task has more hours a day than the chain assumed for it.
  Without these two conditions the code's chain is no lower bound.
* `BoardHoldsLoad`: the board, whose window begins today, hides no load the heatmap
  shows.  A person's slots hold
  all the hours of the heatmap if the window shows all the days of his committed
  tasks, since a task that is cut off is counted by its days and not by its hours;
  and a day overloaded on the heatmap is so on the board if what is booked that day
  begins and ends on it and the capacity is a number of slots, since the board
  spreads a longer task evenly and rounds.
* `EnteredIsWhole`: a reported vacation covers each of its days with its hours, or
  with those of another vacation of that person that was under way since it began.
  Two handlers that enter overlapping vacations at once do mix their days, and the
  one reported last need not be the one that is stored; what cannot happen is a hole,
  or hours older than both.
* `AllClearIsTrue`: a replan that finds no overload leaves nobody with more work on a
  changed day than it allows.
* `NoTwins`: of two open tasks of one name in a project, or two projects of one
  title, the later was begun before the earlier was there.
* `WholeUnlessCut`: a capture that was not cut has its people and its journal row.
* `CardsTrue`: a card names the project of its task and exactly the people who have
  it.  Exceptions: the task was given to somebody else since, and a merge that was
  refused in the middle of its list (`tools.py:361-373`), which leaves a person on the
  stored task and off the card.
* `WrittenIsShown`: an answer, also when the model is lost half way or the rounds are
  spent, tells every task the turn captured and the plan it proposed.  `agent.py:16-20`
  promises this of all that write tools did, and `:103` that there is no partial reply
  only if nothing was done.  The code keeps less, and the property says how much less:
  what `assign_task`, `mark_task_done` and `set_vacation` stored is in no partial reply,
  and cards take the place of the words of the model.  A turn that ends in a
  clarification gives no answer at all (`task_router.py:556-560`): neither its cards nor
  its proposal are shown, the latter being the violation of `lifecycle_reach`.
* `NothingMadeUp`: by an agent or a dialogue no task is stored without the project
  that was named, a person and a deadline.  What is parsed from a text is excepted,
  without an agent or, with one, in an edit.
* `PressedIsTaken`: the newest keyboard of a dialogue does what it says.  Three things
  break that in the code, and are the exceptions of the property: two dialogues of
  one user that overlap, and a crash, or a refusal by Telegram, after the options of a
  question were stored and before its keyboard was sent (`clarify.py:110`, `:118`).
* `MirrorsOneWay`: every row and card stands for something stored, nothing is taken
  back, and a ticked box is that of a done task of the project, or of another
  project with that title.
* `FailuresCounted`: a confirmation counts every task without a row as failed, also
  those never tried.  If the names cannot be read it counts, and reports, nothing.
* `RowUnlessRefused`: a task has a second row only if the first was answered with an
  error; a row is as full as the board takes it unless an attempt met another error or
  the schema changed between two attempts; and a push without trouble fails only if
  the board takes none of its attempts.
* `StaleOnce`: an edit of the board costs a handler one push, and another only for
  each answer from before the edit that is kept late.
* `DoneIsTicked`: "done" ticks the box if nothing fails and the title is unique.
* `TemplateOfOneFile`: a template read while a load commits is of the file its
  tasks are of, at worst without its people or links.
* `LearnedIsKept`: no load takes a skill from anybody, or makes the best suggestion
  for a need cover less of it.
* `HeardOnPurpose`: a voice in a group that does not mention the bot is listened to
  only if a text of its author to the bot was heard there within the window before.
  It is passed over only if each such text was heard longer ago, is on its way still,
  failed, or was taken as an edit or as a typed answer.  The last is a disagreement of
  the code with `voice_arm.py:3-6` and `task_router.py:633-635`: a mention in an edit
  goes to a handler that arms nothing (`:716`).  Only people with rights get a turn.

Bounds.  Two handlers are enough for every race of the code: each decision on a
row is a race between two coroutines, and no third one takes part in any step.
Three plans allow an edit of an edit while a third proposal is being stored; a
plan id is a fresh `uuid4`, so `Plans` bounds the number of projects ever made.
One user has the hardest context, since two messages of one person share an FSM
context; handlers of different users share less.  The model has no other
counter: `added` and `confirmed` are bounded by the behaviour itself.
In `PlanSync` a lost update needs two tasks in one payload, two handlers, and two
values of what is changed; the first task starts with a pair, the second with one
person, so both answers of `MatchTask` occur.  Its handlers may run any number
of requests one after the other.
In `Booking` the horizon is shorter than the longest task, so that saturation
happens, capacities are unlike and one is no multiple of a board slot; a second
project is proposed before and after the first is confirmed, on either of two
days.  Two clerks and two vacations that share a day are what it takes to mix them;
`office` keeps them apart from the templates, since the solver and the entering of a
vacation touch each other only in the replan, which the first office has with both.
In `Capture` the budgets are chosen in the initial state, so that each
combination of what is bounded is explored to its end; an answer of the model
asks for one call, or for a plan and a capture that lacks its project, so several
calls are several rounds.  In `NotionMirror` one
fault or edit at any point is every single failure; the races between two healthy
handlers need none.  In `ChatGate` two loads and two messages are what a torn read
or an overtaken text takes.
Symmetry is used only where the run has no liveness property.  A state with no
running handler always accepts a message in `PlanLifecycle` and `PlanSync`, and
midnight or a replan always comes in `Booking`.  `Capture`, `NotionMirror` and
`ChatGate` really stop when their budgets are used up or all is captured and
pushed, so `capture`, `mirror` and `gate` turn deadlock checking off.

Fairness.  `FairSpec` has weak fairness for the steps of each running handler:
the event loop runs every ready task again, and each await in these handlers is
a database call, a Redis call or an HTTP call with a timeout.  Nothing is
assumed of arrivals, cuts or resets.  `Capture` and `NotionMirror` assume the same
of each handler's step, requests to the model and to Notion ending by their
timeouts.

### What the violations say

* `AlreadyCommittedIsTrue`: `handle_confirm` (`confirm.py:62`) answers every
  `PlanNotProposedError` with "this plan is already committed".  The keyboard of
  a proposal that an edit replaced is still in the chat, so a press on it is told
  that a superseded, cancelled plan is committed.
* `ProposalReachable` with the agent: when one agent turn both proposes a plan
  and needs a capture field, `_handle_text` returns before it shows the
  proposal's keyboard or stashes its id (`task_router.py:556`).  The stored
  proposal can be confirmed by nobody.
* `OneHeir`: the edit button of a superseded proposal still arms the edit loop
  (`confirm.py:80`).  Editing again finds nothing to retire, and two proposals
  made from one plan are on offer.
* `InSyncUnderOverlap`: `reassign_in_plan` and `update_schedule_in_plan` write a
  whole payload that they selected without a lock (`repo.py:445`, `:471`).  Two
  changes at once, even of different tasks, lose one in the payload while both are
  in the rows, and nothing brings the two together again.
* `InSyncFromProposal`: a change made before the confirmation is written to the
  rows only (`repo.py:446`), and the confirmation commits the old payload.

## Proofs

`PlanLifecycleProofs` proves, for any sets of plans, users and handlers and any
choice of `AgentWired`, `Aborts` and `Resets`, from `LifecycleAssumption` alone:

| Theorem | States |
|---|---|
| `TypeCorrect` | `Spec => []TypeOK` |
| `NamesAreStored` | `Spec => []StoredBeforeNamed` |
| `ConfirmedAtMostOnce` | `Spec => []ConfirmedOnce` |
| `EditKeepsProposal` | `Spec => RetireNeedsReplacement` |
| `DecisionImplemented` | `~Resets => (Spec => DecidedOnce)` |

The properties are not inductive: whether the next await of a handler is safe
depends on how the handler came there.  The invariant `IInv` adds what each
label implies:

* `RowsOK` - parents before children, and counts that agree with statuses;
* `NamesOK` - buttons, stashed ids and the ids held by handlers name stored plans
  once the label is past `save_plan`;
* `RunOK` - for each label, which rows the handler has already written (at
  `retire` its replacement is stored; at `cf_audit` its plan is committed or was
  reset, and is not yet in the journal);
* `DisjointOK` - two handlers never create the same plan and never both are the
  winner of one plan's compare-and-set.  This is what makes the count in the
  journal at most one.

`Init => IInv` and preservation by each action are separate lemmas, with one step
per action; the theorems are consequences.  `DecisionImplemented` maps every
action to a step of `PlanDecision` or to a stutter under the invariant.  TLC
checked `IInv` on small instances with every combination of the three switches
before it was proved.

`PlanSyncProofs` proves, for any sets of tasks, people, days and handlers and any
first plan, from `SyncAssumption` alone:

| Theorem | States |
|---|---|
| `SyncTypeCorrect` | `Spec => []TypeOK` |
| `ChartNeverLeads` | `Spec => []ChartFollowsRows` |
| `UndisturbedInSync` | `Spec => []InSync` |

Its `IInv` has three parts, each preserved by a lemma of its own:

* `TypeInv` - types, and what a handler carries at each label;
* `FollowOK` - everything a handler may still write into the payload, the copy it
  selected included, has been in the rows before.  This is why a lost update can
  set the payload back but not ahead;
* `CalmOK` - while nothing has been disturbed, at most one handler runs, what it
  read is still true, and only the entry it is about to write may differ.

`BookingProofs` proves, for any team, templates, calendar and vacations, from the
assumptions of `Booking`, `Greedy`, `LoadViews` and `WorkCalendar` on their constants
(`BookingAssumption`, `TemplatesAssumption`, `GreedyAssumption`, `SlotAssumption`,
`HolidaysAssumption`), all invariants of the run `booking`:

| Theorem | States |
|---|---|
| `Typed` | `Spec => []TypeOK` |
| `NoHourIsLost` | `Spec => []HoursConserved` |
| `LinksAreKept` | `Spec => []LinksKept` |
| `OverloadIsForced` | `Spec => []OverloadForced` |
| `OverloadIsReported` | `Spec => []OverloadReported` |
| `ChainIsNeverLater` | `Spec => []ChainIsLowerBound` |
| `BoardHidesNothing` | `Spec => []BoardHoldsLoad` |
| `VacationIsWhole` | `Spec => []EnteredIsWhole` |
| `ReplanTellsTheTruth` | `Spec => []AllClearIsTrue` |

They rest on five inductive invariants:

* `Inv` (theorem `Solving`) says where a run of the solver stands, whichever tasks it
  placed first: `Solves` (each placed task keeps its hours, and the count of each day
  is what was booked plus what was placed), `Linked` and `Forced` (the three
  properties, for the tasks placed so far), and for the plans in the tables and the
  plans a replan has read that their places fit the calendar.  `Forced` is kept since
  the hours left on a day only shrink: a day that was too full for a task stays so.
* `LeaveInv`: of each vacation that is being entered, the days before the next one
  hold its hours or those of another of that person that was under way since
  (`UpTo`, `Held`), and a row that was read and is about to be updated is still there,
  with the hours read or with such hours; a reported one is held to its end.  Handlers
  that run at once are among each other's `others`, so whatever one of them writes
  over another is accounted for.  The solver does not write the table.
* `KnownInv`: the committed plans that a plan was computed beside include those that
  these were computed beside, and what all of them overload together is among its
  risks.  Of the committed plans that touch an overloaded day, take the one that knows
  the most; if any two of them know of each other one way or the other, it knows all
  of the rest, so it shows the overload.
* `ChainInv`: there is a task, and windows last as long as their hours take.  With
  `Linked`, a task that gets no more than `AssumedHours` a day ends as many working
  days after the start as its chain counts (`ChainCounts`), by a smallest
  counterexample among the tasks; the day with that number is no later
  (`NthComesBy`).
* `RowsInv`: each person on a task has a row with his hours and the days of the task.
  So what the heatmap shows of a person on some days is at most the hours of the rows
  that show one of them (`HoursHaveRows`), by swapping the sums over days and over
  tasks; and the board, which counts in a scale that every length of a task divides,
  loses nothing of a row that lies within its window (`BoardHoldsRows`).

`GreedyProofs` is the kit under them.  Sums and products over finite sets and bags are
defined by folds, over which this prover cannot induct; what takes the place of
induction is `MinimalSet`: of a nonempty family of finite sets, one includes no other.
A statement about all finite sets has a minimal counterexample, and removing one
element gives the contradiction.  From it follow the equations of `SumFunction` (adding
an element, union, order, scale, image, swap), the same for products, the working days
(`NthIsWorking`: the nth working day has n - 1 before it), the sound end of every
search within the horizon, what each of the four kinds of placement gives
(`PlaceTask`), rounding up, and the length of a chain.

`PlanLifecycleProofs` also proves two properties of runs in which no handler is
cut, from the same `IInv` and an invariant of its own for each:

| Theorem | States |
|---|---|
| `DecisionsAreCompleted` | `~Aborts => (Spec => []DecisionCompleted)` |
| `ProposalsStayReachable` | `~Aborts /\ ~AgentWired => (Spec => []ProposalReachable)` |

With `Aborts` the first is false and so is the second; with the agent the second is
what `lifecycle_reach` refutes.  The hypotheses are the exact bounds of the claims.

`NotionMirrorProofs` proves, for any handlers, plans, columns,
moods and edits of the board and any number of faults, from `MirrorAssumption`:

| Theorem | States |
|---|---|
| `MirrorHolds` | `Spec => []MirrorInv` |
| `MirrorIsOneWay` | `Spec => MirrorsOneWay`: `NotionMirror` implements `OneWayMirror` |
| `StaleSchemaFailsOnce` | `Spec => []StaleOnce` |
| `FailuresAreCounted` | `Spec => []FailuresCounted` |
| `RowsUnlessRefused` | `Spec => []RowUnlessRefused` |
| `TypesHold` | `Spec => []TypeOK` |
| `DoneTicks` | `Spec => []DoneIsTicked` |

`MirrorInv` says that what each handler is about to show is in the database
(`Job`), that a project's page is a card made for it (`Pages`), and the shapes of
rows and cards (`Sets`, `Board`).  The refinement maps the database, with the ticks
that a lookup by title may put on another project's card (`Mistaken`), to `truth`, and
rows, cards and ticks to `surface`: creating a row, a card or a tick is one step
`Show`, a write to the database is `Write`, everything else stutters.

The pushes share one schema, which any of them may throw away, or replace by an
answer from before an edit of the board.  As long as nothing is kept late, an edition
never comes back: `Newer` says that the failures a handler has seen for an old schema
since the last late answer are of ever newer editions, so there is at most one per
edit and late answer.  `Climbing` says where a push stands on its ladder of attempts
and that, as long as it met no other error and the schema stayed (`clean`), every
attempt before was refused, for its columns or for its edition; that is why a
push that fails without faults or edits was barred whatever it tried, and why a row
that is thin had a reason.  The count of
failures agrees with the rows because a handler counts each task of its list once
(`Counted`), and only one handler has a task in its list (`Single`), so that a second
row comes only after an unanswered first (`Unanswered`).
`CardInv` says that a project is given its card by one handler and only once, and
that the page which "done" looked up stays the page of that project.

`CaptureProofs` and `CaptureCardProofs` prove, for any handlers, users, people,
tasks asked for and answers of the model, from `CaptureAssumption`:

| Theorem | States |
|---|---|
| `TypesOfCaptures` | `Spec => []TypeOK` |
| `TwinsOverlap` | `Spec => []NoTwins` |
| `CapturesAreWhole` | `Spec => []WholeUnlessCut` |
| `NothingIsMadeUp` | `Spec => []NothingMadeUp` |
| `CardsAreTrue` | `Spec => []CardsTrue` |
| `AnswersHideNothing` | `Spec => []WrittenIsShown` |
| `ButtonsMeanWhatTheySay` | `Spec => []PressedIsTaken` |

`Reads` says what a capture knows at each stage: at "create" every project of its
title, and at "write" every open task of its name, came after it looked.  Rows only
come, and keep what they were captured with (`Keeps`), so what was read stays true
in that weaker form while others write.  `Complete` and `AsNamed` say that a capture
which was not parsed lacks nothing and goes to the project it names.  `Shown` says that
each card and each entry of
the merge table holds what is in the rows, and that what the turn captured, and was
not told to have failed, has a card.  That a card tells all the people of its task
needs `OwnInv`: no two turns, and no two titles of one turn, have a task in common
(`Owned`, `Apiece`), so nobody adds people to it but the turn that has it, and its entry
in the merge table always knows who has the task (`BoxExact`); the card itself is behind
its entry only while a merge is under way or after one that was refused (`Fits`).
`KeyInv` relates the keyboards sent,
the options stored for their user and the handlers between the two: unless
another dialogue began, the process died or Telegram refused in between, the options
stored are those of the keyboard, or gone.

`ChatGateProofs` proves, for any chats, users, files, messages and bounds, from
`GateAssumption` and `SeedAssumption`:

| Theorem | States |
|---|---|
| `GateHolds` | `Spec => []IInv` |
| `TypesHold` | `Spec => []TypeOK` |
| `HeardOnPurposeHolds` | `Spec => []HeardOnPurpose` |
| `TemplatesAreOfOneFile` | `Spec => []TemplateOfOneFile` |
| `LearnedStays` | `Spec => LearnedIsKept` |

`HeardOnPurpose` speaks of texts that overtake each other between the throttle and
the router.  `GateInv` says that each recorded text is on its way in some handler or
has become something (`CallOK`), that the arming of a user is no older than any of his
texts that was heard, and that whoever is armed was heard at that very time
(`ArmedOK`); `HeardOK` carries through the turn that a voice was listened to within the
window after such a text, and the rights of its author, since
nobody's Telegram link is ever removed.  `SeedInv` says that links stay within a
template and that what a load deletes is all of some templates (`LoadOK`), so that
its commit leaves no row that refers to a deleted one.  TLC
checked each of these invariants on the runs' instances before it was proved.

`TemplateOfOneFile` needs `ReadInv`: the tables hold, for each template, exactly the
rows of the file last loaded, under keys that no other load gives (`TablesFilled`), and
each reader holds the rows of one load, of which the tables still have everything or
nothing (`Reading`).  A load that commits between two statements replaces all keys, so
the rows of another load join nothing.  The order of the people is that of `Sorted`, which
exists for any finite set and any keys, compared number by number; those of equal
keys come in any order.  `LearnedIsKept` needs that everybody has a place among the
names (`NamedInv`), that a step never takes a skill from anybody (`Learned`), and
that the first of the sorted suggestions covers the most (`BestCovers`).

Only model-checked: the liveness properties (`CommitShows`, `HandlersFinish`,
`TurnEnds`, `PushingEnds`), which hold under fairness, and fairness speaks of ENABLED,
on which this prover cannot reason; and the five violations, which are single
behaviours.  Every invariant, action property and refinement that a passing run checks
is proved.

## Not modelled

* Parsing of text, drawing, the web login, the daily summary, start-up and
  logging: pure functions, reading or wiring with no state the properties are
  about.  The parsers' results and the model's answers are inputs.
* Fetching the production calendar and the snapshot file: done once, before the
  first message; the calendar is a parameter.
* The days and hours of allocations when a task is moved by hand: the code does
  not change them, and `PlanSync` keeps only the dates.
* Two loads of the seed at once, and the text of a turn that was dropped by the
  throttle.

## What is left

The groups above are complete: every invariant and action property that a run checks
is proved for every value of the constants.  What would extend the project:

1. Moves of a committed task by hand in `Booking`, with the days of its allocations
   left behind as `update_schedule_in_plan` leaves them; the heatmap and the board
   then disagree, and it would have to be said what they should show.
2. An abstract specification of the bookings (hours per person and day, added by a
   confirmation) which `Booking` implements.
3. The web login and its sessions, if they grow state of their own.
