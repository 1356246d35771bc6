--------------------------- MODULE PlanLifecycle ---------------------------
(***************************************************************************)
(* The life of a plan proposal: created by the add-project use case,       *)
(* replaced by the edit loop, committed by the inline button or a typed     *)
(* "ok", all of it by bot handlers that run concurrently in one process.    *)
(*                                                                         *)
(* Every await of a handler is a step of its own: another handler may run   *)
(* between any two of them.  Each repository method is one short            *)
(* transaction, so it is one action.  Every add-project run draws a fresh   *)
(* project id and stores exactly one plan version for it, so one element of *)
(* Plans names both rows.                                                   *)
(***************************************************************************)
EXTENDS Naturals

CONSTANTS
    Plans,       \* ids of (project, plan version) pairs
    Users,       \* chat participants with full rights, one FSM context each
    Handlers,    \* slots for concurrently running handler coroutines
    NoPlan,      \* no plan id: FSM data without pending_pv_id, a None
    NoUser,      \* the user of an empty slot
    AgentWired,  \* is the tool-use agent configured?
    Aborts,      \* may a handler be cut at an await (exception or crash)?
    Resets       \* may the reset_all_plans operation be used?

ASSUME LifecycleAssumption ==
    /\ NoPlan \notin Plans
    /\ NoUser \notin Users
    /\ {AgentWired, Aborts, Resets} \subseteq BOOLEAN

VARIABLES
    project,    \* [Plans -> status of the project row]
    tasks,      \* the plans whose task rows are stored
    plan,       \* [Plans -> status of the plan_version row]
    added,      \* [Plans -> number of add_project audit rows]
    confirmed,  \* [Plans -> number of confirm_plan audit rows]
    keyboards,  \* the plans whose message still shows its inline keyboard
    editing,    \* [Users -> is the FSM state PlanEditState.waiting?]
    pending,    \* [Users -> pending_pv_id of the FSM data]
    run         \* [Handlers -> the running handler of that slot]

db   == <<project, tasks, plan, added, confirmed>>
fsm  == <<editing, pending>>
vars == <<project, tasks, plan, added, confirmed, keyboards, editing, pending, run>>

ProjectStatus == {"absent", "planning", "committed", "cancelled"}
PlanStatus    == {"absent", "proposed", "committed", "superseded"}

(* Where a handler is: the await it performs next.                          *)
TextLabels    == {"edit_read", "text", "parse"}
ProposeLabels == {"create", "save_tasks", "save_plan", "audit_add", "present", "stash"}
EditLabels    == {"retire", "cancel", "rearm_state", "rearm_data"}
ConfirmLabels == {"cf_cas", "cf_audit", "cf_project", "cf_reply", "cf_refused"}
ChatLabels    == {"clear_state", "clear_data", "ed_state", "ed_data", "cap_press", "cap_ask"}
Labels        == {"idle"} \cup TextLabels \cup ProposeLabels \cup EditLabels
                          \cup ConfirmLabels \cup ChatLabels

(* How a handler was entered: a plain message, a message of the edit loop,  *)
(* the confirmation phrase, a parsed ConfirmIntent, an inline button.       *)
Entries == {"none", "text", "edit", "phrase", "intent", "button", "capture"}

Run == [at     : Labels,
        user   : Users \cup {NoUser},
        via    : Entries,
        old    : Plans \cup {NoPlan},   \* pending_pv_id read on entry to the edit loop
        target : Plans \cup {NoPlan}]   \* the plan being created or confirmed

Idle == [at |-> "idle", user |-> NoUser, via |-> "none", old |-> NoPlan, target |-> NoPlan]

TypeOK ==
    /\ project \in [Plans -> ProjectStatus]
    /\ tasks \in SUBSET Plans
    /\ plan \in [Plans -> PlanStatus]
    /\ added \in [Plans -> Nat]
    /\ confirmed \in [Plans -> Nat]
    /\ keyboards \in SUBSET Plans
    /\ editing \in [Users -> BOOLEAN]
    /\ pending \in [Users -> Plans \cup {NoPlan}]
    /\ run \in [Handlers -> Run]

Init ==
    /\ project = [p \in Plans |-> "absent"]
    /\ tasks = {}
    /\ plan = [p \in Plans |-> "absent"]
    /\ added = [p \in Plans |-> 0]
    /\ confirmed = [p \in Plans |-> 0]
    /\ keyboards = {}
    /\ editing = [u \in Users |-> FALSE]
    /\ pending = [u \in Users |-> NoPlan]
    /\ run = [h \in Handlers |-> Idle]

-----------------------------------------------------------------------------
(* Handler control.                                                         *)

Begin(h, u, via, label, p) ==
    /\ run[h] = Idle
    /\ run' = [run EXCEPT ![h] = [at |-> label, user |-> u, via |-> via,
                                  old |-> NoPlan, target |-> p]]

Go(h, label) == run' = [run EXCEPT ![h].at = label]

Finish(h) == run' = [run EXCEPT ![h] = Idle]

(* Ids uuid4() may still return: no project row, not held by a handler.     *)
FreshIds == {p \in Plans : project[p] = "absent" /\ \A h \in Handlers : run[h].target # p}

-----------------------------------------------------------------------------
(* Updates that arrive from Telegram, each dispatched as its own task.      *)

(* A text of a user whose edit is awaited goes to the edit-loop handler;    *)
(* other texts do not, and neither do voice messages and commands.          *)
Message(h, u) ==
    /\ \/ editing[u] /\ Begin(h, u, "edit", "edit_read", NoPlan)
       \/ Begin(h, u, "text", "text", NoPlan)
    /\ UNCHANGED <<db, fsm, keyboards>>

PressConfirm(h, u, p) ==
    /\ p \in keyboards
    /\ Begin(h, u, "button", "cf_cas", p)
    /\ UNCHANGED <<db, fsm, keyboards>>

PressEdit(h, u, p) ==
    /\ p \in keyboards
    /\ Begin(h, u, "button", "ed_state", p)
    /\ UNCHANGED <<db, fsm, keyboards>>

(* A button or a typed answer of the task-capture dialogue, which keeps its *)
(* partial task in the same FSM context and starts on the agent path only.  *)
PressCapture(h, u) ==
    /\ AgentWired
    /\ Begin(h, u, "capture", "cap_press", NoPlan)
    /\ UNCHANGED <<db, fsm, keyboards>>

-----------------------------------------------------------------------------
(* The text handlers.                                                       *)

EditRead(h) ==
    /\ run[h].at = "edit_read"
    /\ run' = [run EXCEPT ![h].old = pending[run[h].user], ![h].at = "text"]
    /\ UNCHANGED <<db, fsm, keyboards>>

(* The whole message is a confirmation phrase and a plan is pending: the    *)
(* FSM data is read again, the plan read on entry is only the fallback.     *)
TextIsConfirm(h) ==
    LET stashed == pending[run[h].user]
        t       == IF stashed # NoPlan THEN stashed ELSE run[h].old
    IN  /\ run[h].at = "text"
        /\ t # NoPlan
        /\ run' = [run EXCEPT ![h].target = t, ![h].via = "phrase", ![h].at = "cf_cas"]
        /\ UNCHANGED <<db, fsm, keyboards>>

TextIsRequest(h) ==
    /\ run[h].at = "text"
    /\ Go(h, "parse")
    /\ UNCHANGED <<db, fsm, keyboards>>

(* Mutant: an edit retires the old plan though it produced no new one.      *)
ParseOtherRetires(h) ==
    /\ run[h].at = "parse"
    /\ IF run[h].old # NoPlan THEN Go(h, "retire") ELSE Finish(h)
    /\ UNCHANGED <<db, fsm, keyboards>>

(* Reads, captures, clarifications, refused projects: no plan comes of it.  *)
ParseOther(h) ==
    /\ run[h].at = "parse"
    /\ Finish(h)
    /\ UNCHANGED <<db, fsm, keyboards>>

(* A project request that the validation and the solver accept.             *)
ParseAddProject(h) ==
    /\ run[h].at = "parse"
    /\ \E p \in FreshIds :
           run' = [run EXCEPT ![h].target = p, ![h].at = "create"]
    /\ UNCHANGED <<db, fsm, keyboards>>

(* The intent parser (never the agent) understood a confirmation.           *)
ParseConfirm(h) ==
    LET t == IF run[h].old # NoPlan THEN run[h].old ELSE pending[run[h].user]
    IN  /\ run[h].at = "parse"
        /\ run[h].via = "edit" \/ ~AgentWired
        /\ t # NoPlan
        /\ run' = [run EXCEPT ![h].target = t, ![h].via = "intent", ![h].at = "cf_cas"]
        /\ UNCHANGED <<db, fsm, keyboards>>

-----------------------------------------------------------------------------
(* The add-project use case and the reply that offers the plan.             *)

(* Mutant: the plan version is stored before the task rows.                 *)
CreateProjectThenPlan(h) ==
    /\ run[h].at = "create"
    /\ project' = [project EXCEPT ![run[h].target] = "planning"]
    /\ Go(h, "save_plan")
    /\ UNCHANGED <<tasks, plan, added, confirmed, fsm, keyboards>>

CreateProject(h) ==
    /\ run[h].at = "create"
    /\ project' = [project EXCEPT ![run[h].target] = "planning"]
    /\ Go(h, "save_tasks")
    /\ UNCHANGED <<tasks, plan, added, confirmed, fsm, keyboards>>

SaveProjectTasks(h) ==
    /\ run[h].at = "save_tasks"
    /\ tasks' = tasks \cup {run[h].target}
    /\ Go(h, "save_plan")
    /\ UNCHANGED <<project, plan, added, confirmed, fsm, keyboards>>

SavePlanVersion(h) ==
    /\ run[h].at = "save_plan"
    /\ plan' = [plan EXCEPT ![run[h].target] = "proposed"]
    /\ Go(h, "audit_add")
    /\ UNCHANGED <<project, tasks, added, confirmed, fsm, keyboards>>

AuditAddProject(h) ==
    /\ run[h].at = "audit_add"
    /\ added' = [added EXCEPT ![run[h].target] = @ + 1]
    /\ Go(h, "present")
    /\ UNCHANGED <<project, tasks, plan, confirmed, fsm, keyboards>>

(* Mutant: the proposal is shown without its keyboard.                      *)
PresentBare(h) ==
    /\ run[h].at = "present"
    /\ Go(h, "stash")
    /\ UNCHANGED <<db, fsm, keyboards>>

Present(h) ==
    /\ run[h].at = "present"
    /\ keyboards' = keyboards \cup {run[h].target}
    /\ Go(h, "stash")
    /\ UNCHANGED <<db, fsm>>

(* The agent also asked for a missing capture field: the handler starts the *)
(* capture dialogue and returns before it shows or stashes the proposal.    *)
AgentClarifies(h) ==
    /\ AgentWired
    /\ run[h].at = "present"
    /\ run[h].via = "text"
    /\ Go(h, "cap_ask")
    /\ UNCHANGED <<db, fsm, keyboards>>

StashPending(h) ==
    /\ run[h].at = "stash"
    /\ pending' = [pending EXCEPT ![run[h].user] = run[h].target]
    /\ \/ run[h].via = "text" /\ Finish(h)
       \/ run[h].via = "edit" /\ run[h].old = NoPlan /\ Go(h, "rearm_state")
       \/ run[h].via = "edit" /\ run[h].old # NoPlan /\ Go(h, "retire")
    /\ UNCHANGED <<db, editing, keyboards>>

-----------------------------------------------------------------------------
(* The end of an edit that produced a new proposal.                         *)

(* Mutants: the status written is the project's word; the update has no     *)
(* WHERE on the old status.                                                 *)
RetireOldMisnamed(h) ==
    /\ run[h].at = "retire"
    /\ plan' = [plan EXCEPT ![run[h].old] = "cancelled"]
    /\ Go(h, "cancel")
    /\ UNCHANGED <<project, tasks, added, confirmed, fsm, keyboards>>

RetireOldBlind(h) ==
    /\ run[h].at = "retire"
    /\ plan' = [plan EXCEPT ![run[h].old] = "superseded"]
    /\ Go(h, "cancel")
    /\ UNCHANGED <<project, tasks, added, confirmed, fsm, keyboards>>

RetireOld(h) ==
    /\ run[h].at = "retire"
    /\ \/ /\ plan[run[h].old] = "proposed"
          /\ plan' = [plan EXCEPT ![run[h].old] = "superseded"]
          /\ Go(h, "cancel")
       \/ /\ plan[run[h].old] # "proposed"
          /\ Go(h, "rearm_state")
          /\ UNCHANGED plan
    /\ UNCHANGED <<project, tasks, added, confirmed, fsm, keyboards>>

CancelOldProject(h) ==
    /\ run[h].at = "cancel"
    /\ project' = [project EXCEPT ![run[h].old] = "cancelled"]
    /\ Go(h, "rearm_state")
    /\ UNCHANGED <<tasks, plan, added, confirmed, fsm, keyboards>>

RearmState(h) ==
    /\ run[h].at = "rearm_state"
    /\ editing' = [editing EXCEPT ![run[h].user] = TRUE]
    /\ Go(h, "rearm_data")
    /\ UNCHANGED <<db, pending, keyboards>>

RearmData(h) ==
    /\ run[h].at = "rearm_data"
    /\ pending' = [pending EXCEPT ![run[h].user] = run[h].target]
    /\ Finish(h)
    /\ UNCHANGED <<db, editing, keyboards>>

-----------------------------------------------------------------------------
(* The confirm use case and the replies of its three callers.               *)

(* Mutants: a blind status write; the journal entry is forgotten; the loser *)
(* of the race tries again.                                                 *)
ConfirmBlind(h) ==
    /\ run[h].at = "cf_cas"
    /\ plan' = [plan EXCEPT ![run[h].target] = "committed"]
    /\ Go(h, "cf_audit")
    /\ UNCHANGED <<project, tasks, added, confirmed, fsm, keyboards>>

ConfirmUnaudited(h) ==
    /\ run[h].at = "cf_cas"
    /\ IF plan[run[h].target] = "proposed"
       THEN plan' = [plan EXCEPT ![run[h].target] = "committed"] /\ Go(h, "cf_project")
       ELSE UNCHANGED plan /\ Go(h, "cf_refused")
    /\ UNCHANGED <<project, tasks, added, confirmed, fsm, keyboards>>

ConfirmRetries(h) ==
    /\ run[h].at = "cf_cas"
    /\ plan[run[h].target] = "proposed"
    /\ plan' = [plan EXCEPT ![run[h].target] = "committed"]
    /\ Go(h, "cf_audit")
    /\ UNCHANGED <<project, tasks, added, confirmed, fsm, keyboards>>

(* UPDATE ... WHERE status = 'proposed': the compare-and-set.               *)
ConfirmTransition(h) ==
    /\ run[h].at = "cf_cas"
    /\ \/ /\ plan[run[h].target] = "proposed"
          /\ plan' = [plan EXCEPT ![run[h].target] = "committed"]
          /\ Go(h, "cf_audit")
       \/ /\ plan[run[h].target] # "proposed"
          /\ Go(h, "cf_refused")
          /\ UNCHANGED plan
    /\ UNCHANGED <<project, tasks, added, confirmed, fsm, keyboards>>

(* Mutant: the project row is forgotten.                                    *)
AuditConfirmOnly(h) ==
    /\ run[h].at = "cf_audit"
    /\ confirmed' = [confirmed EXCEPT ![run[h].target] = @ + 1]
    /\ Go(h, "cf_reply")
    /\ UNCHANGED <<project, tasks, plan, added, fsm, keyboards>>

AuditConfirm(h) ==
    /\ run[h].at = "cf_audit"
    /\ confirmed' = [confirmed EXCEPT ![run[h].target] = @ + 1]
    /\ Go(h, "cf_project")
    /\ UNCHANGED <<project, tasks, plan, added, fsm, keyboards>>

CommitProject(h) ==
    /\ run[h].at = "cf_project"
    /\ project' = [project EXCEPT ![run[h].target] = "committed"]
    /\ Go(h, "cf_reply")
    /\ UNCHANGED <<tasks, plan, added, confirmed, fsm, keyboards>>

(* The button press retires its keyboard whatever the outcome.              *)
RetireKeyboard(h) ==
    keyboards' = IF run[h].via = "button" THEN keyboards \ {run[h].target} ELSE keyboards

(* A typed confirmation that committed ends the edit loop.                  *)
ReplyCommitted(h) ==
    /\ run[h].at = "cf_reply"
    /\ RetireKeyboard(h)
    /\ IF run[h].via = "button" THEN Finish(h) ELSE Go(h, "clear_state")
    /\ UNCHANGED <<db, fsm>>

(* "This plan is already committed."  The phrase drops the FSM data even    *)
(* so, a parsed ConfirmIntent keeps it.                                     *)
ReplyAlreadyCommitted(h) ==
    /\ run[h].at = "cf_refused"
    /\ RetireKeyboard(h)
    /\ IF run[h].via = "phrase" THEN Go(h, "clear_state") ELSE Finish(h)
    /\ UNCHANGED <<db, fsm>>

-----------------------------------------------------------------------------
(* FSM bookkeeping: state and data are two Redis keys, two awaits.          *)

ClearState(h) ==
    /\ run[h].at = "clear_state"
    /\ editing' = [editing EXCEPT ![run[h].user] = FALSE]
    /\ Go(h, "clear_data")
    /\ UNCHANGED <<db, pending, keyboards>>

ClearData(h) ==
    /\ run[h].at = "clear_data"
    /\ pending' = [pending EXCEPT ![run[h].user] = NoPlan]
    /\ Finish(h)
    /\ UNCHANGED <<db, editing, keyboards>>

ArmEdit(h) ==
    /\ run[h].at = "ed_state"
    /\ editing' = [editing EXCEPT ![run[h].user] = TRUE]
    /\ Go(h, "ed_data")
    /\ UNCHANGED <<db, pending, keyboards>>

ArmEditData(h) ==
    /\ run[h].at = "ed_data"
    /\ pending' = [pending EXCEPT ![run[h].user] = run[h].target]
    /\ Finish(h)
    /\ UNCHANGED <<db, editing, keyboards>>

(* A capture answer leads to the next question, completes the task, which   *)
(* clears the whole FSM context, or is not understood.                      *)
CaptureAnswer(h) ==
    /\ run[h].at = "cap_press"
    /\ Go(h, "cap_ask") \/ Go(h, "clear_state") \/ Finish(h)
    /\ UNCHANGED <<db, fsm, keyboards>>

(* Every question of the dialogue leaves the PlanEditState.                 *)
CaptureAsk(h) ==
    /\ run[h].at = "cap_ask"
    /\ editing' = [editing EXCEPT ![run[h].user] = FALSE]
    /\ Finish(h)
    /\ UNCHANGED <<db, pending, keyboards>>

-----------------------------------------------------------------------------
(* An exception at an await reaches the error boundary, or the process dies *)
(* and every slot is cut; rows, FSM context and keyboards survive both.     *)
Abort(h) ==
    /\ Aborts
    /\ run[h] # Idle
    /\ Finish(h)
    /\ UNCHANGED <<db, fsm, keyboards>>

(* The maintenance operation: one transaction over all committed plans.     *)
ResetAllPlans ==
    LET committed == {p \in Plans : plan[p] = "committed"}
    IN  /\ Resets
        /\ committed # {}
        /\ plan' = [p \in Plans |-> IF p \in committed THEN "superseded" ELSE plan[p]]
        /\ project' = [p \in Plans |-> IF p \in committed THEN "cancelled" ELSE project[p]]
        /\ UNCHANGED <<tasks, added, confirmed, fsm, keyboards, run>>

Arrive(h) ==
    \E u \in Users : \/ Message(h, u)
                     \/ PressCapture(h, u)
                     \/ \E p \in Plans : PressConfirm(h, u, p) \/ PressEdit(h, u, p)

Step(h) ==
    \/ EditRead(h) \/ TextIsConfirm(h) \/ TextIsRequest(h)
    \/ ParseOther(h) \/ ParseAddProject(h) \/ ParseConfirm(h)
    \/ CreateProject(h) \/ SaveProjectTasks(h) \/ SavePlanVersion(h) \/ AuditAddProject(h)
    \/ Present(h) \/ AgentClarifies(h) \/ StashPending(h)
    \/ RetireOld(h) \/ CancelOldProject(h) \/ RearmState(h) \/ RearmData(h)
    \/ ConfirmTransition(h) \/ AuditConfirm(h) \/ CommitProject(h)
    \/ ReplyCommitted(h) \/ ReplyAlreadyCommitted(h)
    \/ ClearState(h) \/ ClearData(h) \/ ArmEdit(h) \/ ArmEditData(h)
    \/ CaptureAnswer(h) \/ CaptureAsk(h)

Next == ResetAllPlans \/ \E h \in Handlers : Arrive(h) \/ Step(h) \/ Abort(h)

Spec == Init /\ [][Next]_vars

(* The event loop runs every ready task again and every await has a timeout *)
(* or an answer, so a started handler keeps going; nothing makes a message  *)
(* arrive.                                                                  *)
FairSpec == Spec /\ \A h \in Handlers : WF_vars(Step(h))

-----------------------------------------------------------------------------
(* Properties.                                                              *)

(* No button and no stashed id names a plan that is not stored, and no plan *)
(* is stored before its project and its task rows, wherever a handler is    *)
(* cut: add-project writes parents first and offers the plan last.          *)
StoredBeforeNamed ==
    /\ \A p \in Plans : plan[p] # "absent" => p \in tasks /\ project[p] # "absent"
    /\ \A p \in keyboards : plan[p] # "absent"
    /\ \A u \in Users : pending[u] # NoPlan => plan[pending[u]] # "absent"

(* One confirmation wins: however many buttons and typed confirmations race *)
(* for a plan, the journal shows at most one confirm_plan entry for it, and *)
(* never one for a plan that was not committed.                             *)
ConfirmedOnce ==
    \A p \in Plans : /\ confirmed[p] <= 1
                     /\ confirmed[p] = 1 => plan[p] \in {"committed", "superseded"}

(* A failed edit leaves the old proposal confirmable: a proposal is only    *)
(* superseded by a handler whose replacement is already stored.             *)
RetireNeedsReplacement ==
    [][\A p \in Plans :
          plan[p] = "proposed" /\ plan'[p] = "superseded"
              => \E h \in Handlers : /\ run[h].old = p
                                     /\ run[h].target \notin {p, NoPlan}
                                     /\ plan[run[h].target] # "absent"]_vars

(* The concurrent handlers implement the one-decision specification of a    *)
(* proposal (without resets): compare-and-set decides the race of the edit  *)
(* loop with the confirmations, and the project row follows its winner.     *)
Decision == INSTANCE PlanDecision WITH Plans <- Plans, project <- project, plan <- plan
DecidedOnce == Decision!Spec

(* With no handler cut, every commit is in the journal or its handler is    *)
(* about to write it, and every superseded proposal's project is cancelled  *)
(* or about to be.                                                          *)
DecisionCompleted ==
    \A p \in Plans :
        /\ plan[p] = "committed" /\ confirmed[p] = 0
               => \E h \in Handlers : run[h].at = "cf_audit" /\ run[h].target = p
        /\ plan[p] = "superseded" /\ project[p] # "cancelled"
               => \E h \in Handlers :
                     \/ run[h].at = "cancel" /\ run[h].old = p
                     \/ Resets /\ confirmed[p] = 1

(* With no handler cut, the board stops showing "planning" for a committed  *)
(* plan: its project row becomes committed, unless a reset came first.      *)
CommitShows ==
    \A p \in Plans :
        plan[p] = "committed" ~> (project[p] = "committed" \/ plan[p] = "superseded")

(* A started handler ends: none waits for another one.                      *)
HandlersFinish == \A h \in Handlers : run[h].at # "idle" ~> run[h].at = "idle"

(* "This plan is already committed" is only said of a committed plan.       *)
AlreadyCommittedIsTrue ==
    \A h \in Handlers : run[h].at = "cf_refused" => plan[run[h].target] = "committed"

(* Once every handler has ended, each proposal on offer can be confirmed:   *)
(* by its keyboard, or by a typed confirmation of a user whose FSM data     *)
(* holds it.                                                                *)
ProposalReachable ==
    (\A h \in Handlers : run[h] = Idle) =>
        \A p \in Plans : plan[p] = "proposed" =>
            p \in keyboards \/ \E u \in Users : pending[u] = p
=============================================================================
