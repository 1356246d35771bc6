------------------------ MODULE PlanLifecycleProofs ------------------------
(***************************************************************************)
(* Proofs about PlanLifecycle for any plans, users and handler slots.       *)
(* TypeOK and the invariants below are inductive together: what a handler   *)
(* may do next is justified by what the rows hold when it gets there.       *)
(***************************************************************************)
EXTENDS PlanLifecycle, TLAPS

Creating == {"create", "save_tasks", "save_plan"}
Offering == {"audit_add", "present", "stash", "retire", "cancel", "rearm_state", "rearm_data"}
Naming   == Offering \cup ConfirmLabels \cup {"ed_state", "ed_data"}
Won      == {"cf_audit", "cf_project"}

(* The rows agree with one another.                                         *)
RowsOK ==
    \A p \in Plans :
        /\ plan[p] # "absent" => p \in tasks /\ project[p] # "absent"
        /\ plan[p] \in {"absent", "proposed"}
               => confirmed[p] = 0 /\ project[p] \in {"absent", "planning"}
        /\ confirmed[p] <= 1
        /\ ~Resets /\ project[p] = "committed" => plan[p] = "committed"
        /\ ~Resets /\ project[p] = "cancelled" => plan[p] = "superseded"

(* What the chat names is stored.                                           *)
NamesOK ==
    /\ \A p \in keyboards : plan[p] # "absent"
    /\ \A u \in Users : pending[u] # NoPlan => plan[pending[u]] # "absent"

(* What a handler knows of the rows of the plans it holds.                  *)
RunOK(h) ==
    LET r == run[h] IN
    /\ r.at # "idle" => r.user \in Users
    /\ r.at \in Creating => r.target # NoPlan /\ plan[r.target] = "absent"
    /\ r.at = "create" => project[r.target] = "absent"
    /\ r.at \in {"save_tasks", "save_plan"} => project[r.target] = "planning"
    /\ r.at = "save_plan" => r.target \in tasks
    /\ r.at \in Naming => r.target # NoPlan /\ plan[r.target] # "absent"
    /\ r.at \in Offering => r.target # r.old
    /\ r.old # NoPlan => plan[r.old] # "absent"
    /\ r.at \in {"retire", "cancel"} => r.old # NoPlan
    /\ r.at = "cancel" => plan[r.old] = "superseded"
    /\ r.at = "cancel" /\ ~Resets => project[r.old] = "planning"
    /\ r.at \in Won => plan[r.target] \in {"committed", "superseded"}
    /\ r.at \in Won /\ ~Resets => plan[r.target] = "committed" /\ project[r.target] = "planning"
    /\ r.at = "cf_audit" => confirmed[r.target] = 0

(* No two handlers create the same plan, commit it or cancel its project.   *)
DisjointOK ==
    \A h, g \in Handlers : h # g =>
        /\ run[h].at \in Creating => run[g].target # run[h].target
        /\ run[h].at \in Won /\ run[g].at \in Won => run[g].target # run[h].target
        /\ run[h].at = "cancel" /\ run[g].at = "cancel" => run[g].old # run[h].old

IInv == TypeOK /\ RowsOK /\ NamesOK /\ (\A h \in Handlers : RunOK(h)) /\ DisjointOK

-----------------------------------------------------------------------------
(* Types of the handler slots after the four ways an action writes them.    *)

LEMMA IdleType == Idle \in Run
BY DEF Idle, Run, Labels, Entries

LEMMA GoType ==
    ASSUME run \in [Handlers -> Run], NEW h \in Handlers, NEW l \in Labels, Go(h, l)
    PROVE  run' \in [Handlers -> Run]
BY DEF Go, Run

LEMMA FinishType ==
    ASSUME run \in [Handlers -> Run], NEW h \in Handlers, Finish(h)
    PROVE  run' \in [Handlers -> Run]
BY IdleType DEF Finish

LEMMA BeginType ==
    ASSUME run \in [Handlers -> Run], NEW h \in Handlers, NEW u \in Users,
           NEW via \in Entries, NEW l \in Labels, NEW p \in Plans \cup {NoPlan},
           Begin(h, u, via, l, p)
    PROVE  run' \in [Handlers -> Run]
BY DEF Begin, Run

LEMMA PutType ==
    ASSUME run \in [Handlers -> Run], NEW h \in Handlers, NEW r \in Run,
           run' = [run EXCEPT ![h] = r]
    PROVE  run' \in [Handlers -> Run]
OBVIOUS

(* What Go leaves alone.                                                    *)
LEMMA GoFields ==
    ASSUME run \in [Handlers -> Run], NEW h \in Handlers, NEW l, Go(h, l)
    PROVE  /\ run'[h].at = l
           /\ run'[h].user = run[h].user
           /\ run'[h].via = run[h].via
           /\ run'[h].old = run[h].old
           /\ run'[h].target = run[h].target
           /\ \A g \in Handlers \ {h} : run'[g] = run[g]
<1>1. run[h] \in Run /\ run' = [run EXCEPT ![h] = [run[h] EXCEPT !.at = l]] BY DEF Go
<1>2. run'[h] = [run[h] EXCEPT !.at = l] BY <1>1
<1>3. \A g \in Handlers \ {h} : run'[g] = run[g] BY <1>1
<1> QED BY <1>1, <1>2, <1>3 DEF Run

(* What IInv says of the slot of a handler that runs.                       *)
LEMMA Running ==
    ASSUME IInv, NEW h \in Handlers, run[h].at # "idle"
    PROVE  /\ run[h] \in Run
           /\ run[h].user \in Users
           /\ pending[run[h].user] \in Plans \cup {NoPlan}
           /\ run[h].at \in Naming \cup Creating => run[h].target \in Plans
BY DEF IInv, TypeOK, RunOK, Run

LEMMA RunTypes ==
    ASSUME NEW r \in Run, NEW p \in Plans \cup {NoPlan}, NEW v \in Entries
    PROVE  /\ [r EXCEPT !.old = p, !.at = "text"] \in Run
           /\ [r EXCEPT !.target = p, !.via = v, !.at = "cf_cas"] \in Run
           /\ [r EXCEPT !.target = p, !.at = "create"] \in Run
BY DEF Run, Labels, TextLabels, ConfirmLabels, ProposeLabels

(* A confirmation by text is of a stored plan.                              *)
LEMMA Confirming ==
    ASSUME IInv, NEW h \in Handlers, TextIsConfirm(h) \/ ParseConfirm(h)
    PROVE  \E t \in Plans, v \in {"phrase", "intent"} :
               /\ plan[t] # "absent"
               /\ run' = [run EXCEPT ![h] = [run[h] EXCEPT !.target = t, !.via = v, !.at = "cf_cas"]]
<1>1. /\ run[h] \in Run /\ run[h].at # "idle"
      /\ pending[run[h].user] \in Plans \cup {NoPlan}
  BY Running DEF TextIsConfirm, ParseConfirm
<1>2. pending[run[h].user] # NoPlan => plan[pending[run[h].user]] # "absent"
  BY <1>1, Running DEF IInv, NamesOK
<1>3. run[h].old \in Plans \cup {NoPlan} /\ (run[h].old # NoPlan => plan[run[h].old] # "absent")
  BY <1>1 DEF IInv, RunOK, Run
<1>4. CASE TextIsConfirm(h)
  <2> DEFINE t == IF pending[run[h].user] # NoPlan THEN pending[run[h].user] ELSE run[h].old
  <2>1. /\ t \in Plans /\ plan[t] # "absent"
        /\ run' = [run EXCEPT ![h] = [run[h] EXCEPT !.target = t, !.via = "phrase", !.at = "cf_cas"]]
    BY <1>1, <1>2, <1>3, <1>4 DEF TextIsConfirm
  <2> QED BY <2>1
<1>5. CASE ParseConfirm(h)
  <2> DEFINE t == IF run[h].old # NoPlan THEN run[h].old ELSE pending[run[h].user]
  <2>1. /\ t \in Plans /\ plan[t] # "absent"
        /\ run' = [run EXCEPT ![h] = [run[h] EXCEPT !.target = t, !.via = "intent", !.at = "cf_cas"]]
    BY <1>1, <1>2, <1>3, <1>5 DEF ParseConfirm
  <2> QED BY <2>1
<1> QED BY <1>4, <1>5

(* Every step of a handler keeps the types.                                 *)
LEMMA StepType ==
    ASSUME IInv, NEW h \in Handlers, Step(h)
    PROVE  TypeOK'
<1> USE DEF IInv, TypeOK, ProjectStatus, PlanStatus, db, fsm
<1> USE DEF Labels, TextLabels, ProposeLabels, EditLabels, ConfirmLabels, ChatLabels, Entries
<1>1. CASE EditRead(h)
  <2>1. /\ run[h] \in Run
        /\ pending[run[h].user] \in Plans \cup {NoPlan}
    BY <1>1, Running DEF EditRead
  <2>2. run' = [run EXCEPT ![h] = [run[h] EXCEPT !.old = pending[run[h].user], !.at = "text"]]
    BY <1>1 DEF EditRead
  <2>3. [run[h] EXCEPT !.old = pending[run[h].user], !.at = "text"] \in Run
    BY <2>1, RunTypes
  <2>4. run' \in [Handlers -> Run] BY <2>2, <2>3, PutType
  <2> QED BY <1>1, <2>4 DEF EditRead
<1>2. CASE TextIsConfirm(h)
  <2>1. PICK t \in Plans, v \in {"phrase", "intent"} :
           run' = [run EXCEPT ![h] = [run[h] EXCEPT !.target = t, !.via = v, !.at = "cf_cas"]]
    BY <1>2, Confirming
  <2>2. run[h] \in Run /\ t \in Plans \cup {NoPlan} /\ v \in Entries OBVIOUS
  <2>3. run' \in [Handlers -> Run] BY <2>1, <2>2, RunTypes, PutType
  <2> QED BY <1>2, <2>3 DEF TextIsConfirm
<1>3. CASE TextIsRequest(h) BY <1>3, GoType, FinishType DEF TextIsRequest
<1>4. CASE ParseOther(h) BY <1>4, GoType, FinishType DEF ParseOther
<1>5. CASE ParseAddProject(h)
  <2>1. PICK p \in Plans :
           run' = [run EXCEPT ![h] = [run[h] EXCEPT !.target = p, !.at = "create"]]
    BY <1>5 DEF ParseAddProject, FreshIds
  <2>2. run[h] \in Run /\ p \in Plans \cup {NoPlan} OBVIOUS
  <2>3. run' \in [Handlers -> Run] BY <2>1, <2>2, RunTypes, PutType
  <2> QED BY <1>5, <2>3 DEF ParseAddProject
<1>6. CASE ParseConfirm(h)
  <2>1. PICK t \in Plans, v \in {"phrase", "intent"} :
           run' = [run EXCEPT ![h] = [run[h] EXCEPT !.target = t, !.via = v, !.at = "cf_cas"]]
    BY <1>6, Confirming
  <2>2. run[h] \in Run /\ t \in Plans \cup {NoPlan} /\ v \in Entries OBVIOUS
  <2>3. run' \in [Handlers -> Run] BY <2>1, <2>2, RunTypes, PutType
  <2> QED BY <1>6, <2>3 DEF ParseConfirm
<1>7. CASE CreateProject(h) BY <1>7, GoType, FinishType DEF CreateProject
<1>8. CASE SaveProjectTasks(h)
  <2>1. run' \in [Handlers -> Run] BY <1>8, GoType DEF SaveProjectTasks
  <2>2. run[h].target \in Plans BY <1>8, Running DEF SaveProjectTasks, Creating, Naming, Offering
  <2> QED BY <1>8, <2>1, <2>2 DEF SaveProjectTasks
<1>9. CASE SavePlanVersion(h) BY <1>9, GoType, FinishType DEF SavePlanVersion
<1>10. CASE AuditAddProject(h)
  <2>1. run' \in [Handlers -> Run] BY <1>10, GoType DEF AuditAddProject
  <2>2. run[h].target \in Plans BY <1>10, Running DEF AuditAddProject, Naming, Offering
  <2>3. added \in [Plans -> Nat] OBVIOUS
  <2>4. added' = [added EXCEPT ![run[h].target] = added[run[h].target] + 1] BY <1>10 DEF AuditAddProject
  <2>5. added' \in [Plans -> Nat] BY <2>2, <2>3, <2>4
  <2> QED BY <1>10, <2>1, <2>5 DEF AuditAddProject
<1>11. CASE Present(h)
  <2>1. run' \in [Handlers -> Run] BY <1>11, GoType DEF Present
  <2>2. run[h].target \in Plans BY <1>11, Running DEF Present, Creating, Naming, Offering
  <2> QED BY <1>11, <2>1, <2>2 DEF Present
<1>12. CASE AgentClarifies(h) BY <1>12, GoType, FinishType DEF AgentClarifies
<1>13. CASE StashPending(h) BY <1>13, GoType, FinishType DEF StashPending, RunOK, Run
<1>14. CASE RetireOld(h) BY <1>14, GoType, FinishType DEF RetireOld
<1>15. CASE CancelOldProject(h) BY <1>15, GoType, FinishType DEF CancelOldProject
<1>16. CASE RearmState(h) BY <1>16, GoType, FinishType DEF RearmState
<1>17. CASE RearmData(h) BY <1>17, GoType, FinishType DEF RearmData, RunOK, Run
<1>18. CASE ConfirmTransition(h) BY <1>18, GoType, FinishType DEF ConfirmTransition
<1>19. CASE AuditConfirm(h)
  <2>1. run' \in [Handlers -> Run] BY <1>19, GoType DEF AuditConfirm
  <2>2. run[h].target \in Plans BY <1>19, Running DEF AuditConfirm, Naming, Offering
  <2>3. confirmed \in [Plans -> Nat] OBVIOUS
  <2>4. confirmed' = [confirmed EXCEPT ![run[h].target] = confirmed[run[h].target] + 1] BY <1>19 DEF AuditConfirm
  <2>5. confirmed' \in [Plans -> Nat] BY <2>2, <2>3, <2>4
  <2> QED BY <1>19, <2>1, <2>5 DEF AuditConfirm
<1>20. CASE CommitProject(h) BY <1>20, GoType, FinishType DEF CommitProject
<1>21. CASE ReplyCommitted(h) BY <1>21, GoType, FinishType DEF ReplyCommitted, RetireKeyboard
<1>22. CASE ReplyAlreadyCommitted(h) BY <1>22, GoType, FinishType DEF ReplyAlreadyCommitted, RetireKeyboard
<1>23. CASE ClearState(h) BY <1>23, GoType, FinishType DEF ClearState
<1>24. CASE ClearData(h) BY <1>24, GoType, FinishType DEF ClearData
<1>25. CASE ArmEdit(h) BY <1>25, GoType, FinishType DEF ArmEdit
<1>26. CASE ArmEditData(h) BY <1>26, GoType, FinishType DEF ArmEditData, RunOK, Run
<1>27. CASE CaptureAnswer(h) BY <1>27, GoType, FinishType DEF CaptureAnswer
<1>28. CASE CaptureAsk(h) BY <1>28, GoType, FinishType DEF CaptureAsk
<1> QED BY <1>1, <1>2, <1>3, <1>4, <1>5, <1>6, <1>7, <1>8, <1>9, <1>10, <1>11, <1>12, <1>13, <1>14, <1>15, <1>16, <1>17, <1>18, <1>19, <1>20, <1>21, <1>22, <1>23, <1>24, <1>25, <1>26, <1>27, <1>28 DEF Step

(* A handler that starts keeps the invariant.                               *)
LEMMA ArriveInv ==
    ASSUME IInv, NEW h \in Handlers, Arrive(h)
    PROVE  IInv'
<1>1. PICK u \in Users, v \in Entries, l \in Labels, p \in Plans \cup {NoPlan} :
         /\ Begin(h, u, v, l, p)
         /\ l \in {"edit_read", "text", "cap_press"} \/ (p \in keyboards /\ l \in {"cf_cas", "ed_state"})
         /\ l \in {"edit_read", "text", "cap_press"} => p = NoPlan
  BY DEF Arrive, Message, PressConfirm, PressEdit, PressCapture, Labels, TextLabels, ProposeLabels, EditLabels, ConfirmLabels, ChatLabels, Entries
<1>2. UNCHANGED <<project, tasks, plan, added, confirmed, editing, pending, keyboards>>
  BY DEF Arrive, Message, PressConfirm, PressEdit, PressCapture, db, fsm
<1>3. TypeOK' BY <1>1, <1>2, BeginType DEF IInv, TypeOK
<1>4. RowsOK' /\ NamesOK' BY <1>2 DEF IInv, RowsOK, NamesOK
<1>5. ASSUME NEW g \in Handlers PROVE RunOK(g)'
  BY <1>1, <1>2, LifecycleAssumption
     DEF Begin, IInv, TypeOK, NamesOK, RunOK, Creating, Naming, Offering, ConfirmLabels, Won
<1>6. DisjointOK'
  BY <1>1, <1>2, LifecycleAssumption
     DEF Begin, IInv, TypeOK, NamesOK, RunOK, DisjointOK, Creating, Won
<1> QED BY <1>3, <1>4, <1>5, <1>6 DEF IInv

(* The text handlers only move a handler on, to a fresh or to a stored plan. *)
LEMMA TextInv ==
    ASSUME IInv, NEW h \in Handlers, TypeOK',
           \/ EditRead(h)
           \/ TextIsConfirm(h)
           \/ TextIsRequest(h)
           \/ ParseOther(h)
           \/ ParseAddProject(h)
           \/ ParseConfirm(h)
    PROVE  IInv'
<1> USE LifecycleAssumption DEF IInv, TypeOK, RowsOK, NamesOK, RunOK, DisjointOK, Run, db, fsm
<1> USE DEF Creating, Offering, Naming, Won, ConfirmLabels
<1>1. CASE EditRead(h)
  <2>1. run[h] \in Run /\ run[h].user \in Users BY <1>1, Running DEF EditRead
  <2>2. RowsOK' BY <1>1 DEF EditRead
  <2>3. NamesOK' BY <1>1, <2>1 DEF EditRead
  <2>4. run' = [run EXCEPT ![h] = [run[h] EXCEPT !.old = pending[run[h].user], !.at = "text"]]
    BY <1>1 DEF EditRead
  <2>5. /\ run'[h] = [run[h] EXCEPT !.old = pending[run[h].user], !.at = "text"]
        /\ run'[h].at = "text" /\ run'[h].user = run[h].user
        /\ run'[h].old = pending[run[h].user] /\ run'[h].target = run[h].target
    BY <2>1, <2>4
  <2>a. UNCHANGED <<project, tasks, plan, confirmed>> BY <1>1 DEF EditRead
  <2>6. ASSUME NEW g \in Handlers, g # h PROVE RunOK(g)' /\ run'[g] = run[g]
    <3>1. run'[g] = run[g] BY <2>4, <2>6
    <3> QED BY <2>a, <3>1
  <2>7. RunOK(h)' BY <2>1, <2>5, <2>a
  <2>8. DisjointOK'
    <3> SUFFICES ASSUME NEW i \in Handlers, NEW j \in Handlers, i # j
                 PROVE  /\ run'[i].at \in Creating => run'[j].target # run'[i].target
                        /\ run'[i].at \in Won /\ run'[j].at \in Won
                               => run'[j].target # run'[i].target
                        /\ run'[i].at = "cancel" /\ run'[j].at = "cancel"
                               => run'[j].old # run'[i].old
      BY DEF DisjointOK
    <3>1. ASSUME NEW k \in Handlers
          PROVE  /\ run'[k].target = run[k].target
                 /\ run'[k].at \in Creating \cup Won \cup {"cancel"} => run'[k] = run[k]
      BY <2>5, <2>6
    <3> QED BY <3>1
  <2> QED BY <2>2, <2>3, <2>6, <2>7, <2>8
<1>2. CASE TextIsConfirm(h)
  <2>1. PICK t \in Plans, v \in {"phrase", "intent"} :
           /\ plan[t] # "absent"
           /\ run' = [run EXCEPT ![h] = [run[h] EXCEPT !.target = t, !.via = v, !.at = "cf_cas"]]
    BY <1>2, Confirming
  <2>2. UNCHANGED <<project, tasks, plan, confirmed, keyboards, pending>> /\ run[h].at # "idle"
    BY <1>2 DEF TextIsConfirm
  <2>3. RowsOK' /\ NamesOK' BY <2>2
  <2>4. RunOK(h)' BY <2>1, <2>2
  <2>5. ASSUME NEW g \in Handlers, g # h PROVE RunOK(g)'
    <3>1. run'[g] = run[g] BY <2>1, <2>5
    <3> QED BY <3>1, <2>2
  <2>6. DisjointOK' BY <2>1, <2>2
  <2> QED BY <2>3, <2>4, <2>5, <2>6
<1>3. CASE TextIsRequest(h) BY <1>3 DEF TextIsRequest, Go, Finish, Idle
<1>4. CASE ParseOther(h) BY <1>4 DEF ParseOther, Go, Finish, Idle
<1>5. CASE ParseAddProject(h)
  <2>1. PICK p \in FreshIds : run' = [run EXCEPT ![h].target = p, ![h].at = "create"]
    BY <1>5 DEF ParseAddProject
  <2>2. p \in Plans /\ project[p] = "absent" /\ plan[p] = "absent"
    BY <2>1 DEF FreshIds
  <2>3. \A g \in Handlers : run[g].target # p BY <2>1 DEF FreshIds
  <2>4. /\ UNCHANGED <<project, tasks, plan, confirmed, keyboards, pending>>
        /\ run[h].at = "parse"
    BY <1>5 DEF ParseAddProject
  <2>5. RowsOK' /\ NamesOK' BY <2>4
  <2>6. RunOK(h)' BY <2>1, <2>2, <2>4
  <2>7. ASSUME NEW g \in Handlers, g # h PROVE RunOK(g)'
    <3>1. run'[g] = run[g] BY <2>1, <2>7
    <3> QED BY <3>1, <2>4
  <2>8. DisjointOK' BY <2>1, <2>3, <2>4
  <2> QED BY <2>5, <2>6, <2>7, <2>8
<1>6. CASE ParseConfirm(h)
  <2>1. PICK t \in Plans, v \in {"phrase", "intent"} :
           /\ plan[t] # "absent"
           /\ run' = [run EXCEPT ![h] = [run[h] EXCEPT !.target = t, !.via = v, !.at = "cf_cas"]]
    BY <1>6, Confirming
  <2>2. UNCHANGED <<project, tasks, plan, confirmed, keyboards, pending>> /\ run[h].at # "idle"
    BY <1>6 DEF ParseConfirm
  <2>3. RowsOK' /\ NamesOK' BY <2>2
  <2>4. RunOK(h)' BY <2>1, <2>2
  <2>5. ASSUME NEW g \in Handlers, g # h PROVE RunOK(g)'
    <3>1. run'[g] = run[g] BY <2>1, <2>5
    <3> QED BY <3>1, <2>2
  <2>6. DisjointOK' BY <2>1, <2>2
  <2> QED BY <2>3, <2>4, <2>5, <2>6
<1> QED BY <1>1, <1>2, <1>3, <1>4, <1>5, <1>6

(* The add-project run writes rows of its own plan, parents first.          *)
LEMMA ProposeInv ==
    ASSUME IInv, NEW h \in Handlers, TypeOK',
           \/ CreateProject(h)
           \/ SaveProjectTasks(h)
           \/ SavePlanVersion(h)
           \/ AuditAddProject(h)
           \/ Present(h)
           \/ AgentClarifies(h)
           \/ StashPending(h)
    PROVE  IInv'
<1> USE LifecycleAssumption DEF IInv, TypeOK, RowsOK, NamesOK, RunOK, DisjointOK, Run, db, fsm
<1> USE DEF Creating, Offering, Naming, Won, ConfirmLabels
<1>1. CASE CreateProject(h) BY <1>1 DEF CreateProject, Go, Finish, Idle
<1>2. CASE SaveProjectTasks(h) BY <1>2 DEF SaveProjectTasks, Go, Finish, Idle
<1>3. CASE SavePlanVersion(h) BY <1>3 DEF SavePlanVersion, Go, Finish, Idle
<1>4. CASE AuditAddProject(h) BY <1>4 DEF AuditAddProject, Go, Finish, Idle
<1>5. CASE Present(h) BY <1>5 DEF Present, Go, Finish, Idle
<1>6. CASE AgentClarifies(h) BY <1>6 DEF AgentClarifies, Go, Finish, Idle
<1>7. CASE StashPending(h)
  <2>1. run[h] \in Run /\ run[h].user \in Users BY <1>7, Running DEF StashPending
  <2>2. RowsOK' BY <1>7 DEF StashPending
  <2>3. NamesOK' BY <1>7, <2>1 DEF StashPending
  <2>4. ASSUME NEW g \in Handlers PROVE RunOK(g)' BY <1>7, <2>1 DEF StashPending, Go, Finish, Idle
  <2>5. DisjointOK' BY <1>7, <2>1 DEF StashPending, Go, Finish, Idle
  <2> QED BY <2>2, <2>3, <2>4, <2>5
<1> QED BY <1>1, <1>2, <1>3, <1>4, <1>5, <1>6, <1>7

(* The end of an edit decides the old plan by the compare-and-set.          *)
LEMMA EditInv ==
    ASSUME IInv, NEW h \in Handlers, TypeOK',
           \/ RetireOld(h)
           \/ CancelOldProject(h)
           \/ RearmState(h)
           \/ RearmData(h)
    PROVE  IInv'
<1> USE LifecycleAssumption DEF IInv, TypeOK, RowsOK, NamesOK, RunOK, DisjointOK, Run, db, fsm
<1> USE DEF Creating, Offering, Naming, Won, ConfirmLabels
<1>1. CASE RetireOld(h)
  <2>1. RowsOK' BY <1>1 DEF RetireOld
  <2>2. NamesOK' BY <1>1 DEF RetireOld
  <2>3. RunOK(h)'
    <3>1. CASE plan[run[h].old] = "proposed"
      <4>1. Go(h, "cancel") /\ plan' = [plan EXCEPT ![run[h].old] = "superseded"]
        BY <1>1, <3>1 DEF RetireOld
      <4>2. /\ run[h].at = "retire"
            /\ UNCHANGED <<project, tasks, confirmed>>
        BY <1>1 DEF RetireOld
      <4> QED BY <4>1, <4>2, <3>1, GoFields
    <3>2. CASE plan[run[h].old] # "proposed"
      <4>1. Go(h, "rearm_state") /\ UNCHANGED plan BY <1>1, <3>2 DEF RetireOld
      <4>2. /\ run[h].at = "retire"
            /\ UNCHANGED <<project, tasks, confirmed>>
        BY <1>1 DEF RetireOld
      <4> QED BY <4>1, <4>2, GoFields
    <3> QED BY <3>1, <3>2
  <2>4. ASSUME NEW g \in Handlers, g # h PROVE RunOK(g)' BY <1>1, <2>4 DEF RetireOld, Go
  <2>5. DisjointOK' BY <1>1 DEF RetireOld, Go
  <2> QED BY <2>1, <2>2, <2>3, <2>4, <2>5
<1>2. CASE CancelOldProject(h) BY <1>2 DEF CancelOldProject, Go, Finish, Idle
<1>3. CASE RearmState(h) BY <1>3 DEF RearmState, Go, Finish, Idle
<1>4. CASE RearmData(h) BY <1>4 DEF RearmData, Go, Finish, Idle
<1> QED BY <1>1, <1>2, <1>3, <1>4

(* A confirmation that wins the compare-and-set is alone in writing the rest. *)
LEMMA ConfirmInv ==
    ASSUME IInv, NEW h \in Handlers, TypeOK',
           \/ ConfirmTransition(h)
           \/ AuditConfirm(h)
           \/ CommitProject(h)
           \/ ReplyCommitted(h)
           \/ ReplyAlreadyCommitted(h)
    PROVE  IInv'
<1> USE LifecycleAssumption DEF IInv, TypeOK, RowsOK, NamesOK, RunOK, DisjointOK, Run, db, fsm
<1> USE DEF Creating, Offering, Naming, Won, ConfirmLabels
<1>1. CASE ConfirmTransition(h)
  <2>1. RowsOK' BY <1>1 DEF ConfirmTransition
  <2>2. NamesOK' BY <1>1 DEF ConfirmTransition
  <2>3. RunOK(h)'
    <3>1. CASE plan[run[h].target] = "proposed"
      <4>1. Go(h, "cf_audit") /\ plan' = [plan EXCEPT ![run[h].target] = "committed"]
        BY <1>1, <3>1 DEF ConfirmTransition
      <4>2. /\ run[h].at = "cf_cas"
            /\ UNCHANGED <<project, tasks, confirmed>>
        BY <1>1 DEF ConfirmTransition
      <4> QED BY <4>1, <4>2, <3>1, GoFields
    <3>2. CASE plan[run[h].target] # "proposed"
      <4>1. Go(h, "cf_refused") /\ UNCHANGED plan BY <1>1, <3>2 DEF ConfirmTransition
      <4>2. /\ run[h].at = "cf_cas"
            /\ UNCHANGED <<project, tasks, confirmed>>
        BY <1>1 DEF ConfirmTransition
      <4> QED BY <4>1, <4>2, GoFields
    <3> QED BY <3>1, <3>2
  <2>4. ASSUME NEW g \in Handlers, g # h PROVE RunOK(g)' BY <1>1, <2>4 DEF ConfirmTransition, Go
  <2>5. DisjointOK' BY <1>1 DEF ConfirmTransition, Go
  <2> QED BY <2>1, <2>2, <2>3, <2>4, <2>5
<1>2. CASE AuditConfirm(h) BY <1>2 DEF AuditConfirm, Go, Finish, Idle
<1>3. CASE CommitProject(h)
  <2>1. /\ run[h].at = "cf_project"
        /\ Go(h, "cf_reply")
        /\ run[h].target \in Plans
        /\ project' = [project EXCEPT ![run[h].target] = "committed"]
        /\ UNCHANGED <<tasks, plan, confirmed, keyboards, pending>>
    BY <1>3 DEF CommitProject
  <2>2. RowsOK' BY <2>1
  <2>3. NamesOK' BY <2>1
  <2>4. RunOK(h)' BY <2>1, GoFields
  <2>5. ASSUME NEW g \in Handlers, g # h PROVE RunOK(g)'
    <3>1. run'[g] = run[g] BY <2>1, <2>5, GoFields
    <3> QED BY <2>1, <2>5, <3>1
  <2>6. DisjointOK' BY <2>1, GoFields
  <2> QED BY <2>2, <2>3, <2>4, <2>5, <2>6
<1>4. CASE ReplyCommitted(h)
  <2>1. run[h] \in Run /\ run[h].user \in Users BY <1>4, Running DEF ReplyCommitted
  <2>2. RowsOK' BY <1>4 DEF ReplyCommitted
  <2>3. NamesOK' BY <1>4, <2>1 DEF ReplyCommitted, RetireKeyboard
  <2>4. ASSUME NEW g \in Handlers, g # h PROVE RunOK(g)' /\ run'[g] = run[g]
    BY <1>4, <2>1, <2>4 DEF ReplyCommitted, Go, Finish, Idle
  <2>5. RunOK(h)' /\ run'[h].at \notin Creating \cup Won \cup {"cancel"}
                  /\ run'[h].target \in {run[h].target, NoPlan}
    BY <1>4, <2>1 DEF ReplyCommitted, Go, Finish, Idle
  <2>6. DisjointOK' BY <2>1, <2>4, <2>5
  <2> QED BY <2>2, <2>3, <2>4, <2>5, <2>6
<1>5. CASE ReplyAlreadyCommitted(h)
  <2>1. run[h] \in Run /\ run[h].user \in Users BY <1>5, Running DEF ReplyAlreadyCommitted
  <2>2. RowsOK' BY <1>5 DEF ReplyAlreadyCommitted
  <2>3. NamesOK' BY <1>5, <2>1 DEF ReplyAlreadyCommitted, RetireKeyboard
  <2>4. ASSUME NEW g \in Handlers, g # h PROVE RunOK(g)' /\ run'[g] = run[g]
    BY <1>5, <2>1, <2>4 DEF ReplyAlreadyCommitted, Go, Finish, Idle
  <2>5. RunOK(h)' /\ run'[h].at \notin Creating \cup Won \cup {"cancel"}
                  /\ run'[h].target \in {run[h].target, NoPlan}
    BY <1>5, <2>1 DEF ReplyAlreadyCommitted, Go, Finish, Idle
  <2>6. DisjointOK' BY <2>1, <2>4, <2>5
  <2> QED BY <2>2, <2>3, <2>4, <2>5, <2>6
<1> QED BY <1>1, <1>2, <1>3, <1>4, <1>5

(* The FSM bookkeeping only drops names of plans or stores a held one.      *)
LEMMA ChatInv ==
    ASSUME IInv, NEW h \in Handlers, TypeOK',
           \/ ClearState(h)
           \/ ClearData(h)
           \/ ArmEdit(h)
           \/ ArmEditData(h)
           \/ CaptureAnswer(h)
           \/ CaptureAsk(h)
           \/ Abort(h)
    PROVE  IInv'
<1> USE LifecycleAssumption DEF IInv, TypeOK, RowsOK, NamesOK, RunOK, DisjointOK, Run, db, fsm
<1> USE DEF Creating, Offering, Naming, Won, ConfirmLabels
<1>1. CASE ClearState(h) BY <1>1 DEF ClearState, Go, Finish, Idle
<1>2. CASE ClearData(h) BY <1>2 DEF ClearData, Go, Finish, Idle
<1>3. CASE ArmEdit(h) BY <1>3 DEF ArmEdit, Go, Finish, Idle
<1>4. CASE ArmEditData(h) BY <1>4 DEF ArmEditData, Go, Finish, Idle
<1>5. CASE CaptureAnswer(h)
  <2>1. RowsOK' BY <1>5 DEF CaptureAnswer
  <2>2. NamesOK' BY <1>5 DEF CaptureAnswer
  <2>3. RunOK(h)' BY <1>5 DEF CaptureAnswer, Go, Finish, Idle
  <2>4. ASSUME NEW g \in Handlers, g # h PROVE RunOK(g)' BY <1>5, <2>4 DEF CaptureAnswer, Go, Finish, Idle
  <2>5. DisjointOK' BY <1>5 DEF CaptureAnswer, Go, Finish, Idle
  <2> QED BY <2>1, <2>2, <2>3, <2>4, <2>5
<1>6. CASE CaptureAsk(h) BY <1>6 DEF CaptureAsk, Go, Finish, Idle
<1>7. CASE Abort(h) BY <1>7 DEF Abort, Go, Finish, Idle
<1> QED BY <1>1, <1>2, <1>3, <1>4, <1>5, <1>6, <1>7

(* The maintenance reset supersedes what was committed, nothing else.       *)
LEMMA ResetInv ==
    ASSUME IInv, ResetAllPlans
    PROVE  IInv'
<1> USE DEF IInv, ResetAllPlans, fsm
<1>1. TypeOK' BY DEF TypeOK, PlanStatus, ProjectStatus
<1>2. RowsOK' BY DEF TypeOK, RowsOK
<1>3. NamesOK' BY DEF TypeOK, NamesOK
<1>4. ASSUME NEW g \in Handlers PROVE RunOK(g)'
  BY LifecycleAssumption DEF TypeOK, Run, RunOK, Creating, Naming, Offering, ConfirmLabels, Won
<1>5. DisjointOK' BY DEF DisjointOK
<1> QED BY <1>1, <1>2, <1>3, <1>4, <1>5

LEMMA InitInv == Init => IInv
<1> SUFFICES ASSUME Init PROVE IInv OBVIOUS
<1>1. TypeOK BY IdleType DEF Init, TypeOK, ProjectStatus, PlanStatus
<1>2. RowsOK /\ NamesOK BY DEF Init, RowsOK, NamesOK
<1>3. (\A h \in Handlers : RunOK(h)) /\ DisjointOK
  BY DEF Init, Idle, RunOK, DisjointOK, Creating, Naming, Offering, ConfirmLabels, Won
<1> QED BY <1>1, <1>2, <1>3 DEF IInv

LEMMA NextInv == IInv /\ [Next]_vars => IInv'
<1> SUFFICES ASSUME IInv, [Next]_vars PROVE IInv' OBVIOUS
<1>1. CASE UNCHANGED vars
  BY <1>1 DEF vars, IInv, TypeOK, RowsOK, NamesOK, RunOK, DisjointOK
<1>2. CASE ResetAllPlans BY <1>2, ResetInv
<1>3. ASSUME NEW h \in Handlers, Arrive(h) PROVE IInv' BY <1>3, ArriveInv
<1>4. ASSUME NEW h \in Handlers, Step(h) PROVE IInv'
  <2>1. TypeOK' BY <1>4, StepType
  <2> QED BY <1>4, <2>1, TextInv, ProposeInv, EditInv, ConfirmInv, ChatInv DEF Step
<1>5. ASSUME NEW h \in Handlers, Abort(h) PROVE IInv'
  <2>1. TypeOK' BY <1>5, FinishType DEF Abort, IInv, TypeOK, db, fsm
  <2> QED BY <1>5, <2>1, ChatInv
<1> QED BY <1>1, <1>2, <1>3, <1>4, <1>5 DEF Next

-----------------------------------------------------------------------------
(* The state of the model keeps its types, and the rows, the names in the   *)
(* chat and the running handlers agree, in every reachable state.           *)
THEOREM Inductive == Spec => []IInv
BY InitInv, NextInv, PTL DEF Spec

(* Rows, FSM contexts, keyboards and handler slots keep their types.        *)
THEOREM TypeCorrect == Spec => []TypeOK
<1>1. IInv => TypeOK BY DEF IInv
<1> QED BY <1>1, Inductive, PTL

(* A button or a stashed id never names a missing plan, and a stored plan   *)
(* has its project and its tasks, wherever the handlers were cut.           *)
THEOREM NamesAreStored == Spec => []StoredBeforeNamed
<1>1. IInv => StoredBeforeNamed BY DEF IInv, RowsOK, NamesOK, StoredBeforeNamed
<1> QED BY <1>1, Inductive, PTL

(* Any number of racing confirmations leaves at most one journal entry for  *)
(* a plan, and none for a plan that was never committed.                    *)
THEOREM ConfirmedAtMostOnce == Spec => []ConfirmedOnce
<1>1. ASSUME IInv, NEW p \in Plans
      PROVE  confirmed[p] <= 1 /\ (confirmed[p] = 1 => plan[p] \in {"committed", "superseded"})
  <2>1. plan[p] \in PlanStatus BY <1>1 DEF IInv, TypeOK
  <2>2. confirmed[p] <= 1 /\ (plan[p] \in {"absent", "proposed"} => confirmed[p] = 0)
    BY <1>1 DEF IInv, RowsOK
  <2> QED BY <2>1, <2>2 DEF PlanStatus
<1>2. IInv => ConfirmedOnce BY <1>1 DEF ConfirmedOnce
<1> QED BY <1>2, Inductive, PTL

(* Only a handler that stored a replacement supersedes a proposal: an edit  *)
(* that fails leaves the old proposal as it was.                            *)
THEOREM EditKeepsProposal == Spec => RetireNeedsReplacement
<1> DEFINE Retired(p) == plan[p] = "proposed" /\ plan'[p] = "superseded"
           ByEdit(p)  == \E h \in Handlers : /\ run[h].old = p
                                             /\ run[h].target \notin {p, NoPlan}
                                             /\ plan[run[h].target] # "absent"
<1>1. IInv /\ [Next]_vars => [\A p \in Plans : Retired(p) => ByEdit(p)]_vars
  <2> SUFFICES ASSUME IInv, [Next]_vars, NEW p \in Plans, Retired(p) PROVE ByEdit(p)
    OBVIOUS
  <2>1. plan' # plan OBVIOUS
  <2>2. ~ResetAllPlans BY DEF ResetAllPlans
  <2>3. PICK h \in Handlers : Arrive(h) \/ Step(h) \/ Abort(h) BY <2>1, <2>2 DEF Next, vars
  <2>4. ~Arrive(h) /\ ~Abort(h)
    BY <2>1 DEF Arrive, Message, PressConfirm, PressEdit, PressCapture, Abort, db
  <2>5. SavePlanVersion(h) \/ RetireOld(h) \/ ConfirmTransition(h)
    BY <2>1, <2>3, <2>4
       DEF Step, EditRead, TextIsConfirm, TextIsRequest, ParseOther, ParseAddProject, ParseConfirm,
           CreateProject, SaveProjectTasks, AuditAddProject, Present, AgentClarifies, StashPending,
           CancelOldProject, RearmState, RearmData, AuditConfirm, CommitProject, ReplyCommitted,
           ReplyAlreadyCommitted, ClearState, ClearData, ArmEdit, ArmEditData, CaptureAnswer,
           CaptureAsk, db
  <2>6. RetireOld(h) /\ run[h].old = p
    BY <2>5 DEF SavePlanVersion, RetireOld, ConfirmTransition, IInv, TypeOK
  <2> QED BY <2>6 DEF RetireOld, IInv, RunOK, Naming, Offering
<1> QED BY <1>1, Inductive, PTL DEF Spec, RetireNeedsReplacement

(* Without resets the concurrent handlers implement PlanDecision: each      *)
(* step decides one proposal once, reflects a decision on its project, or   *)
(* leaves both rows alone.                                                  *)
THEOREM DecisionImplemented == ~Resets => (Spec => DecidedOnce)
<1> SUFFICES ASSUME ~Resets PROVE Spec => DecidedOnce OBVIOUS
<1>1. Init => Decision!Init BY DEF Init, Decision!Init
<1>2. IInv /\ [Next]_vars => [Decision!Next]_<<project, plan>>
  <2> SUFFICES ASSUME IInv, [Next]_vars, ~UNCHANGED <<project, plan>> PROVE Decision!Next
    OBVIOUS
  <2>1. PICK h \in Handlers : Arrive(h) \/ Step(h) \/ Abort(h) BY DEF Next, vars, ResetAllPlans
  <2>2. ~Arrive(h) /\ ~Abort(h)
    BY DEF Arrive, Message, PressConfirm, PressEdit, PressCapture, Abort, db
  <2>3. \/ CreateProject(h) \/ SavePlanVersion(h) \/ RetireOld(h)
        \/ CancelOldProject(h) \/ ConfirmTransition(h) \/ CommitProject(h)
    BY <2>1, <2>2
       DEF Step, EditRead, TextIsConfirm, TextIsRequest, ParseOther, ParseAddProject, ParseConfirm,
           SaveProjectTasks, AuditAddProject, Present, AgentClarifies, StashPending,
           RearmState, RearmData, AuditConfirm, ReplyCommitted, ReplyAlreadyCommitted, ClearState,
           ClearData, ArmEdit, ArmEditData, CaptureAnswer, CaptureAsk, db
  <2>4. run[h].target \in Plans \cup {NoPlan} /\ run[h].old \in Plans \cup {NoPlan}
    BY DEF IInv, TypeOK, Run
  <2>5. RunOK(h) BY DEF IInv
  <2> USE <2>4, <2>5 DEF RunOK, Creating, Naming, Offering, ConfirmLabels, Won
  <2>6. CASE CreateProject(h)
    <3>1. Decision!Open(run[h].target) BY <2>6 DEF CreateProject, Decision!Open
    <3> QED BY <2>6, <3>1 DEF CreateProject, Decision!Next
  <2>7. CASE SavePlanVersion(h)
    <3>1. Decision!Propose(run[h].target) BY <2>7 DEF SavePlanVersion, Decision!Propose
    <3> QED BY <2>7, <3>1 DEF SavePlanVersion, Decision!Next
  <2>8. CASE RetireOld(h)
    <3>1. Decision!Decide(run[h].old, "superseded") BY <2>8 DEF RetireOld, Decision!Decide
    <3> QED BY <2>8, <3>1 DEF RetireOld, Decision!Next
  <2>9. CASE CancelOldProject(h)
    <3>1. Decision!Reflect(run[h].old, "superseded", "cancelled")
      BY <2>9 DEF CancelOldProject, Decision!Reflect
    <3> QED BY <2>9, <3>1 DEF CancelOldProject, Decision!Next
  <2>10. CASE ConfirmTransition(h)
    <3>1. Decision!Decide(run[h].target, "committed")
      BY <2>10 DEF ConfirmTransition, Decision!Decide
    <3> QED BY <2>10, <3>1 DEF ConfirmTransition, Decision!Next
  <2>11. CASE CommitProject(h)
    <3>1. Decision!Reflect(run[h].target, "committed", "committed")
      BY <2>11 DEF CommitProject, Decision!Reflect
    <3> QED BY <2>11, <3>1 DEF CommitProject, Decision!Next
  <2> QED BY <2>3, <2>6, <2>7, <2>8, <2>9, <2>10, <2>11
<1> QED BY <1>1, <1>2, Inductive, PTL DEF Spec, DecidedOnce, Decision!Spec

-----------------------------------------------------------------------------
(* With no handler cut.  Whoever won the compare-and-set is on his way to   *)
(* write the journal or the project, and a proposal that is stored has its  *)
(* keyboard or a handler on his way to show it.                             *)
Quits == {"cf_reply", "cf_refused"}

WinnersOK ==
    \A h \in Handlers : run[h].at = "cf_project" => confirmed[run[h].target] = 1

OfferedOK ==
    /\ \A p \in Plans : plan[p] = "proposed" =>
           \/ p \in keyboards
           \/ \E h \in Handlers : run[h].at \in {"audit_add", "present"} /\ run[h].target = p
    /\ \A h \in Handlers : run[h].at \in Quits =>
           plan[run[h].target] \in {"committed", "superseded"}

(* A step writes its own slot.                                              *)
LEMMA OwnSlot ==
    ASSUME NEW h \in Handlers, Arrive(h) \/ Step(h), run \in [Handlers -> Run]
    PROVE  \A g \in Handlers \ {h} : run'[g] = run[g]
<1>1. CASE Arrive(h)
  BY <1>1 DEF Arrive, Message, PressCapture, PressConfirm, PressEdit, Begin
<1>2. CASE EditRead(h) \/ TextIsConfirm(h) \/ ParseAddProject(h) \/ ParseConfirm(h)
  BY <1>2 DEF EditRead, TextIsConfirm, ParseAddProject, ParseConfirm
<1>3. CASE (\E l : Go(h, l)) \/ Finish(h)
  BY <1>3 DEF Go, Finish
<1>4. CASE \/ TextIsRequest(h) \/ ParseOther(h) \/ CreateProject(h) \/ SaveProjectTasks(h)
           \/ SavePlanVersion(h) \/ AuditAddProject(h) \/ Present(h) \/ AgentClarifies(h)
           \/ StashPending(h) \/ RetireOld(h) \/ CancelOldProject(h) \/ RearmState(h)
  BY <1>3, <1>4 DEF TextIsRequest, ParseOther, CreateProject, SaveProjectTasks, SavePlanVersion,
                    AuditAddProject, Present, AgentClarifies, StashPending, RetireOld,
                    CancelOldProject, RearmState
<1>5. CASE \/ RearmData(h) \/ ConfirmTransition(h) \/ AuditConfirm(h) \/ CommitProject(h)
           \/ ReplyCommitted(h) \/ ReplyAlreadyCommitted(h) \/ ClearState(h) \/ ClearData(h)
           \/ ArmEdit(h) \/ ArmEditData(h) \/ CaptureAnswer(h) \/ CaptureAsk(h)
  BY <1>3, <1>5 DEF RearmData, ConfirmTransition, AuditConfirm, CommitProject, ReplyCommitted,
                    ReplyAlreadyCommitted, ClearState, ClearData, ArmEdit, ArmEditData,
                    CaptureAnswer, CaptureAsk
<1> QED BY <1>1, <1>2, <1>4, <1>5 DEF Step

(* The steps that write no row of a plan, and where they may come from.     *)
Aside(h) ==
    /\ UNCHANGED <<plan, project, confirmed>>
    /\ run[h].at \notin {"cancel", "cf_audit", "cf_project"}
    /\ run'[h].at # "cf_project"

LEMMA Sorted ==
    ASSUME IInv, NEW h \in Handlers, Arrive(h) \/ Step(h)
    PROVE  \/ Aside(h)
           \/ CreateProject(h) \/ SavePlanVersion(h) \/ RetireOld(h) \/ CancelOldProject(h)
           \/ ConfirmTransition(h) \/ AuditConfirm(h) \/ CommitProject(h)
<1>0. run \in [Handlers -> Run] BY DEF IInv, TypeOK
<1> USE <1>0 DEF Aside, db
<1>1. CASE Arrive(h)
  BY <1>1 DEF Arrive, Message, PressCapture, PressConfirm, PressEdit, Begin, Idle
<1>2. CASE EditRead(h) \/ TextIsConfirm(h) \/ TextIsRequest(h)
  BY <1>2 DEF EditRead, TextIsConfirm, TextIsRequest, Go, Run
<1>3. CASE ParseOther(h) \/ ParseAddProject(h) \/ ParseConfirm(h)
  <2>1. /\ run[h].at = "parse" /\ UNCHANGED <<plan, project, confirmed>>
    BY <1>3 DEF ParseOther, ParseAddProject, ParseConfirm
  <2>2. CASE ParseOther(h) BY <2>1, <2>2 DEF ParseOther, Finish, Idle
  <2>3. CASE ParseAddProject(h) BY <2>1, <2>3 DEF ParseAddProject, Run
  <2>4. CASE ParseConfirm(h)
    <3>1. PICK t \in Plans, v \in {"phrase", "intent"} :
             run' = [run EXCEPT ![h] = [run[h] EXCEPT !.target = t, !.via = v, !.at = "cf_cas"]]
      BY <2>4, Confirming
    <3>2. run'[h].at = "cf_cas" BY <3>1 DEF Run
    <3> QED BY <2>1, <3>2
  <2> QED BY <1>3, <2>2, <2>3, <2>4
<1>4. CASE SaveProjectTasks(h) \/ AuditAddProject(h) \/ Present(h) \/ AgentClarifies(h)
  BY <1>4 DEF SaveProjectTasks, AuditAddProject, Present, AgentClarifies, Go, Run
<1>5. CASE StashPending(h) \/ RearmState(h) \/ RearmData(h)
  BY <1>5 DEF StashPending, RearmState, RearmData, Go, Finish, Idle, Run
<1>6. CASE ReplyCommitted(h) \/ ReplyAlreadyCommitted(h)
  BY <1>6 DEF ReplyCommitted, ReplyAlreadyCommitted, Go, Finish, Idle, Run
<1>7. CASE ClearState(h) \/ ClearData(h) \/ ArmEdit(h) \/ ArmEditData(h)
  BY <1>7 DEF ClearState, ClearData, ArmEdit, ArmEditData, Go, Finish, Idle, Run
<1>8. CASE CaptureAnswer(h) \/ CaptureAsk(h)
  BY <1>8 DEF CaptureAnswer, CaptureAsk, Go, Finish, Idle, Run
<1> QED BY <1>1, <1>2, <1>3, <1>4, <1>5, <1>6, <1>7, <1>8 DEF Step

(* The journal and the projects follow every decision.                      *)
LEMMA CompletedStep ==
    ASSUME IInv, IInv', WinnersOK, DecisionCompleted, NEW h \in Handlers, Arrive(h) \/ Step(h)
    PROVE  WinnersOK' /\ DecisionCompleted'
<1>0. run \in [Handlers -> Run] /\ plan \in [Plans -> PlanStatus]
      /\ project \in [Plans -> ProjectStatus] /\ confirmed \in [Plans -> Nat]
  BY DEF IInv, TypeOK
<1>1. \A g \in Handlers \ {h} : run'[g] = run[g] BY <1>0, OwnSlot
<1>2. run[h] \in Run /\ RunOK(h) BY <1>0 DEF IInv
<1>3. CASE Aside(h)
  BY <1>0, <1>1, <1>3 DEF Aside, WinnersOK, DecisionCompleted
<1>4. CASE CreateProject(h)
  <2>1. /\ run[h].at = "create" /\ Go(h, "save_tasks")
        /\ project' = [project EXCEPT ![run[h].target] = "planning"]
        /\ UNCHANGED <<plan, confirmed>>
    BY <1>4 DEF CreateProject
  <2>2. run'[h].at = "save_tasks" BY <1>0, <2>1, GoFields
  <2>3. plan[run[h].target] = "absent" BY <1>2, <2>1 DEF RunOK, Creating
  <2> QED BY <1>0, <1>1, <2>1, <2>2, <2>3 DEF WinnersOK, DecisionCompleted
<1>5. CASE SavePlanVersion(h)
  <2>1. /\ run[h].at = "save_plan" /\ Go(h, "audit_add")
        /\ plan' = [plan EXCEPT ![run[h].target] = "proposed"]
        /\ UNCHANGED <<project, confirmed>>
    BY <1>5 DEF SavePlanVersion
  <2>2. run'[h].at = "audit_add" BY <1>0, <2>1, GoFields
  <2> QED BY <1>0, <1>1, <2>1, <2>2 DEF WinnersOK, DecisionCompleted
<1>6. CASE RetireOld(h)
  <2>1. run[h].at = "retire" /\ UNCHANGED <<project, confirmed>> BY <1>6 DEF RetireOld
  <2>2. CASE plan[run[h].old] = "proposed"
    <3>1. Go(h, "cancel") /\ plan' = [plan EXCEPT ![run[h].old] = "superseded"]
      BY <1>6, <2>2 DEF RetireOld
    <3>2. run'[h].at = "cancel" /\ run'[h].old = run[h].old BY <1>0, <3>1, GoFields
    <3> QED BY <1>0, <1>1, <2>1, <3>1, <3>2 DEF WinnersOK, DecisionCompleted
  <2>3. CASE plan[run[h].old] # "proposed"
    <3>1. Go(h, "rearm_state") /\ UNCHANGED plan BY <1>6, <2>3 DEF RetireOld
    <3>2. run'[h].at = "rearm_state" BY <1>0, <3>1, GoFields
    <3> QED BY <1>0, <1>1, <2>1, <3>1, <3>2 DEF WinnersOK, DecisionCompleted
  <2> QED BY <2>2, <2>3
<1>7. CASE CancelOldProject(h)
  <2>1. /\ run[h].at = "cancel" /\ Go(h, "rearm_state")
        /\ project' = [project EXCEPT ![run[h].old] = "cancelled"]
        /\ UNCHANGED <<plan, confirmed>>
    BY <1>7 DEF CancelOldProject
  <2>2. run'[h].at = "rearm_state" BY <1>0, <2>1, GoFields
  <2> QED BY <1>0, <1>1, <2>1, <2>2 DEF WinnersOK, DecisionCompleted
<1>8. CASE ConfirmTransition(h)
  <2>1. run[h].at = "cf_cas" /\ UNCHANGED <<project, confirmed>> BY <1>8 DEF ConfirmTransition
  <2>2. CASE plan[run[h].target] = "proposed"
    <3>1. Go(h, "cf_audit") /\ plan' = [plan EXCEPT ![run[h].target] = "committed"]
      BY <1>8, <2>2 DEF ConfirmTransition
    <3>2. run'[h].at = "cf_audit" /\ run'[h].target = run[h].target BY <1>0, <3>1, GoFields
    <3> QED BY <1>0, <1>1, <2>1, <3>1, <3>2 DEF WinnersOK, DecisionCompleted
  <2>3. CASE plan[run[h].target] # "proposed"
    <3>1. Go(h, "cf_refused") /\ UNCHANGED plan BY <1>8, <2>3 DEF ConfirmTransition
    <3>2. run'[h].at = "cf_refused" BY <1>0, <3>1, GoFields
    <3> QED BY <1>0, <1>1, <2>1, <3>1, <3>2 DEF WinnersOK, DecisionCompleted
  <2> QED BY <2>2, <2>3
<1>9. CASE AuditConfirm(h)
  <2> DEFINE p == run[h].target
  <2>1. /\ run[h].at = "cf_audit" /\ Go(h, "cf_project")
        /\ confirmed' = [confirmed EXCEPT ![p] = confirmed[p] + 1]
        /\ UNCHANGED <<plan, project>>
    BY <1>9 DEF AuditConfirm
  <2>2. p \in Plans /\ confirmed[p] = 0
    BY <1>2, <2>1 DEF RunOK, Naming, Offering, ConfirmLabels, Run
  <2>3. confirmed' = [confirmed EXCEPT ![p] = 1] BY <1>0, <2>1, <2>2
  <2>4. run'[h].at = "cf_project" /\ run'[h].target = p BY <1>0, <2>1, GoFields
  <2>5. \A q \in Plans : confirmed'[q] = IF q = p THEN 1 ELSE confirmed[q] BY <1>0, <2>3
  <2>6. WinnersOK'
    <3>1. ASSUME NEW g \in Handlers \ {h}, run[g].at = "cf_project"
          PROVE  confirmed'[run[g].target] = 1
      <4>1. RunOK(g) /\ run[g] \in Run BY <1>0 DEF IInv
      <4>2. run[g].target \in Plans
        BY <3>1, <4>1 DEF RunOK, Naming, Offering, ConfirmLabels, Run
      <4> QED BY <3>1, <4>2, <2>5 DEF WinnersOK
    <3> QED BY <1>1, <2>2, <2>4, <2>5, <3>1 DEF WinnersOK
  <2>7. DecisionCompleted' BY <1>0, <1>1, <2>1, <2>4, <2>5 DEF DecisionCompleted
  <2> QED BY <2>6, <2>7
<1>10. CASE CommitProject(h)
  <2>1. /\ run[h].at = "cf_project" /\ Go(h, "cf_reply")
        /\ project' = [project EXCEPT ![run[h].target] = "committed"]
        /\ UNCHANGED <<plan, confirmed>>
    BY <1>10 DEF CommitProject
  <2>2. run'[h].at = "cf_reply" BY <1>0, <2>1, GoFields
  <2>3. confirmed[run[h].target] = 1 BY <2>1 DEF WinnersOK
  <2>4. ~Resets => plan[run[h].target] = "committed" BY <1>2, <2>1 DEF RunOK, Won
  <2> QED BY <1>0, <1>1, <2>1, <2>2, <2>3, <2>4 DEF WinnersOK, DecisionCompleted
<1> QED BY Sorted, <1>3, <1>4, <1>5, <1>6, <1>7, <1>8, <1>9, <1>10

(* A reset leaves the journal its entry: whom it supersedes was committed.  *)
LEMMA CompletedReset ==
    ASSUME IInv, WinnersOK, DecisionCompleted, ResetAllPlans
    PROVE  WinnersOK' /\ DecisionCompleted'
<1>1. /\ Resets /\ UNCHANGED <<confirmed, run>>
      /\ \A p \in Plans :
            /\ plan'[p] = IF plan[p] = "committed" THEN "superseded" ELSE plan[p]
            /\ project'[p] = IF plan[p] = "committed" THEN "cancelled" ELSE project[p]
  BY DEF ResetAllPlans
<1> QED BY <1>1 DEF WinnersOK, DecisionCompleted

(* With no handler cut, a commit is in the journal or its handler is about  *)
(* to write it, and the project of a superseded plan is cancelled or about  *)
(* to be: the code's only guard against a lost half is that it finishes.    *)
THEOREM DecisionsAreCompleted == ~Aborts => (Spec => []DecisionCompleted)
<1> SUFFICES ASSUME ~Aborts PROVE Spec => []DecisionCompleted OBVIOUS
<1>1. Init => WinnersOK /\ DecisionCompleted
  BY DEF Init, Idle, WinnersOK, DecisionCompleted
<1>2. ASSUME IInv, IInv', WinnersOK, DecisionCompleted, [Next]_vars
      PROVE  WinnersOK' /\ DecisionCompleted'
  <2>1. CASE UNCHANGED vars BY <1>2, <2>1 DEF vars, WinnersOK, DecisionCompleted
  <2>2. CASE ResetAllPlans BY <1>2, <2>2, CompletedReset
  <2>3. CASE \E h \in Handlers : Arrive(h) \/ Step(h) \/ Abort(h)
    BY <1>2, <2>3, CompletedStep DEF Abort
  <2> QED BY <1>2, <2>1, <2>2, <2>3 DEF Next
<1> QED BY <1>1, <1>2, Inductive, PTL DEF Spec

(* The steps that neither offer a proposal nor take a keyboard away.        *)
Quiet(h) ==
    /\ UNCHANGED <<plan, keyboards>>
    /\ run[h].at \notin {"audit_add", "present"}
    /\ run'[h].at \notin Quits

LEMMA SortedByOffer ==
    ASSUME ~AgentWired, IInv, NEW h \in Handlers, Arrive(h) \/ Step(h)
    PROVE  \/ Quiet(h)
           \/ SavePlanVersion(h) \/ AuditAddProject(h) \/ Present(h)
           \/ RetireOld(h) \/ ConfirmTransition(h) \/ CommitProject(h)
           \/ ReplyCommitted(h) \/ ReplyAlreadyCommitted(h)
<1>0. run \in [Handlers -> Run] BY DEF IInv, TypeOK
<1> USE <1>0 DEF Quiet, Quits, db
<1>1. CASE Arrive(h)
  BY <1>1 DEF Arrive, Message, PressCapture, PressConfirm, PressEdit, Begin, Idle
<1>2. CASE EditRead(h) \/ TextIsRequest(h)
  BY <1>2 DEF EditRead, TextIsRequest, Go, Run
<1>3. CASE TextIsConfirm(h) \/ ParseConfirm(h)
  <2>1. PICK t \in Plans, v \in {"phrase", "intent"} :
           run' = [run EXCEPT ![h] = [run[h] EXCEPT !.target = t, !.via = v, !.at = "cf_cas"]]
    BY <1>3, Confirming
  <2>2. run'[h].at = "cf_cas" BY <2>1 DEF Run
  <2> QED BY <1>3, <2>2 DEF TextIsConfirm, ParseConfirm
<1>4. CASE ParseOther(h) BY <1>4 DEF ParseOther, Finish, Idle
<1>5. CASE ParseAddProject(h) BY <1>5 DEF ParseAddProject, Run
<1>6. CASE CreateProject(h) \/ SaveProjectTasks(h)
  BY <1>6 DEF CreateProject, SaveProjectTasks, Go, Run
<1>7. CASE StashPending(h) BY <1>7 DEF StashPending, Go, Finish, Idle, Run
<1>8. CASE CancelOldProject(h) \/ RearmState(h) \/ RearmData(h)
  BY <1>8 DEF CancelOldProject, RearmState, RearmData, Go, Finish, Idle, Run
<1>9. CASE AuditConfirm(h) BY <1>9 DEF AuditConfirm, Go, Run
<1>10. CASE ClearState(h) \/ ClearData(h) \/ ArmEdit(h) \/ ArmEditData(h)
  BY <1>10 DEF ClearState, ClearData, ArmEdit, ArmEditData, Go, Finish, Idle, Run
<1>11. CASE CaptureAnswer(h) \/ CaptureAsk(h)
  BY <1>11 DEF CaptureAnswer, CaptureAsk, Go, Finish, Idle, Run
<1> QED BY <1>1, <1>2, <1>3, <1>4, <1>5, <1>6, <1>7, <1>8, <1>9, <1>10, <1>11
           DEF Step, AgentClarifies

(* A keyboard is taken away only with its decision, and what is decided     *)
(* stays so.                                                                *)
LEMMA OfferedStep ==
    ASSUME ~AgentWired, IInv, OfferedOK, NEW h \in Handlers, Arrive(h) \/ Step(h)
    PROVE  OfferedOK'
<1> DEFINE Settled(s) == s \in {"committed", "superseded"}
<1>0. run \in [Handlers -> Run] /\ plan \in [Plans -> PlanStatus] /\ NoPlan \notin Plans
  BY LifecycleAssumption DEF IInv, TypeOK
<1>1. \A g \in Handlers \ {h} : run'[g] = run[g] BY <1>0, OwnSlot
<1>2. run[h] \in Run /\ RunOK(h) BY <1>0 DEF IInv
<1>3. \A g \in Handlers : run[g].at \in Quits => run[g].target \in Plans
  BY <1>0 DEF Quits, IInv, RunOK, Naming, ConfirmLabels, Run
<1> USE <1>0, <1>1, <1>2, <1>3 DEF OfferedOK
<1>4. CASE Quiet(h) BY <1>4 DEF Quiet
<1>5. CASE SavePlanVersion(h)
  <2>1. /\ run[h].at = "save_plan" /\ Go(h, "audit_add") /\ UNCHANGED keyboards
        /\ plan' = [plan EXCEPT ![run[h].target] = "proposed"]
    BY <1>5 DEF SavePlanVersion
  <2>2. run'[h].at = "audit_add" /\ run'[h].target = run[h].target BY <2>1, GoFields
  <2>3. plan[run[h].target] = "absent" BY <2>1 DEF RunOK, Creating
  <2>4. \A q \in Plans : Settled(plan[q]) => Settled(plan'[q]) BY <2>1, <2>3
  <2> QED BY <2>1, <2>2, <2>4 DEF Quits
<1>6. CASE AuditAddProject(h)
  <2>1. run[h].at = "audit_add" /\ Go(h, "present") /\ UNCHANGED <<plan, keyboards>>
    BY <1>6 DEF AuditAddProject
  <2>2. run'[h].at = "present" /\ run'[h].target = run[h].target BY <2>1, GoFields
  <2> QED BY <2>1, <2>2 DEF Quits
<1>7. CASE Present(h)
  <2>1. /\ run[h].at = "present" /\ Go(h, "stash") /\ UNCHANGED plan
        /\ keyboards' = keyboards \cup {run[h].target}
    BY <1>7 DEF Present, db
  <2>2. run'[h].at = "stash" BY <2>1, GoFields
  <2> QED BY <2>1, <2>2 DEF Quits
<1>8. CASE RetireOld(h)
  <2>1. run[h].at = "retire" /\ UNCHANGED keyboards BY <1>8 DEF RetireOld
  <2>2. PICK l \in {"cancel", "rearm_state"} : Go(h, l) BY <1>8 DEF RetireOld
  <2>3. run'[h].at = l BY <2>2, GoFields
  <2>4. \A q \in Plans : \/ plan'[q] = plan[q]
                         \/ plan[q] = "proposed" /\ plan'[q] = "superseded"
    BY <1>8 DEF RetireOld
  <2> QED BY <2>1, <2>3, <2>4 DEF Quits
<1>9. CASE ConfirmTransition(h)
  <2>1. run[h].at = "cf_cas" /\ UNCHANGED keyboards BY <1>9 DEF ConfirmTransition
  <2>2. run[h].target \in Plans /\ plan[run[h].target] # "absent"
    BY <2>1 DEF RunOK, Naming, ConfirmLabels, Run
  <2>3. CASE plan[run[h].target] = "proposed"
    <3>1. Go(h, "cf_audit") /\ plan' = [plan EXCEPT ![run[h].target] = "committed"]
      BY <1>9, <2>3 DEF ConfirmTransition
    <3>2. run'[h].at = "cf_audit" BY <3>1, GoFields
    <3>3. \A q \in Plans : Settled(plan[q]) => Settled(plan'[q]) BY <3>1
    <3> QED BY <2>1, <3>1, <3>2, <3>3 DEF Quits
  <2>4. CASE plan[run[h].target] # "proposed"
    <3>1. Go(h, "cf_refused") /\ UNCHANGED plan BY <1>9, <2>4 DEF ConfirmTransition
    <3>2. run'[h].at = "cf_refused" /\ run'[h].target = run[h].target BY <3>1, GoFields
    <3>3. Settled(plan[run[h].target]) BY <2>2, <2>4 DEF PlanStatus
    <3> QED BY <2>1, <3>1, <3>2, <3>3
  <2> QED BY <2>3, <2>4
<1>10. CASE CommitProject(h)
  <2>1. run[h].at = "cf_project" /\ Go(h, "cf_reply") /\ UNCHANGED <<plan, keyboards>>
    BY <1>10 DEF CommitProject
  <2>2. run'[h].at = "cf_reply" /\ run'[h].target = run[h].target BY <2>1, GoFields
  <2>3. Settled(plan[run[h].target]) BY <2>1 DEF RunOK, Won
  <2> QED BY <2>1, <2>2, <2>3
<1>11. CASE ReplyCommitted(h) \/ ReplyAlreadyCommitted(h)
  <2>1. /\ run[h].at \in Quits /\ UNCHANGED plan
        /\ \A q \in keyboards \ keyboards' : q = run[h].target
    BY <1>11 DEF ReplyCommitted, ReplyAlreadyCommitted, RetireKeyboard, Quits, db
  <2>2. run'[h].at \in {"idle", "clear_state"}
    <3>1. CASE Finish(h) BY <3>1 DEF Finish, Idle
    <3>2. CASE Go(h, "clear_state") BY <3>2, GoFields
    <3> QED BY <1>11, <3>1, <3>2 DEF ReplyCommitted, ReplyAlreadyCommitted
  <2>3. Settled(plan[run[h].target]) BY <2>1
  <2> QED BY <2>1, <2>2, <2>3 DEF Quits
<1> QED BY SortedByOffer, <1>4, <1>5, <1>6, <1>7, <1>8, <1>9, <1>10, <1>11

(* With no handler cut and without the agent's early return, every proposal *)
(* on offer keeps a keyboard once the handlers have ended.                  *)
THEOREM ProposalsStayReachable == ~Aborts /\ ~AgentWired => (Spec => []ProposalReachable)
<1> SUFFICES ASSUME ~Aborts, ~AgentWired PROVE Spec => []ProposalReachable OBVIOUS
<1>1. Init => OfferedOK BY DEF Init, Idle, OfferedOK, Quits
<1>2. ASSUME IInv, OfferedOK, [Next]_vars PROVE OfferedOK'
  <2>1. CASE UNCHANGED vars BY <1>2, <2>1 DEF vars, OfferedOK
  <2>2. CASE ResetAllPlans
    <3>1. /\ UNCHANGED <<keyboards, run>>
          /\ \A p \in Plans : plan'[p] = IF plan[p] = "committed" THEN "superseded" ELSE plan[p]
      BY <2>2 DEF ResetAllPlans, fsm
    <3>2. \A h \in Handlers : run[h].at \in Quits => run[h].target \in Plans
      BY <1>2 DEF Quits, IInv, TypeOK, RunOK, Naming, ConfirmLabels, Run
    <3> QED BY <1>2, <3>1, <3>2 DEF OfferedOK
  <2>3. CASE \E h \in Handlers : Arrive(h) \/ Step(h) \/ Abort(h)
    BY <1>2, <2>3, OfferedStep DEF Abort
  <2> QED BY <1>2, <2>1, <2>2, <2>3 DEF Next
<1>3. OfferedOK => ProposalReachable BY DEF OfferedOK, ProposalReachable, Idle
<1> QED BY <1>1, <1>2, <1>3, Inductive, PTL DEF Spec
=============================================================================
