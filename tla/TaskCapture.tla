----------------------------- MODULE TaskCapture -----------------------------
(***************************************************************************)
(* Writing a captured task: the project is looked up by its title and made  *)
(* when there is none, a task of the same name that is not done refuses the *)
(* capture, and the task, each assignment and the audit row are transactions*)
(* of their own.  Several handlers capture at the same time.                *)
(***************************************************************************)
EXTENDS Naturals, Sequences, FiniteSets, SequencesExt

CONSTANTS Handlers,
          Known,     (* the names that resolve to a person                   *)
          Seeded,    (* the titles of the projects there are at the start    *)
          Inbox,     (* the title of the project of captures that name none  *)
          None

VARIABLES projects,  (* in order of creation: [title, stub, since]           *)
          tasks,     (* in order of creation: [name, project, deadline, ...] *)
          capture    (* handler -> its CaptureTaskUseCase.execute            *)

store == <<projects, tasks, capture>>

(* since, cut, moved, asked, place and parsed are not in the database: how   *)
(* many rows there were when the capture began, whether it ended before its  *)
(* last write, was the task given to somebody else since, who and what       *)
(* project was named, and was it read from a text by the parser.             *)
NoCapture == [at |-> "none"]

StoreInit ==
    /\ projects = [i \in DOMAIN Seeded |-> [title |-> Seeded[i], stub |-> FALSE, since |-> 0]]
    /\ tasks = <<>>
    /\ capture = [h \in Handlers |-> NoCapture]

Indices(seq, Test(_)) == {i \in DOMAIN seq : Test(seq[i])}

Execute(h, want, parsed) ==
    /\ capture[h] = NoCapture
    /\ capture' = [capture EXCEPT ![h] =
           [at |-> "lookup", want |-> want, parsed |-> parsed, project |-> 0, task |-> 0,
            todo |-> want.people, named |-> {},
            projectsThen |-> Len(projects), tasksThen |-> Len(tasks)]]
    /\ UNCHANGED <<projects, tasks>>

Target(want) == IF want.project = None THEN Inbox ELSE want.project

(* No column of projects is unique but the key, and no order is asked for:   *)
(* of several projects with the title, any.                                  *)
GetProjectByTitle(h) ==
    /\ capture[h].at = "lookup"
    /\ LET title == Target(capture[h].want)
           found == Indices(projects, LAMBDA pr : pr.title = title)
       IN  \/ /\ found = {}
              /\ capture' = [capture EXCEPT ![h].at = "create"]
           \/ \E i \in found :
                  capture' = [capture EXCEPT ![h].at = "check", ![h].project = i]
    /\ UNCHANGED <<projects, tasks>>

(* Mutant: the new project is not the one the task is put into. *)
CreateProjectLost(h) ==
    /\ capture[h].at = "create"
    /\ projects' = Append(projects, [title |-> Target(capture[h].want), stub |-> TRUE,
                                     since |-> capture[h].projectsThen])
    /\ capture' = [capture EXCEPT ![h].at = "check"]
    /\ UNCHANGED tasks

CreateProject(h) ==
    /\ capture[h].at = "create"
    /\ projects' = Append(projects, [title |-> Target(capture[h].want), stub |-> TRUE,
                                     since |-> capture[h].projectsThen])
    /\ capture' = [capture EXCEPT ![h].at = "check", ![h].project = Len(projects')]
    /\ UNCHANGED tasks

Duplicates(h) ==
    Indices(tasks, LAMBDA t : /\ t.project = capture[h].project
                              /\ t.name = capture[h].want.title
                              /\ ~t.done)

(* Mutant: the duplicates are looked for and not heeded. *)
FindDuplicateIgnored(h) ==
    /\ capture[h].at = "check"
    /\ capture' = [capture EXCEPT ![h].at = "write"]
    /\ UNCHANGED <<projects, tasks>>

FindDuplicate(h) ==
    /\ capture[h].at = "check"
    /\ capture' = [capture EXCEPT ![h].at =
                       IF Duplicates(h) = {} THEN "write" ELSE "duplicate"]
    /\ UNCHANGED <<projects, tasks>>

CreateTask(h) ==
    /\ capture[h].at = "write"
    /\ tasks' = Append(tasks, [name     |-> capture[h].want.title,
                               project  |-> capture[h].project,
                               deadline |-> capture[h].want.deadline,
                               people   |-> {},
                               done     |-> FALSE,
                               audited  |-> FALSE,
                               since    |-> capture[h].tasksThen,
                               asked    |-> capture[h].want.people,
                               place    |-> capture[h].want.project,
                               parsed   |-> capture[h].parsed,
                               cut      |-> FALSE,
                               moved    |-> FALSE])
    /\ capture' = [capture EXCEPT ![h].at = "assign", ![h].task = Len(tasks')]
    /\ UNCHANGED projects

(* Mutant: a name that resolves to nobody ends the list. *)
AssignNextStops(h) ==
    /\ capture[h].at = "assign"
    /\ capture[h].todo # <<>>
    /\ LET who == {Head(capture[h].todo)} \cap Known
       IN  /\ tasks' = [tasks EXCEPT ![capture[h].task].people = @ \cup who]
           /\ capture' = [capture EXCEPT ![h].named = @ \cup who,
                              ![h].todo = IF who = {} THEN <<>> ELSE Tail(@)]
    /\ UNCHANGED projects

(* A name that resolves to nobody is passed over. *)
AssignNext(h) ==
    /\ capture[h].at = "assign"
    /\ capture[h].todo # <<>>
    /\ LET who == {Head(capture[h].todo)} \cap Known
       IN  /\ tasks' = [tasks EXCEPT ![capture[h].task].people = @ \cup who]
           /\ capture' = [capture EXCEPT ![h].todo = Tail(@), ![h].named = @ \cup who]
    /\ UNCHANGED projects

AddAudit(h) ==
    /\ capture[h].at = "assign"
    /\ capture[h].todo = <<>>
    /\ tasks' = [tasks EXCEPT ![capture[h].task].audited = TRUE]
    /\ capture' = [capture EXCEPT ![h].at = "captured"]
    /\ UNCHANGED projects

Running(h) == capture[h].at \in {"lookup", "create", "check", "write", "assign"}

CutBy(hs) ==
    LET torn == {capture[h].task : h \in {g \in hs : capture[g].at = "assign"}}
    IN  [i \in DOMAIN tasks |-> [tasks[i] EXCEPT !.cut = @ \/ i \in torn]]

(* The database refuses a statement. *)
Refused(h) ==
    /\ Running(h)
    /\ tasks' = CutBy({h})
    /\ capture' = [capture EXCEPT ![h].at = "failed"]
    /\ UNCHANGED projects

CaptureStep(h) ==
    \/ GetProjectByTitle(h) \/ CreateProject(h)
    \/ FindDuplicate(h) \/ CreateTask(h) \/ AssignNext(h) \/ AddAudit(h)

(* What a handler does when its capture has come to the outcome. *)
Leave(h, outcome) ==
    /\ capture[h].at = outcome
    /\ capture' = [capture EXCEPT ![h] = NoCapture]
    /\ UNCHANGED <<projects, tasks>>

(* Every row of list_tasks_with_meta whose task has the name: one for each   *)
(* person who has the task, one for a task that nobody has.                  *)
RowsNamed(name) ==
    UNION {IF tasks[i].people = {} THEN {<<i, None>>} ELSE {i} \X tasks[i].people :
               i \in Indices(tasks, LAMBDA t : t.name = name)}

-----------------------------------------------------------------------------
(* Two tasks of one name that are not done, in one project, are only written *)
(* by captures of which the second began before the first had written, and   *)
(* so with two projects of one title that captures made.                     *)
NoTwins ==
    /\ \A i, j \in DOMAIN tasks :
           /\ i < j
           /\ tasks[i].name = tasks[j].name
           /\ tasks[i].project = tasks[j].project
           /\ ~tasks[i].done
           => i > tasks[j].since
    /\ \A i, j \in DOMAIN projects :
           i < j /\ projects[i].title = projects[j].title /\ projects[j].stub
           => i > projects[j].since

(* A captured task is either still being written or was cut, or it is whole: *)
(* audited, and with everybody who was named and is known, unless somebody   *)
(* gave it to another since.                                                 *)
WholeUnlessCut ==
    \A i \in DOMAIN tasks :
        \/ tasks[i].cut
        \/ \E h \in Handlers : capture[h].at = "assign" /\ capture[h].task = i
        \/ /\ tasks[i].audited
           /\ tasks[i].moved \/ ToSet(tasks[i].asked) \cap Known \subseteq tasks[i].people
=============================================================================
