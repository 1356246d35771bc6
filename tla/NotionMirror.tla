---------------------------- MODULE NotionMirror ----------------------------
(***************************************************************************)
(* The Notion mirror: rows of the task board for captured and committed     *)
(* tasks, a master card for each project, and the ticks on its checklist.   *)
(* The two sinks are shared by all handlers; every request may be refused,  *)
(* lost, carried out with its answer lost, or answered with an error though *)
(* it was carried out, and the board's columns are edited by people.  What  *)
(* a sink keeps, it writes when the answer to its question has come back,   *)
(* and the handlers run on in between.                                      *)
(***************************************************************************)
EXTENDS Naturals, Sequences, FiniteSets

CONSTANTS Handlers,
          Projects,
          Tasks,
          ProjectOf,  (* task -> its project                                 *)
          NameOf,     (* task -> its name                                    *)
          TitleOf,    (* project -> its title: several may have one          *)
          PlanOf,     (* project -> the tasks of its plan, in order          *)
          ColumnsOf,  (* task -> the columns its row would fill              *)
          New,        (* task -> those of them whose value is no option yet  *)
          Bare,       (* the columns that the last attempt keeps             *)
          Moods,      (* the column sets that a board may refuse             *)
          ParentIs,   (* what the configured parent really is                *)
          Troubles,   (* bound on the faults and the edits of the board      *)
          None

(* The solver keeps one assignment for each task of a plan, so a plan has    *)
(* no task twice.                                                            *)
ASSUME MirrorAssumption ==
    /\ ProjectOf \in [Tasks -> Projects]
    /\ PlanOf \in [Projects -> Seq(Tasks)]
    /\ \A p \in Projects : \A i, j \in DOMAIN PlanOf[p] : PlanOf[p][i] = PlanOf[p][j] => i = j
    /\ ParentIs \in {"page", "database"}
    /\ None \notin Tasks \cup Projects \cup Nat

VARIABLES
    made,     (* the projects that are stored                                *)
    wanted,   (* the tasks that were committed or captured                   *)
    done,     (* the tasks whose status is done                              *)
    page,     (* project -> projects.notion_page_id: a card or None          *)
    rows,     (* Notion: the rows of the board, in order                     *)
    cards,    (* Notion: the cards, [project, ticked], in order              *)
    columns,  (* Notion: how many times the board's columns were edited      *)
    mood,     (* Notion: the columns for which the board refuses any value,  *)
              (* or any new one                                              *)
    schema,   (* NotionTaskSink._schema: which edit it shows, or None        *)
    late,     (* how often it was kept when the board had been edited since  *)
    parent,   (* NotionProjectSink._is_database: "database", "page" or None  *)
    run,      (* handler -> what it does                                     *)
    faults    (* how many faults there were                                  *)

db == <<made, wanted, done, page>>
notion == <<rows, cards, columns, mood>>
vars == <<db, notion, schema, late, parent, run, faults>>

Idle == [at |-> "idle"]

Init ==
    /\ made = {}
    /\ wanted = {}
    /\ done = {}
    /\ page = [p \in Projects |-> None]
    /\ rows = <<>>
    /\ cards = <<>>
    /\ columns = 0
    /\ mood \in Moods
    /\ schema = None
    /\ late = 0
    /\ parent = None
    /\ run = [h \in Handlers |-> Idle]
    /\ faults = 0

Fault ==
    /\ faults + columns < Troubles
    /\ faults' = faults + 1

Elements(seq) == {seq[i] : i \in DOMAIN seq}

Ends(h) == run' = [run EXCEPT ![h] = Idle]

-----------------------------------------------------------------------------
(* Pushing tasks to the board *)

(* The strict attempt leaves out values that would be new options, the last  *)
(* one keeps title and date; an attempt that equals the one before is        *)
(* skipped.  The strict one is built from the schema there is at the time.   *)
Strict(t) == ColumnsOf[t] \ New[t]
Safe(t) == ColumnsOf[t] \cap Bare

Attempt(edition, filled) == [edition |-> edition, filled |-> filled]

(* Mutant: the last attempt is not made. *)
LadderShort(t, begun, now) ==
    SelectSeq(<<Attempt(now, Strict(t))>>, LAMBDA a : a # Attempt(begun, ColumnsOf[t]))

Ladder(t, begun, now) ==
    LET full   == Attempt(begun, ColumnsOf[t])
        strict == Attempt(now, Strict(t))
        safe   == Attempt(begun, Safe(t))
    IN  (IF strict = full THEN <<>> ELSE <<strict>>)
            \o (IF safe = strict THEN <<>> ELSE <<safe>>)

(* A row is refused for a column of another edition of the board, for one    *)
(* that the board refuses, and for a new option in one that takes no more.   *)
Accepts(t, attempt) ==
    /\ attempt.edition = columns
    /\ attempt.filled \cap mood.never = {}
    /\ attempt.filled \cap New[t] \cap mood.noNew = {}

Pushing(kind, todo) ==
    [at |-> "next", kind |-> kind, todo |-> todo, total |-> Len(todo), ok |-> 0,
     edition |-> None, rest |-> <<>>, first |-> TRUE, alone |-> TRUE, clean |-> TRUE,
     failed |-> {}]

(* A confirmed plan, once the commit has won. *)
CommitPlan(h, p) ==
    /\ run[h] = Idle
    /\ p \in made
    /\ PlanOf[p] # <<>>
    /\ Elements(PlanOf[p]) \cap wanted = {}
    /\ wanted' = wanted \cup Elements(PlanOf[p])
    /\ run' = [run EXCEPT ![h] = [Pushing("commit", PlanOf[p]) EXCEPT !.at = "names",
                                                                   !.total = 0]]
    /\ UNCHANGED <<made, done, page, notion, schema, late, parent, faults>>

(* The names are read; if they cannot be, nothing is counted.                *)
ReadNames(h) ==
    /\ run[h].at = "names"
    /\ \/ /\ run' = [run EXCEPT ![h].at = "next", ![h].total = Len(run[h].todo)]
          /\ UNCHANGED faults
       \/ /\ Fault
          /\ run' = [run EXCEPT ![h].at = "pushed"]
    /\ UNCHANGED <<db, notion, schema, late, parent>>

(* A captured task, in a project that is there or is made for it. *)
CaptureTask(h, t) ==
    /\ run[h] = Idle
    /\ t \notin wanted
    /\ \A p \in Projects : t \notin Elements(PlanOf[p])
    /\ wanted' = wanted \cup {t}
    /\ made' = made \cup {ProjectOf[t]}
    /\ run' = [run EXCEPT ![h] = Pushing("capture", <<t>>)]
    /\ UNCHANGED <<done, page, notion, schema, late, parent, faults>>

Pushed(h) == Head(run[h].todo)

(* A known schema is used at once, an unknown one asked for. *)
PushTask(h) ==
    /\ run[h].at = "next"
    /\ run[h].todo # <<>>
    /\ run' = [run EXCEPT ![h].at = IF schema = None THEN "fetch" ELSE "post",
                          ![h].edition = schema,
                          ![h].rest = <<Attempt(schema, ColumnsOf[Pushed(h)])>>]
    /\ UNCHANGED <<db, notion, schema, late, parent, faults>>

(* The push has its outcome, and the next task its turn.  A failure forgets  *)
(* the schema, which the pushes of other handlers are using.                 *)
Turn(r, ok, failed) ==
    [Pushing(r.kind, Tail(r.todo)) EXCEPT !.total = r.total, !.ok = ok, !.failed = failed]

Succeeds(h) ==
    /\ run' = [run EXCEPT ![h] = Turn(@, @.ok + 1, @.failed)]
    /\ UNCHANGED schema

FailedPush(h) == [task  |-> Pushed(h),
                  alone |-> run[h].alone,
                  stale |-> run[h].edition # None /\ run[h].edition # columns,
                  edition |-> run[h].edition,
                  late    |-> late]

(* Mutant: a failure keeps the schema. *)
FailsKeeping(h) ==
    /\ run' = [run EXCEPT ![h] = Turn(@, @.ok, @.failed \cup {FailedPush(h)})]
    /\ UNCHANGED schema

Fails(h) ==
    /\ run' = [g \in Handlers |->
           IF g = h THEN Turn(run[h], run[h].ok, run[h].failed \cup {FailedPush(h)})
           ELSE IF run[g].at \in {"post", "rejected"} THEN [run[g] EXCEPT !.alone = FALSE]
           ELSE run[g]]
    /\ schema' = None

(* Notion answers which columns the board has, or with an error, or not.     *)
AskSchema(h) ==
    /\ run[h].at = "fetch"
    /\ \/ /\ run' = [run EXCEPT ![h].at = "answered", ![h].edition = columns]
          /\ UNCHANGED <<schema, faults>>
       \/ Fault /\ Fails(h)
    /\ UNCHANGED <<db, notion, late, parent>>

(* The answer is kept and used, whatever was kept or forgotten meanwhile.    *)
KeepSchema(h) ==
    LET edition == run[h].edition
    IN  /\ run[h].at = "answered"
        /\ schema' = edition
        /\ late' = IF edition = columns THEN late ELSE late + 1
        /\ run' = [run EXCEPT ![h].at = "post",
                              ![h].rest = <<Attempt(edition, ColumnsOf[Pushed(h)])>>]
        /\ UNCHANGED <<db, notion, parent, faults>>

AddRow(h, error) ==
    rows' = Append(rows, [task   |-> Pushed(h),
                          filled |-> Head(run[h].rest).filled,
                          clean  |-> run[h].clean,
                          error  |-> error])

Rejected(h, clean) ==
    run' = [run EXCEPT ![h].at = "rejected", ![h].rest = Tail(@), ![h].clean = clean]

PostRow(h) ==
    /\ run[h].at = "post"
    /\ IF Accepts(Pushed(h), Head(run[h].rest))
       THEN AddRow(h, FALSE) /\ Succeeds(h)
       ELSE Rejected(h, run[h].clean) /\ UNCHANGED <<rows, schema>>
    /\ UNCHANGED <<db, cards, columns, mood, late, parent, faults>>

(* Any other error is treated as a refusal too: too many requests, a gateway *)
(* that gave up, when the row may be there or not.                           *)
PostError(h) ==
    /\ run[h].at = "post"
    /\ Fault
    /\ \/ UNCHANGED rows
       \/ Accepts(Pushed(h), Head(run[h].rest)) /\ AddRow(h, TRUE)
    /\ Rejected(h, FALSE)
    /\ UNCHANGED <<db, cards, columns, mood, schema, late, parent>>

(* Mutant: no answer counts as a row. *)
PostLostCounted(h) ==
    /\ run[h].at = "post"
    /\ Fault
    /\ \/ UNCHANGED rows
       \/ Accepts(Pushed(h), Head(run[h].rest)) /\ AddRow(h, FALSE)
    /\ Succeeds(h)
    /\ UNCHANGED <<db, cards, columns, mood, late, parent>>

(* No answer within the timeout: the row may be there or not. *)
PostLost(h) ==
    /\ run[h].at = "post"
    /\ Fault
    /\ \/ UNCHANGED rows
       \/ Accepts(Pushed(h), Head(run[h].rest)) /\ AddRow(h, FALSE)
    /\ Fails(h)
    /\ UNCHANGED <<db, cards, columns, mood, late, parent>>

SameSchema(h) == run[h].clean /\ (run[h].first => schema = run[h].edition)

(* The attempts that are left are built after the first refusal, the strict  *)
(* one from the schema there is then: if it was forgotten meanwhile, that    *)
(* fails, and if another was kept, it may not be the board's.                *)
Retry(h) ==
    /\ run[h].at = "rejected"
    /\ LET rest == IF run[h].first THEN Ladder(Pushed(h), run[h].edition, schema)
                                ELSE run[h].rest
       IN  IF (run[h].first /\ schema = None) \/ rest = <<>>
           THEN Fails(h)
           ELSE /\ run' = [run EXCEPT ![h].at = "post", ![h].rest = rest,
                                      ![h].first = FALSE, ![h].clean = SameSchema(h)]
                /\ UNCHANGED schema
    /\ UNCHANGED <<db, notion, late, parent, faults>>

(* Mutant: it is over when everything went well. *)
PushedAllWell(h) ==
    /\ run[h].at = "next"
    /\ run[h].todo = <<>>
    /\ run[h].ok = run[h].total
    /\ run' = [run EXCEPT ![h].at = "pushed"]
    /\ UNCHANGED <<db, notion, schema, late, parent, faults>>

(* All tasks were tried: the user is told how many of how many failed. *)
PushedAll(h) ==
    /\ run[h].at = "next"
    /\ run[h].todo = <<>>
    /\ run' = [run EXCEPT ![h].at = "pushed"]
    /\ UNCHANGED <<db, notion, schema, late, parent, faults>>

(* A sink that raises breaks off the pushing: the rest is never tried.       *)
BreakOff(h) ==
    /\ run[h].at = "next"
    /\ run[h].todo # <<>>
    /\ Fault
    /\ run' = [run EXCEPT ![h].at = "pushed"]
    /\ UNCHANGED <<db, notion, schema, late, parent>>

Reply(h) ==
    /\ run[h].at = "pushed"
    /\ Ends(h)
    /\ UNCHANGED <<db, notion, schema, late, parent, faults>>

EditBoard ==
    /\ faults + columns < Troubles
    /\ columns' = columns + 1
    /\ UNCHANGED <<db, rows, cards, mood, schema, late, parent, run, faults>>

-----------------------------------------------------------------------------
(* Master cards *)

AddProject(h, p) ==
    /\ run[h] = Idle
    /\ p \notin made
    /\ PlanOf[p] # <<>>
    /\ made' = made \cup {p}
    /\ run' = [run EXCEPT ![h] = [at |-> "resolve", project |-> p, into |-> None]]
    /\ UNCHANGED <<wanted, done, page, notion, schema, late, parent, faults>>

(* A parent that is not known is asked for: any answer but success stands    *)
(* for a page; no answer leaves the project without a card.                  *)
ResolveParent(h) ==
    /\ run[h].at = "resolve"
    /\ \/ /\ parent # None
          /\ run' = [run EXCEPT ![h].at = "card", ![h].into = parent]
          /\ UNCHANGED faults
       \/ /\ parent = None
          /\ run' = [run EXCEPT ![h].at = "resolved", ![h].into = ParentIs]
          /\ UNCHANGED faults
       \/ /\ parent = None
          /\ Fault
          /\ run' = [run EXCEPT ![h].at = "resolved", ![h].into = "page"] \/ Ends(h)
    /\ UNCHANGED <<db, notion, schema, late, parent>>

(* The answer is kept until the process restarts, or another one comes that  *)
(* was asked for before.                                                     *)
KeepParent(h) ==
    /\ run[h].at = "resolved"
    /\ parent' = run[h].into
    /\ run' = [run EXCEPT ![h].at = "card"]
    /\ UNCHANGED <<db, notion, schema, late, faults>>

AddCard(h) == cards' = Append(cards, [project |-> run[h].project, ticked |-> {}])

CreateCard(h) ==
    /\ run[h].at = "card"
    /\ IF run[h].into = ParentIs
       THEN /\ AddCard(h)
            /\ run' = [run EXCEPT ![h] = [at |-> "link", project |-> run[h].project,
                                          card |-> Len(cards')]]
       ELSE Ends(h) /\ UNCHANGED cards
    /\ UNCHANGED <<db, rows, columns, mood, schema, late, parent, faults>>

CardLost(h) ==
    /\ run[h].at = "card"
    /\ Fault
    /\ UNCHANGED cards \/ (run[h].into = ParentIs /\ AddCard(h))
    /\ Ends(h)
    /\ UNCHANGED <<db, rows, columns, mood, schema, late, parent>>

(* Mutant: the page is set on whichever project has the title. *)
SetProjectNotionPageByTitle(h) ==
    /\ run[h].at = "link"
    /\ \E p \in made : /\ TitleOf[p] = TitleOf[run[h].project]
                       /\ page' = [page EXCEPT ![p] = run[h].card]
    /\ Ends(h)
    /\ UNCHANGED <<made, wanted, done, notion, schema, late, parent, faults>>

SetProjectNotionPage(h) ==
    /\ run[h].at = "link"
    /\ \/ /\ page' = [page EXCEPT ![run[h].project] = run[h].card]
          /\ UNCHANGED faults
       \/ Fault /\ UNCHANGED page
    /\ Ends(h)
    /\ UNCHANGED <<made, wanted, done, notion, schema, late, parent>>

-----------------------------------------------------------------------------
(* Marking a task done *)

Stored == wanted \cup UNION {Elements(PlanOf[p]) : p \in made}

(* Mutant: the status that ticks the card is not written. *)
MarkTaskDoneLate(h, t) ==
    /\ run[h] = Idle
    /\ t \in Stored \ done
    /\ run' = [run EXCEPT ![h] = [at |-> "lookup", task |-> t,
                                  then |-> page[ProjectOf[t]]]]
    /\ UNCHANGED <<db, notion, schema, late, parent, faults>>

MarkTaskDone(h, t) ==
    /\ run[h] = Idle
    /\ t \in Stored \ done
    /\ done' = done \cup {t}
    /\ run' = [run EXCEPT ![h] = [at |-> "lookup", task |-> t,
                                  then |-> page[ProjectOf[t]]]]
    /\ UNCHANGED <<made, wanted, page, notion, schema, late, parent, faults>>

Same(t) == {p \in made : TitleOf[p] = TitleOf[ProjectOf[t]]}

(* The card is the one of a project with the title of the task's project. *)
FindCard(h) ==
    /\ run[h].at = "lookup"
    /\ \/ /\ Same(run[h].task) = {}
          /\ run' = [run EXCEPT ![h].at = "marked"]
       \/ \E p \in Same(run[h].task) :
              run' = [run EXCEPT ![h] = IF page[p] = None THEN [@ EXCEPT !.at = "marked"]
                                        ELSE [at |-> "children", task |-> @.task,
                                              then |-> @.then, card |-> page[p]]]
    /\ UNCHANGED <<db, notion, schema, late, parent, faults>>

Checklist(card) == {NameOf[t] : t \in Elements(PlanOf[cards[card].project])}

FindTodo(h) ==
    /\ run[h].at = "children"
    /\ \/ /\ run' = [run EXCEPT ![h].at =
                 IF NameOf[run[h].task] \in Checklist(run[h].card) THEN "tick" ELSE "marked"]
          /\ UNCHANGED faults
       \/ Fault /\ run' = [run EXCEPT ![h].at = "marked"]
    /\ UNCHANGED <<db, notion, schema, late, parent>>

(* Mutant: the first box of the checklist is ticked. *)
TickFirst(h) ==
    LET card == run[h].card
    IN  cards' = [cards EXCEPT ![card].ticked =
                      @ \cup {NameOf[Head(PlanOf[cards[card].project])]}]

Tick(h) == cards' = [cards EXCEPT ![run[h].card].ticked = @ \cup {NameOf[run[h].task]}]

TickTodo(h) ==
    /\ run[h].at = "tick"
    /\ \/ Tick(h) /\ UNCHANGED faults
       \/ Fault /\ (UNCHANGED cards \/ Tick(h))
    /\ run' = [run EXCEPT ![h].at = "marked"]
    /\ UNCHANGED <<db, rows, columns, mood, schema, late, parent>>

Marked(h) ==
    /\ run[h].at = "marked"
    /\ Ends(h)
    /\ UNCHANGED <<db, notion, schema, late, parent, faults>>

-----------------------------------------------------------------------------
(* What the sinks keep is lost with the process. *)
Crash ==
    /\ Fault
    /\ run' = [h \in Handlers |-> Idle]
    /\ schema' = None
    /\ parent' = None
    /\ UNCHANGED <<db, notion, late>>

Step(h) ==
    \/ ReadNames(h) \/ PushTask(h) \/ AskSchema(h) \/ KeepSchema(h)
    \/ PostRow(h) \/ PostError(h) \/ PostLost(h) \/ Retry(h)
    \/ PushedAll(h) \/ BreakOff(h) \/ Reply(h)
    \/ ResolveParent(h) \/ KeepParent(h) \/ CreateCard(h) \/ CardLost(h)
    \/ SetProjectNotionPage(h)
    \/ FindCard(h) \/ FindTodo(h) \/ TickTodo(h) \/ Marked(h)

Next ==
    \/ \E h \in Handlers :
           \/ Step(h)
           \/ \E p \in Projects : AddProject(h, p) \/ CommitPlan(h, p)
           \/ \E t \in Tasks : CaptureTask(h, t) \/ MarkTaskDone(h, t)
    \/ EditBoard
    \/ Crash

(* Every request ends, by its timeout if not by its answer. *)
Spec == Init /\ [][Next]_vars /\ \A h \in Handlers : WF_vars(Step(h))

-----------------------------------------------------------------------------
(* Properties *)

(* Pages and cards belong together: the page of a project is the card that   *)
(* was made for it, and no project has two; what a handler holds exists.     *)
TypeOK ==
    /\ done \subseteq Stored
    /\ \A p \in Projects : page[p] # None =>
           page[p] \in DOMAIN cards /\ cards[page[p]].project = p
    /\ \A i, j \in DOMAIN cards : cards[i].project = cards[j].project => i = j
    /\ \A i \in DOMAIN rows : rows[i].task \in Tasks
    /\ schema \in 0..columns \cup {None}
    /\ parent \in {"page", "database", None}

(* The database is written first: Notion never shows a row for a task that   *)
(* is neither committed nor captured or a card for a project that is not     *)
(* stored, and nothing is taken back.  A box is ticked on the card of a      *)
(* project only if its task of that name is done, or, as the card is looked  *)
(* up by title, one of another project with the same title.                  *)
Truth ==
    {<<"row", t>> : t \in wanted} \cup {<<"card", p>> : p \in made}
        \cup {<<"tick", ProjectOf[t], NameOf[t]>> : t \in done}

Mistaken == UNION {{<<"tick", p, NameOf[t]>> : p \in Same(t) \ {ProjectOf[t]}} : t \in done}

Surface ==
    {<<"row", rows[i].task>> : i \in DOMAIN rows}
        \cup {<<"card", cards[i].project>> : i \in DOMAIN cards}
        \cup UNION {{<<"tick", cards[i].project, n>> : n \in cards[i].ticked} :
                       i \in DOMAIN cards}

Contract == INSTANCE OneWayMirror WITH truth <- Truth \cup Mistaken, surface <- Surface
MirrorsOneWay == Contract!Spec

RowsOf(t) == {i \in DOMAIN rows : rows[i].task = t}

(* A confirmation counts every task that is not on the board as failed, also *)
(* when answers were lost, refused or came while others were pushing, or the *)
(* pushing was broken off; unless the names could not be read, and then it   *)
(* counts nothing.                                                           *)
FailuresCounted ==
    \A h \in Handlers :
        LET r == run[h]
        IN  r.at = "pushed" /\ r.kind = "commit" =>
                IF r.total = 0 THEN faults > 0
                ELSE \E p \in Projects :
                         /\ r.total = Len(PlanOf[p])
                         /\ Cardinality({t \in Elements(PlanOf[p]) : RowsOf(t) = {}})
                                <= r.total - r.ok

(* A task has a second row only if the first was answered with an error.  A  *)
(* row is as full as the board takes it unless an attempt before it was      *)
(* answered with another error, or the schema was changed between the first  *)
(* attempt and the others.  A push without trouble fails only if the board   *)
(* takes none of its attempts, or another push failed in the meantime.       *)
RowUnlessRefused ==
    /\ \A i, j \in DOMAIN rows : rows[i].task = rows[j].task /\ i < j => rows[i].error
    /\ \A i \in DOMAIN rows :
           LET t == rows[i].task
           IN  rows[i].clean => \A fill \in {ColumnsOf[t], Strict(t)} :
                   fill \subseteq rows[i].filled \/
                       fill \cap (mood.never \cup (mood.noNew \cap New[t])) # {}
    /\ faults = 0 /\ columns = 0 =>
           \A h \in Handlers : run[h].at \in {"next", "pushed"} =>
               \A f \in run[h].failed : f.alone =>
                   \A fill \in {ColumnsOf[f.task], Strict(f.task), Safe(f.task)} :
                       fill \cap (mood.never \cup (mood.noNew \cap New[f.task])) # {}

(* An edit of the board costs a handler one push, and one more only when an  *)
(* answer from before the edit was kept late: of two pushes that fail with   *)
(* one outdated schema, such an answer came between.                         *)
StaleOnce ==
    \A h \in Handlers : run[h].at \in {"next", "pushed"} =>
        \A f, g \in run[h].failed :
            f.stale /\ g.stale /\ f.edition = g.edition /\ f.late = g.late => f = g

(* When the handler of "done" ends, the box is ticked, provided the project  *)
(* had its card when it began, no other stored project has the title, the    *)
(* task is on the checklist, and no request failed.                          *)
DoneIsTicked ==
    \A h \in Handlers :
        LET t == run[h].task
        IN  /\ run[h].at = "marked"
            /\ faults = 0
            /\ run[h].then # None
            /\ Same(t) = {ProjectOf[t]}
            /\ NameOf[t] \in Checklist(run[h].then)
            => NameOf[t] \in cards[run[h].then].ticked

(* Notion never holds up a confirmation or a capture: whatever it answers,   *)
(* the pushing ends.                                                         *)
PushingEnds ==
    \A h \in Handlers :
        run[h].at \in {"names", "next", "fetch", "answered", "post", "rejected"}
            ~> run[h] = Idle
=============================================================================
