---------------------------- MODULE CaptureProofs ----------------------------
(***************************************************************************)
(* Captures for any handlers, users, people, tasks asked for and answers of *)
(* the model: what overlapping captures may write twice, what a cut may     *)
(* lose, that nothing key is made up and that the cards say what is stored. *)
(*                                                                          *)
(* The rows only come, and keep what they were captured with; a capture is  *)
(* known by what it has read of them, which was true when it read it.       *)
(***************************************************************************)
EXTENDS Capture, SequenceTheorems, TLAPS

Titles == {w.title : w \in Wants} \cup {None}

(* The titles that somebody gave a project.                                 *)
Named == {w.project : w \in Wants} \cup Typed \cup ToSet(Seeded) \cup {None}
             \cup {c.title : c \in {d \in Calls : d.tool = "plan_project"}}

(* What is parsed comes to the default project when nobody named one.       *)
Places == Named \cup {Inbox}

Lists == {w.people : w \in Wants} \cup {<<p>> : p \in ToSet(People)} \cup {<<>>}
Persons == UNION {ToSet(l) : l \in Lists}
Deadlines == {w.deadline : w \in Wants} \cup {Today, None}

(* A capture with its fields, some of them perhaps missing.                 *)
Slots == [title : Titles, project : Places, people : Lists, deadline : Deadlines]

ProjectRows == [title : Places, stub : BOOLEAN, since : Nat]

TaskRows == [name     : Titles,
             project  : Nat,
             deadline : Deadlines,
             people   : SUBSET Known,
             done     : BOOLEAN,
             audited  : BOOLEAN,
             since    : Nat,
             asked    : Lists,
             place    : Places,
             parsed   : BOOLEAN,
             cut      : BOOLEAN,
             moved    : BOOLEAN]

Stages == {"lookup", "create", "check", "write", "assign", "duplicate", "captured", "failed"}

Captures == [at           : Stages,
             want         : Slots,
             parsed       : BOOLEAN,
             project      : Nat,
             task         : Nat,
             todo         : Seq(Persons),
             named        : SUBSET Known,
             projectsThen : Nat,
             tasksThen    : Nat]

-----------------------------------------------------------------------------
(* The rows                                                                 *)

Rows == projects \in Seq(ProjectRows) /\ tasks \in Seq(TaskRows)

(* What the agent or a dialogue captures lacks nothing key.                 *)
Lacking(want) == want.deadline = None \/ want.people = <<>> \/ want.project = None

Complete(c) == c.parsed \/ ~Lacking(c.want)

AsNamed(i) ==
    tasks[i].parsed \/ /\ tasks[i].deadline # None
                       /\ tasks[i].asked # <<>>
                       /\ tasks[i].place # None
                       /\ projects[tasks[i].project].title = tasks[i].place

References ==
    \A i \in DOMAIN tasks :
        /\ tasks[i].project \in DOMAIN projects
        /\ tasks[i].since < i
        /\ AsNamed(i)

(* What a capture has read, and what it has written.                        *)
Reads(h) ==
    LET c == capture[h] IN
    c # NoCapture =>
        /\ c \in Captures
        /\ c.projectsThen <= Len(projects) /\ c.tasksThen <= Len(tasks)
        /\ c.project \in {0} \cup DOMAIN projects /\ c.task \in {0} \cup DOMAIN tasks
        /\ Complete(c)
        /\ c.project # 0 => projects[c.project].title = Target(c.want)
        /\ c.at \in {"lookup", "create", "check", "write"} =>
               c.named = {} /\ c.todo = c.want.people
        /\ c.at = "create" =>
               \A i \in DOMAIN projects : projects[i].title = Target(c.want) => i > c.projectsThen
        /\ c.at \in {"check", "write", "assign", "captured"} => c.project # 0
        /\ c.at = "write" =>
               \A i \in DOMAIN tasks :
                   /\ tasks[i].project = c.project /\ tasks[i].name = c.want.title
                   /\ ~tasks[i].done
                   => i > c.tasksThen
        /\ c.at \in {"assign", "captured"} =>
               /\ c.task # 0
               /\ tasks[c.task].project = c.project
               /\ tasks[c.task].moved \/ c.named \subseteq tasks[c.task].people
        /\ c.at = "assign" =>
               ToSet(tasks[c.task].asked) \cap Known \subseteq c.named \cup ToSet(c.todo)

StoreInv ==
    /\ Rows /\ References /\ NoTwins /\ WholeUnlessCut
    /\ DOMAIN capture = Handlers
    /\ \A h \in Handlers : Reads(h)

-----------------------------------------------------------------------------
(* How the rows change: a task keeps what it was captured with, and once     *)
(* done, audited, cut or given to another it stays so.                       *)
Keeps(s, t) ==
    /\ t.name = s.name /\ t.project = s.project /\ t.deadline = s.deadline
    /\ t.since = s.since /\ t.asked = s.asked /\ t.place = s.place /\ t.parsed = s.parsed
    /\ s.done => t.done
    /\ s.audited => t.audited
    /\ s.cut => t.cut
    /\ s.moved => t.moved
    /\ t.moved \/ s.people \subseteq t.people

StoreGrows ==
    /\ wired' = wired /\ Rows'
    /\ \A i \in DOMAIN projects : i \in DOMAIN projects' /\ projects'[i] = projects[i]
    /\ \A i \in DOMAIN tasks : i \in DOMAIN tasks' /\ Keeps(tasks[i], tasks'[i])

(* What a capture has read stays so while the rows grow.                    *)
LEMMA ReadsStay ==
    ASSUME StoreInv, StoreGrows, NEW g \in Handlers, capture'[g] = capture[g]
    PROVE  Reads(g)'
<1>1. Places' = Places
  BY DEF StoreGrows, Places
<1>2. Len(projects) <= Len(projects') /\ Len(tasks) <= Len(tasks')
      /\ Len(projects) \in Nat /\ Len(tasks) \in Nat
      /\ Len(projects') \in Nat /\ Len(tasks') \in Nat
  BY DEF StoreInv, Rows, StoreGrows
<1> DEFINE c == capture[g]
<1> SUFFICES ASSUME c # NoCapture PROVE Reads(g)'
  BY DEF Reads
<1>3. Reads(g) /\ c \in Captures
  BY DEF StoreInv, Reads
<1>4. c \in Captures'
  BY <1>1, <1>3 DEF Captures, Slots
<1>5. /\ c.projectsThen <= Len(projects') /\ c.tasksThen <= Len(tasks')
      /\ c.project \in {0} \cup DOMAIN projects' /\ c.task \in {0} \cup DOMAIN tasks'
      /\ c.project # 0 => projects'[c.project].title = Target(c.want)
      /\ Complete(c)
  BY <1>2, <1>3, SMTT(30) DEF Reads, Captures, StoreGrows, Complete
<1>6. ASSUME c.at = "create", NEW i \in DOMAIN projects', projects'[i].title = Target(c.want)
      PROVE  i > c.projectsThen
  <2>1. CASE i \in DOMAIN projects
    BY <1>3, <1>6, <2>1 DEF Reads, StoreGrows
  <2>2. CASE i \notin DOMAIN projects
    BY <1>2, <1>3, <2>2 DEF Reads, StoreInv, Rows, StoreGrows, Captures
  <2> QED BY <2>1, <2>2
<1>7. ASSUME c.at = "write", NEW i \in DOMAIN tasks', tasks'[i].project = c.project,
             tasks'[i].name = c.want.title, ~tasks'[i].done
      PROVE  i > c.tasksThen
  <2>1. CASE i \in DOMAIN tasks
    BY <1>3, <1>7, <2>1 DEF Reads, StoreGrows, Keeps
  <2>2. CASE i \notin DOMAIN tasks
    BY <1>2, <1>3, <2>2 DEF Reads, StoreInv, Rows, StoreGrows, Captures
  <2> QED BY <2>1, <2>2
<1>8. c.at \in {"assign", "captured"} =>
          /\ c.task # 0
          /\ tasks'[c.task].project = c.project
          /\ tasks'[c.task].moved \/ c.named \subseteq tasks'[c.task].people
  <2> SUFFICES ASSUME c.at \in {"assign", "captured"}
               PROVE /\ c.task # 0
                     /\ tasks'[c.task].project = c.project
                     /\ tasks'[c.task].moved \/ c.named \subseteq tasks'[c.task].people
    OBVIOUS
  <2>1. /\ c.task \in DOMAIN tasks /\ c.task # 0
        /\ tasks[c.task].project = c.project
        /\ tasks[c.task].moved \/ c.named \subseteq tasks[c.task].people
    BY <1>3 DEF Reads
  <2> QED BY <2>1 DEF StoreGrows, Keeps
<1>9. c.at = "assign" =>
          ToSet(tasks'[c.task].asked) \cap Known \subseteq c.named \cup ToSet(c.todo)
  BY <1>3 DEF Reads, StoreGrows, Keeps
<1>10. /\ c.at \in {"check", "write", "assign", "captured"} => c.project # 0
       /\ c.at \in {"lookup", "create", "check", "write"} =>
              c.named = {} /\ c.todo = c.want.people
  BY <1>3 DEF Reads
<1> QED BY <1>4, <1>5, <1>6, <1>7, <1>8, <1>9, <1>10 DEF Reads

(* Rows that only change as they may are not twins because of it.           *)
LEMMA RowsStay ==
    ASSUME StoreInv, StoreGrows, projects' = projects, DOMAIN tasks' = DOMAIN tasks
    PROVE  References' /\ NoTwins'
<1>1. References'
  <2> SUFFICES ASSUME NEW i \in DOMAIN tasks
               PROVE  /\ tasks'[i].project \in DOMAIN projects
                      /\ tasks'[i].since < i
                      /\ AsNamed(i)'
    BY DEF References, StoreGrows
  <2>1. tasks[i].project \in DOMAIN projects /\ tasks[i].since < i /\ AsNamed(i)
    BY DEF StoreInv, References
  <2> QED BY <2>1 DEF StoreGrows, Keeps, AsNamed
<1>2. ASSUME NEW i \in DOMAIN tasks, NEW j \in DOMAIN tasks, i < j,
             tasks'[i].name = tasks'[j].name, tasks'[i].project = tasks'[j].project,
             ~tasks'[i].done
      PROVE  i > tasks'[j].since
  BY <1>2 DEF StoreInv, NoTwins, StoreGrows, Keeps
<1> QED BY <1>1, <1>2 DEF NoTwins, StoreInv

(* The writing of a task ends with the task cut, or whole.                  *)
Closed(t) ==
    \/ t.cut
    \/ t.audited /\ (t.moved \/ ToSet(t.asked) \cap Known \subseteq t.people)

LEMMA WholeStays ==
    ASSUME StoreInv, StoreGrows, DOMAIN tasks' = DOMAIN tasks,
           \A h \in Handlers : capture[h].at = "assign" =>
               \/ capture'[h].at = "assign" /\ capture'[h].task = capture[h].task
               \/ Closed(tasks'[capture[h].task])
    PROVE  WholeUnlessCut'
<1> SUFFICES ASSUME NEW i \in DOMAIN tasks
             PROVE  \/ \E h \in Handlers : capture'[h].at = "assign" /\ capture'[h].task = i
                    \/ Closed(tasks'[i])
  BY DEF WholeUnlessCut, Closed
<1>1. Keeps(tasks[i], tasks'[i])
  BY DEF StoreGrows
<1>2. CASE Closed(tasks[i])
  BY <1>1, <1>2 DEF Closed, Keeps
<1>3. CASE \E h \in Handlers : capture[h].at = "assign" /\ capture[h].task = i
  BY <1>3
<1> QED BY <1>2, <1>3 DEF StoreInv, WholeUnlessCut, Closed

(* A step that changes no row, and one capture.                             *)
LEMMA OneReads ==
    ASSUME StoreInv, UNCHANGED <<projects, tasks, wired>>, NEW h \in Handlers, NEW c,
           capture' = [capture EXCEPT ![h] = c],
           capture[h].at # "assign", Reads(h)'
    PROVE  StoreInv' /\ StoreGrows
<1>1. StoreGrows
  BY DEF StoreGrows, StoreInv, Rows, ProjectRows, TaskRows, Places, Keeps
<1>2. References' /\ NoTwins'
  BY <1>1, RowsStay
<1>3. WholeUnlessCut'
  BY <1>1, WholeStays DEF StoreInv
<1>4. \A g \in Handlers : Reads(g)'
  BY <1>1, ReadsStay DEF StoreInv
<1> QED BY <1>1, <1>2, <1>3, <1>4 DEF StoreInv, StoreGrows

LEMMA ExecuteReads ==
    ASSUME StoreInv, NEW h \in Handlers, NEW want \in Slots, NEW parsed \in BOOLEAN,
           parsed \/ ~Lacking(want), want.people \in Seq(Persons),
           Execute(h, want, parsed), wired' = wired
    PROVE  StoreInv' /\ StoreGrows
<1> DEFINE c == [at |-> "lookup", want |-> want, parsed |-> parsed, project |-> 0, task |-> 0,
                 todo |-> want.people, named |-> {},
                 projectsThen |-> Len(projects), tasksThen |-> Len(tasks)]
<1>1. Places' = Places
  BY DEF Places
<1>2. Len(projects) \in Nat /\ Len(tasks) \in Nat
  BY DEF StoreInv, Rows
<1>3. c \in Captures'
  BY <1>1, <1>2 DEF Captures, Stages, Slots
<1>4. capture'[h] = c /\ capture[h].at # "assign"
  BY DEF Execute, StoreInv, NoCapture
<1>5. Reads(h)'
  BY <1>2, <1>3, <1>4 DEF Reads, Execute, Complete
<1> QED BY <1>4, <1>5, OneReads DEF Execute

LEMMA LookupReads ==
    ASSUME StoreInv, NEW h \in Handlers, GetProjectByTitle(h), wired' = wired
    PROVE  StoreInv' /\ StoreGrows
<1> DEFINE c == capture[h]
           title == Target(c.want)
           found == Indices(projects, LAMBDA pr : pr.title = title)
<1>1. Places' = Places
  BY DEF Places
<1>2. /\ c.at = "lookup" /\ c # NoCapture /\ c \in Captures
      /\ c.projectsThen <= Len(projects) /\ c.tasksThen <= Len(tasks)
      /\ c.task \in {0} \cup DOMAIN tasks /\ Complete(c)
      /\ c.project # 0 => projects[c.project].title = Target(c.want)
      /\ c.named = {} /\ c.todo = c.want.people
      /\ h \in DOMAIN capture
  BY DEF GetProjectByTitle, StoreInv, Reads, NoCapture
<1>3. CASE found = {} /\ capture' = [capture EXCEPT ![h].at = "create"]
  <2>0. PICK n : n = [c EXCEPT !.at = "create"]
    OBVIOUS
  <2>1. capture' = [capture EXCEPT ![h] = n]
    BY <1>3, <2>0
  <2>2. n \in Captures'
    BY <1>1, <1>2, <2>0 DEF Captures, Stages, Slots
  <2>3. \A i \in DOMAIN projects : projects[i].title # title
    BY <1>3 DEF Indices
  <2>4. n.want = c.want /\ n.parsed = c.parsed /\ n.at = "create" /\ n.projectsThen = c.projectsThen
        /\ n.tasksThen = c.tasksThen /\ n.task = c.task /\ n.named = c.named /\ n.todo = c.todo /\ n.project = c.project
    BY <1>2, <2>0 DEF Captures
  <2>5. n.project \in {0} \cup DOMAIN projects
    BY <1>2, <2>4 DEF StoreInv, Reads
  <2>6. capture'[h] = n
    BY <2>1, <1>2
  <2>7. Reads(h)'
    BY <1>2, <2>2, <2>3, <2>4, <2>5, <2>6 DEF Reads, GetProjectByTitle, Complete
  <2> QED BY <1>2, <2>1, <2>7, OneReads DEF GetProjectByTitle
<1>4. ASSUME NEW i \in found, capture' = [capture EXCEPT ![h].at = "check", ![h].project = i]
      PROVE  StoreInv' /\ StoreGrows
  <2>0. PICK n : n = [c EXCEPT !.at = "check", !.project = i]
    OBVIOUS
  <2>1. capture' = [capture EXCEPT ![h] = n]
    BY <1>4, <1>2, <2>0
  <2>2. i \in DOMAIN projects /\ i # 0 /\ i \in Nat /\ projects[i].title = Target(c.want)
    BY DEF Indices, StoreInv, Rows
  <2>3. n \in Captures'
    BY <1>1, <1>2, <2>0, <2>2 DEF Captures, Stages, Slots
  <2>4. n.want = c.want /\ n.parsed = c.parsed /\ n.at = "check" /\ n.projectsThen = c.projectsThen
        /\ n.tasksThen = c.tasksThen /\ n.task = c.task /\ n.named = c.named /\ n.todo = c.todo /\ n.project = i
    BY <1>2, <2>0 DEF Captures
  <2>5. capture'[h] = n
    BY <2>1, <1>2
  <2>6. Reads(h)'
    BY <1>2, <2>2, <2>3, <2>4, <2>5 DEF Reads, GetProjectByTitle, Complete
  <2> QED BY <1>2, <2>1, <2>6, OneReads DEF GetProjectByTitle
<1> QED BY <1>3, <1>4 DEF GetProjectByTitle

LEMMA DuplicateReads ==
    ASSUME StoreInv, NEW h \in Handlers, FindDuplicate(h), wired' = wired
    PROVE  StoreInv' /\ StoreGrows
<1> DEFINE c == capture[h]
           next == IF Duplicates(h) = {} THEN "write" ELSE "duplicate"
<1>0. PICK n : n = [c EXCEPT !.at = next]
  OBVIOUS
<1>1. Places' = Places
  BY DEF Places
<1>2. /\ c.at = "check" /\ c # NoCapture /\ c \in Captures
      /\ c.projectsThen <= Len(projects) /\ c.tasksThen <= Len(tasks)
      /\ c.task \in {0} \cup DOMAIN tasks /\ Complete(c)
      /\ c.project # 0 => projects[c.project].title = Target(c.want)
      /\ c.named = {} /\ c.todo = c.want.people
      /\ c.project \in DOMAIN projects /\ c.project # 0
      /\ h \in DOMAIN capture
  BY DEF FindDuplicate, StoreInv, Reads, NoCapture
<1>3. capture' = [capture EXCEPT ![h] = n] /\ capture'[h] = n
  BY <1>0, <1>2 DEF FindDuplicate
<1>4. n \in Captures'
  BY <1>0, <1>1, <1>2 DEF Captures, Stages, Slots
<1>5. n.want = c.want /\ n.parsed = c.parsed /\ n.at = next /\ n.projectsThen = c.projectsThen
      /\ n.tasksThen = c.tasksThen /\ n.task = c.task /\ n.named = c.named /\ n.todo = c.todo /\ n.project = c.project
  BY <1>0, <1>2 DEF Captures
<1>6. next = "write" => \A i \in DOMAIN tasks :
          ~(tasks[i].project = c.project /\ tasks[i].name = c.want.title /\ ~tasks[i].done)
  BY DEF Duplicates, Indices
<1>7. Reads(h)'
  BY <1>2, <1>3, <1>4, <1>5, <1>6 DEF Reads, FindDuplicate, Complete
<1> QED BY <1>2, <1>3, <1>7, OneReads DEF FindDuplicate

LEMMA LeaveReads ==
    ASSUME StoreInv, NEW h \in Handlers, NEW outcome, outcome # "assign",
           Leave(h, outcome), wired' = wired
    PROVE  StoreInv' /\ StoreGrows
<1>1. capture'[h] = NoCapture
  BY DEF Leave, StoreInv
<1>2. Reads(h)'
  BY <1>1 DEF Reads
<1> QED BY <1>2, OneReads DEF Leave

(* A project more, which is a twin only of one made while its capture ran.  *)
LEMMA ProjectMore ==
    ASSUME StoreInv, wired' = wired, tasks' = tasks,
           NEW p \in ProjectRows, projects' = Append(projects, p),
           p.stub => \A i \in DOMAIN projects : projects[i].title = p.title => i > p.since
    PROVE  StoreGrows /\ References' /\ NoTwins'
<1>1. Places' = Places
  BY DEF Places
<1>2. projects' \in Seq(ProjectRows) /\ tasks \in Seq(TaskRows)
  BY DEF StoreInv, Rows
<1>3. Rows'
  BY <1>1, <1>2 DEF Rows, ProjectRows, TaskRows
<1>4. \A i \in DOMAIN projects : i \in DOMAIN projects' /\ projects'[i] = projects[i]
  BY DEF StoreInv, Rows
<1>5. StoreGrows
  BY <1>3, <1>4 DEF StoreGrows, Keeps
<1>6. References'
  BY <1>4 DEF StoreInv, References, AsNamed
<1>7. ASSUME NEW i \in DOMAIN projects', NEW j \in DOMAIN projects', i < j,
             projects'[i].title = projects'[j].title, projects'[j].stub
      PROVE  i > projects'[j].since
  <2>1. CASE j \in DOMAIN projects
    <3>1. i \in DOMAIN projects
      BY <1>7, <2>1 DEF StoreInv, Rows
    <3> QED BY <1>4, <1>7, <2>1, <3>1 DEF StoreInv, NoTwins
  <2>2. CASE j \notin DOMAIN projects
    <3>1. i \in DOMAIN projects /\ projects'[j] = p
      BY <1>7, <2>2 DEF StoreInv, Rows
    <3> QED BY <1>4, <1>7, <3>1
  <2> QED BY <2>1, <2>2
<1>8. NoTwins'
  BY <1>7 DEF NoTwins, StoreInv
<1> QED BY <1>5, <1>6, <1>8

LEMMA ProjectReads ==
    ASSUME StoreInv, NEW h \in Handlers, CreateProject(h), wired' = wired,
           Target(capture[h].want) \in Places
    PROVE  StoreInv' /\ StoreGrows
<1> DEFINE c == capture[h]
<1>1. Places' = Places
  BY DEF Places
<1>2. /\ c.at = "create" /\ c # NoCapture /\ c \in Captures
      /\ c.projectsThen <= Len(projects) /\ c.tasksThen <= Len(tasks)
      /\ c.task \in {0} \cup DOMAIN tasks /\ Complete(c)
      /\ c.named = {} /\ c.todo = c.want.people
      /\ h \in DOMAIN capture
      /\ \A i \in DOMAIN projects : projects[i].title = Target(c.want) => i > c.projectsThen
  BY DEF CreateProject, StoreInv, Reads, NoCapture
<1>3. PICK p : p = [title |-> Target(c.want), stub |-> TRUE, since |-> c.projectsThen]
  OBVIOUS
<1>4. p \in ProjectRows
  BY <1>2, <1>3 DEF ProjectRows, Captures
<1>5. projects' = Append(projects, p) /\ tasks' = tasks
  BY <1>3 DEF CreateProject
<1>6. StoreGrows /\ References' /\ NoTwins'
  BY <1>2, <1>3, <1>4, <1>5, ProjectMore
<1>7. projects'[Len(projects')] = p /\ Len(projects') = Len(projects) + 1 /\ Len(projects') \in DOMAIN projects'
      /\ Len(projects) \in Nat /\ Len(projects') \in Nat \ {0}
  BY <1>5 DEF StoreInv, Rows
<1>8. PICK n : n = [c EXCEPT !.at = "check", !.project = Len(projects')]
  OBVIOUS
<1>9. capture' = [capture EXCEPT ![h] = n] /\ capture'[h] = n
  BY <1>2, <1>8 DEF CreateProject
<1>10. n \in Captures'
  BY <1>1, <1>2, <1>7, <1>8 DEF Captures, Stages, Slots
<1>11. n.want = c.want /\ n.parsed = c.parsed /\ n.at = "check" /\ n.projectsThen = c.projectsThen
       /\ n.tasksThen = c.tasksThen /\ n.task = c.task /\ n.named = c.named /\ n.todo = c.todo /\ n.project = Len(projects')
  BY <1>2, <1>8 DEF Captures
<1>12. n.projectsThen <= Len(projects')
  BY <1>2, <1>7, <1>11 DEF Captures
<1>13. Reads(h)'
  BY <1>2, <1>3, <1>5, <1>7, <1>9, <1>10, <1>11, <1>12 DEF Reads, Complete
<1>14. \A g \in Handlers : Reads(g)'
  BY <1>6, <1>9, <1>13, ReadsStay DEF StoreInv
<1>15. WholeUnlessCut'
  BY <1>2, <1>5, <1>6, <1>9, WholeStays DEF StoreInv
<1> QED BY <1>6, <1>9, <1>14, <1>15 DEF StoreInv, StoreGrows

(* The tasks there are, changed as they may be.                             *)
LEMMA TasksKept ==
    ASSUME StoreInv, UNCHANGED <<projects, wired>>,
           tasks' \in [DOMAIN tasks -> TaskRows],
           \A i \in DOMAIN tasks : Keeps(tasks[i], tasks'[i])
    PROVE  StoreGrows /\ References' /\ NoTwins' /\ DOMAIN tasks' = DOMAIN tasks
<1>1. Places' = Places
  BY DEF Places
<1>2. DOMAIN tasks = 1..Len(tasks) /\ Len(tasks) \in Nat
  BY DEF StoreInv, Rows
<1>3. tasks' \in Seq(TaskRows) /\ DOMAIN tasks' = DOMAIN tasks
  BY <1>2, SeqDef
<1>4. Rows'
  BY <1>1, <1>3 DEF StoreInv, Rows, ProjectRows, TaskRows
<1>5. StoreGrows
  BY <1>3, <1>4 DEF StoreGrows
<1> QED BY <1>3, <1>5, RowsStay

LEMMA OnlyTasks ==
    ASSUME StoreInv, UNCHANGED <<projects, wired, capture>>,
           tasks' \in [DOMAIN tasks -> TaskRows],
           \A i \in DOMAIN tasks : Keeps(tasks[i], tasks'[i])
    PROVE  StoreInv' /\ StoreGrows
<1>1. StoreGrows /\ References' /\ NoTwins' /\ DOMAIN tasks' = DOMAIN tasks
  BY TasksKept
<1>2. WholeUnlessCut'
  BY <1>1, WholeStays
<1>3. \A g \in Handlers : Reads(g)'
  BY <1>1, ReadsStay
<1> QED BY <1>1, <1>2, <1>3 DEF StoreInv, StoreGrows

LEMMA Given ==
    ASSUME NEW t \in TaskRows, NEW who \in SUBSET Known, NEW u,
           u = [t EXCEPT !.people = @ \cup who]
    PROVE  u \in TaskRows /\ Keeps(t, u) /\ u.people = t.people \cup who
BY DEF TaskRows, Keeps

LEMMA Audits ==
    ASSUME NEW t \in TaskRows, NEW u, u = [t EXCEPT !.audited = TRUE]
    PROVE  u \in TaskRows /\ Keeps(t, u) /\ u.audited
BY DEF TaskRows, Keeps

LEMMA Cuts ==
    ASSUME NEW t \in TaskRows, NEW b \in BOOLEAN, NEW u, u = [t EXCEPT !.cut = @ \/ b]
    PROVE  u \in TaskRows /\ Keeps(t, u) /\ (b => u.cut)
BY DEF TaskRows, Keeps

LEMMA Moves ==
    ASSUME NEW t \in TaskRows, NEW who \in SUBSET Known, NEW u,
           u = [t EXCEPT !.people = who, !.moved = TRUE]
    PROVE  u \in TaskRows /\ Keeps(t, u)
BY DEF TaskRows, Keeps

LEMMA Ticks ==
    ASSUME NEW t \in TaskRows, NEW b \in BOOLEAN, NEW u, u = [t EXCEPT !.done = @ \/ b]
    PROVE  u \in TaskRows /\ Keeps(t, u)
BY DEF TaskRows, Keeps

(* A person more for one task.                                              *)
LEMMA GivenOne ==
    ASSUME StoreInv, NEW k \in DOMAIN tasks, NEW who \in SUBSET Known,
           tasks' = [tasks EXCEPT ![k].people = @ \cup who]
    PROVE  /\ tasks' \in [DOMAIN tasks -> TaskRows]
           /\ \A i \in DOMAIN tasks : Keeps(tasks[i], tasks'[i])
           /\ tasks'[k].people = tasks[k].people \cup who
<1>1. tasks \in [DOMAIN tasks -> TaskRows]
  BY DEF StoreInv, Rows
<1>2. PICK u : u = [tasks[k] EXCEPT !.people = @ \cup who]
  OBVIOUS
<1>3. tasks' = [tasks EXCEPT ![k] = u]
  BY <1>2
<1>4. u \in TaskRows /\ Keeps(tasks[k], u) /\ u.people = tasks[k].people \cup who
  BY <1>1, <1>2, Given
<1>5. \A t \in TaskRows : Keeps(t, t)
  BY DEF TaskRows, Keeps
<1> QED BY <1>1, <1>3, <1>4, <1>5

(* A step of a capture that has its task.                                   *)
LEMMA Assigning ==
    ASSUME StoreInv, NEW h \in Handlers, capture[h].at = "assign"
    PROVE  /\ capture[h] \in Captures /\ capture[h] # NoCapture /\ h \in DOMAIN capture
           /\ capture[h].projectsThen <= Len(projects) /\ capture[h].tasksThen <= Len(tasks)
           /\ capture[h].project \in DOMAIN projects /\ capture[h].project # 0
           /\ capture[h].task \in DOMAIN tasks /\ capture[h].task # 0
           /\ Complete(capture[h])
           /\ projects[capture[h].project].title = Target(capture[h].want)
           /\ tasks[capture[h].task].project = capture[h].project
           /\ tasks[capture[h].task].moved
                  \/ capture[h].named \subseteq tasks[capture[h].task].people
           /\ ToSet(tasks[capture[h].task].asked) \cap Known
                  \subseteq capture[h].named \cup ToSet(capture[h].todo)
BY DEF StoreInv, Reads, NoCapture

LEMMA HeadTail ==
    ASSUME NEW S, NEW s \in Seq(S), s # <<>>
    PROVE  Tail(s) \in Seq(S) /\ Head(s) \in S /\ ToSet(s) = {Head(s)} \cup ToSet(Tail(s))
<1>1. Len(s) \in Nat \ {0} /\ Tail(s) \in Seq(S) /\ Head(s) = s[1] /\ DOMAIN s = 1..Len(s)
      /\ DOMAIN Tail(s) = 1..(Len(s) - 1) /\ \A i \in DOMAIN Tail(s) : Tail(s)[i] = s[i + 1]
  BY HeadTailProperties, EmptySeq
<1>2. ASSUME NEW i \in DOMAIN s PROVE s[i] \in {Head(s)} \cup ToSet(Tail(s))
  <2>1. CASE i = 1
    BY <1>1, <2>1
  <2>2. CASE i # 1
    <3>1. i - 1 \in DOMAIN Tail(s) /\ Tail(s)[i - 1] = s[i]
      BY <1>1, <2>2
    <3> QED BY <3>1 DEF ToSet
  <2> QED BY <2>1, <2>2
<1>3. ASSUME NEW i \in DOMAIN Tail(s) PROVE Tail(s)[i] \in ToSet(s)
  <2>1. i + 1 \in DOMAIN s /\ Tail(s)[i] = s[i + 1]
    BY <1>1
  <2> QED BY <2>1 DEF ToSet
<1>4. Head(s) \in ToSet(s) /\ Head(s) \in S
  BY <1>1 DEF ToSet
<1> QED BY <1>1, <1>2, <1>3, <1>4 DEF ToSet

LEMMA NextReads ==
    ASSUME StoreInv, NEW h \in Handlers, AssignNext(h), wired' = wired
    PROVE  StoreInv' /\ StoreGrows
<1> DEFINE c == capture[h]
           k == c.task
<1>1. c.at = "assign" /\ c.todo # <<>>
  BY DEF AssignNext
<1> USE Assigning, <1>1
<1>2. PICK who : who = {Head(c.todo)} \cap Known
  OBVIOUS
<1>3. tasks' = [tasks EXCEPT ![k].people = @ \cup who] /\ who \in SUBSET Known
      /\ projects' = projects /\ k \in DOMAIN tasks
  BY <1>2 DEF AssignNext
<1>4. StoreGrows /\ References' /\ NoTwins' /\ DOMAIN tasks' = DOMAIN tasks
      /\ tasks'[k].people = tasks[k].people \cup who
  BY <1>3, GivenOne, TasksKept
<1>5. PICK n : n = [c EXCEPT !.todo = Tail(c.todo), !.named = c.named \cup who]
  OBVIOUS
<1>6. capture' = [capture EXCEPT ![h] = n] /\ capture'[h] = n
  BY <1>2, <1>5 DEF AssignNext
<1>7. c \in Captures /\ c.todo \in Seq(Persons)
  BY DEF Captures
<1>8. Tail(c.todo) \in Seq(Persons) /\ ToSet(c.todo) = {Head(c.todo)} \cup ToSet(Tail(c.todo))
  BY <1>7, HeadTail
<1>9. Places' = Places
  BY DEF Places
<1>10. n \in Captures'
  BY <1>3, <1>5, <1>7, <1>8, <1>9 DEF Captures, Stages, Slots
<1>11. n.want = c.want /\ n.parsed = c.parsed /\ n.at = "assign" /\ n.projectsThen = c.projectsThen
       /\ n.tasksThen = c.tasksThen /\ n.task = k /\ n.project = c.project
       /\ n.named = c.named \cup who /\ n.todo = Tail(c.todo)
  BY <1>5, <1>7 DEF Captures
<1>12. Keeps(tasks[k], tasks'[k])
  BY <1>3, <1>4 DEF StoreGrows
<1>13. ToSet(tasks'[k].asked) \cap Known \subseteq n.named \cup ToSet(n.todo)
  BY <1>2, <1>8, <1>11, <1>12 DEF Keeps
<1>14. tasks'[k].moved \/ n.named \subseteq tasks'[k].people
  BY <1>4, <1>11, <1>12 DEF Keeps
<1>15. tasks'[k].project = n.project
  BY <1>11, <1>12 DEF Keeps
<1>16. n.projectsThen <= Len(projects') /\ n.tasksThen <= Len(tasks')
       /\ n.project \in DOMAIN projects' /\ n.task \in DOMAIN tasks' /\ Complete(n)
       /\ n.project # 0 /\ n.task # 0
       /\ projects'[n.project].title = Target(n.want)
  <2>1. Len(tasks') = Len(tasks)
    BY <1>4 DEF StoreInv, StoreGrows, Rows
  <2> QED BY <1>3, <1>4, <1>11, <2>1 DEF Complete
<1>17. Reads(h)'
  BY <1>6, <1>10, <1>11, <1>13, <1>14, <1>15, <1>16 DEF Reads
<1>18. \A g \in Handlers : Reads(g)'
  BY <1>4, <1>6, <1>17, ReadsStay DEF StoreInv
<1>19. WholeUnlessCut'
  BY <1>4, <1>6, <1>11, WholeStays DEF StoreInv
<1> QED BY <1>4, <1>6, <1>18, <1>19 DEF StoreInv, StoreGrows

LEMMA TaskReads ==
    ASSUME StoreInv, NEW h \in Handlers, CreateTask(h), wired' = wired
    PROVE  StoreInv' /\ StoreGrows
<1> DEFINE c == capture[h]
           k == Len(tasks) + 1
<1>1. Places' = Places
  BY DEF Places
<1>2. /\ c.at = "write" /\ c # NoCapture /\ c \in Captures
      /\ c.projectsThen <= Len(projects) /\ c.tasksThen <= Len(tasks)
      /\ c.project \in DOMAIN projects /\ c.project # 0 /\ Complete(c)
      /\ projects[c.project].title = Target(c.want)
      /\ c.named = {} /\ c.todo = c.want.people
      /\ h \in DOMAIN capture
      /\ \A i \in DOMAIN tasks :
             tasks[i].project = c.project /\ tasks[i].name = c.want.title /\ ~tasks[i].done
             => i > c.tasksThen
  BY DEF CreateTask, StoreInv, Reads, NoCapture
<1>3. PICK t : t = [name |-> c.want.title, project |-> c.project, deadline |-> c.want.deadline,
                    people |-> {}, done |-> FALSE, audited |-> FALSE, since |-> c.tasksThen,
                    asked |-> c.want.people, place |-> c.want.project,
                    parsed |-> c.parsed, cut |-> FALSE, moved |-> FALSE]
  OBVIOUS
<1>4. t \in TaskRows
  BY <1>2, <1>3 DEF TaskRows, Captures, Slots
<1>5. tasks' = Append(tasks, t) /\ projects' = projects
  BY <1>3 DEF CreateTask
<1>6. /\ tasks' \in Seq(TaskRows) /\ Len(tasks') = k /\ k \in Nat \ {0} /\ k > Len(tasks)
      /\ DOMAIN tasks' = 1..k /\ DOMAIN tasks = 1..(k - 1) /\ tasks'[k] = t
      /\ \A i \in DOMAIN tasks : i \in DOMAIN tasks' /\ tasks'[i] = tasks[i]
  BY <1>4, <1>5 DEF StoreInv, Rows
<1>7. StoreGrows
  <2>1. Rows'
    BY <1>1, <1>5, <1>6 DEF StoreInv, Rows, ProjectRows, TaskRows
  <2> QED BY <1>5, <1>6, <2>1 DEF StoreGrows, Keeps
<1>8. t.since < k
  BY <1>2, <1>3, <1>6 DEF Captures, StoreInv, Rows
<1>9. References'
  <2> SUFFICES ASSUME NEW i \in DOMAIN tasks'
               PROVE  /\ tasks'[i].project \in DOMAIN projects
                      /\ tasks'[i].since < i
                      /\ AsNamed(i)'
    BY <1>5, <1>7 DEF References, StoreGrows
  <2>1. CASE i \in DOMAIN tasks
    BY <1>5, <1>6, <2>1 DEF StoreInv, References, AsNamed
  <2>2. CASE i = k
    BY <1>2, <1>3, <1>5, <1>6, <1>8, <2>2 DEF Complete, Lacking, AsNamed, Target
  <2> QED BY <1>6, <2>1, <2>2
<1>10. ASSUME NEW i \in DOMAIN tasks', NEW j \in DOMAIN tasks', i < j,
              tasks'[i].name = tasks'[j].name, tasks'[i].project = tasks'[j].project,
              ~tasks'[i].done
       PROVE  i > tasks'[j].since
  <2>1. i \in DOMAIN tasks
    BY <1>6, <1>10
  <2>2. CASE j \in DOMAIN tasks
    BY <1>6, <1>10, <2>1, <2>2 DEF StoreInv, NoTwins
  <2>3. CASE j = k
    BY <1>2, <1>3, <1>6, <1>10, <2>1, <2>3
  <2> QED BY <1>6, <2>2, <2>3
<1>11. NoTwins'
  BY <1>5, <1>10 DEF NoTwins, StoreInv
<1>12. PICK n : n = [c EXCEPT !.at = "assign", !.task = Len(tasks')]
  OBVIOUS
<1>13. capture' = [capture EXCEPT ![h] = n] /\ capture'[h] = n
  BY <1>2, <1>12 DEF CreateTask
<1>14. n \in Captures'
  BY <1>1, <1>2, <1>6, <1>12 DEF Captures, Stages, Slots
<1>15. n.want = c.want /\ n.parsed = c.parsed /\ n.at = "assign" /\ n.projectsThen = c.projectsThen
       /\ n.tasksThen = c.tasksThen /\ n.task = k /\ n.project = c.project
       /\ n.named = {} /\ n.todo = c.want.people
  BY <1>2, <1>6, <1>12 DEF Captures
<1>16. n.tasksThen <= Len(tasks') /\ Complete(n)
  BY <1>2, <1>6, <1>15 DEF Captures, Complete
<1>17. Reads(h)'
  BY <1>2, <1>3, <1>5, <1>6, <1>13, <1>14, <1>15, <1>16 DEF Reads
<1>18. \A g \in Handlers : Reads(g)'
  BY <1>7, <1>13, <1>17, ReadsStay DEF StoreInv
<1>19. WholeUnlessCut'
  <2> SUFFICES ASSUME NEW i \in DOMAIN tasks'
               PROVE  \/ \E g \in Handlers : capture'[g].at = "assign" /\ capture'[g].task = i
                      \/ Closed(tasks'[i])
    BY DEF WholeUnlessCut, Closed
  <2>1. CASE i = k
    BY <1>13, <1>15, <2>1
  <2>2. CASE i \in DOMAIN tasks
    <3>1. CASE Closed(tasks[i])
      BY <1>6, <2>2, <3>1
    <3>2. CASE \E g \in Handlers : capture[g].at = "assign" /\ capture[g].task = i
      BY <1>2, <1>13, <3>2 DEF StoreInv
    <3> QED BY <2>2, <3>1, <3>2 DEF StoreInv, WholeUnlessCut, Closed
  <2> QED BY <1>6, <2>1, <2>2
<1> QED BY <1>7, <1>9, <1>11, <1>13, <1>18, <1>19 DEF StoreInv, StoreGrows

LEMMA AuditReads ==
    ASSUME StoreInv, NEW h \in Handlers, AddAudit(h), wired' = wired
    PROVE  StoreInv' /\ StoreGrows
<1> DEFINE c == capture[h]
           k == c.task
<1>1. c.at = "assign" /\ c.todo = <<>> /\ ToSet(c.todo) = {}
  BY DEF AddAudit, ToSet
<1> USE Assigning, <1>1
<1>2. PICK u : u = [tasks[k] EXCEPT !.audited = TRUE]
  OBVIOUS
<1>3. tasks' = [tasks EXCEPT ![k] = u] /\ projects' = projects /\ k \in DOMAIN tasks
  BY <1>2 DEF AddAudit
<1>4. tasks \in [DOMAIN tasks -> TaskRows]
  BY DEF StoreInv, Rows
<1>5. u \in TaskRows /\ Keeps(tasks[k], u) /\ u.audited
  BY <1>2, <1>3, <1>4, Audits
<1>6. \A i \in DOMAIN tasks : Keeps(tasks[i], tasks'[i])
  BY <1>3, <1>4, <1>5 DEF TaskRows, Keeps
<1>7. tasks' \in [DOMAIN tasks -> TaskRows] /\ tasks'[k] = u
  BY <1>3, <1>4, <1>5
<1>8. StoreGrows /\ References' /\ NoTwins' /\ DOMAIN tasks' = DOMAIN tasks
  BY <1>3, <1>6, <1>7, TasksKept
<1>9. PICK n : n = [c EXCEPT !.at = "captured"]
  OBVIOUS
<1>10. capture' = [capture EXCEPT ![h] = n] /\ capture'[h] = n
  BY <1>9 DEF AddAudit
<1>11. Places' = Places
  BY DEF Places
<1>12. n \in Captures'
  BY <1>9, <1>11 DEF Captures, Stages, Slots
<1>13. n.want = c.want /\ n.parsed = c.parsed /\ n.at = "captured" /\ n.projectsThen = c.projectsThen
       /\ n.tasksThen = c.tasksThen /\ n.task = k /\ n.project = c.project
       /\ n.named = c.named
  BY <1>9 DEF Captures
<1>14. n.projectsThen <= Len(projects') /\ n.tasksThen <= Len(tasks')
       /\ n.project \in DOMAIN projects' /\ n.task \in DOMAIN tasks' /\ Complete(n)
       /\ n.project # 0 /\ n.task # 0
       /\ projects'[n.project].title = Target(n.want)
  <2>1. Len(tasks') = Len(tasks)
    BY <1>8 DEF StoreInv, StoreGrows, Rows
  <2> QED BY <1>3, <1>8, <1>13, <2>1 DEF Complete
<1>15. tasks'[k].project = n.project
       /\ (tasks'[k].moved \/ n.named \subseteq tasks'[k].people)
  BY <1>5, <1>7, <1>13 DEF Keeps
<1>16. Reads(h)'
  BY <1>10, <1>12, <1>13, <1>14, <1>15 DEF Reads
<1>17. \A g \in Handlers : Reads(g)'
  BY <1>8, <1>10, <1>16, ReadsStay DEF StoreInv
<1>18. Closed(tasks'[k])
  BY <1>5, <1>7 DEF Closed, Keeps
<1>19. WholeUnlessCut'
  BY <1>8, <1>10, <1>18, WholeStays DEF StoreInv
<1> QED BY <1>8, <1>10, <1>17, <1>19 DEF StoreInv, StoreGrows

(* A cut marks the task that was being written.                             *)
LEMMA CutKeeps ==
    ASSUME StoreInv, UNCHANGED <<projects, wired>>, NEW hs \in SUBSET Handlers, tasks' = CutBy(hs)
    PROVE  /\ StoreGrows /\ References' /\ NoTwins' /\ DOMAIN tasks' = DOMAIN tasks
           /\ \A g \in hs : capture[g].at = "assign" => Closed(tasks'[capture[g].task])
<1> DEFINE torn == {capture[h].task : h \in {g \in hs : capture[g].at = "assign"}}
<1>1. tasks \in [DOMAIN tasks -> TaskRows]
  BY DEF StoreInv, Rows
<1>2. DOMAIN tasks' = DOMAIN tasks
  BY DEF CutBy
<1>3. ASSUME NEW i \in DOMAIN tasks
      PROVE  tasks'[i] \in TaskRows /\ Keeps(tasks[i], tasks'[i]) /\ (i \in torn => tasks'[i].cut)
  <2>1. tasks'[i] = [tasks[i] EXCEPT !.cut = @ \/ i \in torn]
    BY DEF CutBy
  <2>2. PICK b \in BOOLEAN : b <=> i \in torn
    OBVIOUS
  <2>3. tasks[i] \in TaskRows /\ tasks[i].cut \in BOOLEAN
    BY <1>1 DEF TaskRows
  <2>4. tasks'[i] = [tasks[i] EXCEPT !.cut = @ \/ b]
    BY <2>1, <2>2, <2>3
  <2> QED BY <2>2, <2>3, <2>4, Cuts
<1>4. tasks' \in [DOMAIN tasks -> TaskRows]
  <2>1. tasks' = [i \in DOMAIN tasks |-> tasks'[i]]
    BY DEF CutBy
  <2> QED BY <1>3, <2>1
<1>5. \A g \in hs : capture[g].at = "assign" => capture[g].task \in torn
  OBVIOUS
<1>6. \A g \in hs : capture[g].at = "assign" => Closed(tasks'[capture[g].task])
  BY <1>3, <1>5, Assigning DEF Closed
<1> QED BY <1>2, <1>3, <1>4, <1>6, TasksKept

LEMMA RefusedReads ==
    ASSUME StoreInv, NEW h \in Handlers, Refused(h), wired' = wired
    PROVE  StoreInv' /\ StoreGrows
<1> DEFINE c == capture[h]
<1>1. /\ c.at \in Stages /\ c # NoCapture /\ c \in Captures
      /\ c.projectsThen <= Len(projects) /\ c.tasksThen <= Len(tasks)
      /\ c.project \in {0} \cup DOMAIN projects /\ c.task \in {0} \cup DOMAIN tasks
      /\ c.project # 0 => projects[c.project].title = Target(c.want)
      /\ Complete(c) /\ h \in DOMAIN capture
  BY DEF Refused, Running, StoreInv, Reads, NoCapture, Captures
<1>2. /\ StoreGrows /\ References' /\ NoTwins' /\ DOMAIN tasks' = DOMAIN tasks
      /\ c.at = "assign" => Closed(tasks'[c.task])
  BY CutKeeps, {h} \in SUBSET Handlers DEF Refused
<1>3. PICK n : n = [c EXCEPT !.at = "failed"]
  OBVIOUS
<1>4. capture' = [capture EXCEPT ![h] = n] /\ capture'[h] = n /\ projects' = projects
  BY <1>1, <1>3 DEF Refused
<1>5. Places' = Places
  BY DEF Places
<1>6. n \in Captures'
  BY <1>1, <1>3, <1>5 DEF Captures, Stages, Slots
<1>7. n.want = c.want /\ n.parsed = c.parsed /\ n.at = "failed" /\ n.projectsThen = c.projectsThen
       /\ n.tasksThen = c.tasksThen /\ n.task = c.task /\ n.project = c.project
  BY <1>1, <1>3 DEF Captures
<1>8. Len(tasks') = Len(tasks)
  BY <1>2 DEF StoreInv, StoreGrows, Rows
<1>9. Reads(h)'
  BY <1>1, <1>2, <1>4, <1>6, <1>7, <1>8 DEF Reads, Complete
<1>10. \A g \in Handlers : Reads(g)'
  BY <1>2, <1>4, <1>9, ReadsStay DEF StoreInv
<1>11. WholeUnlessCut'
  BY <1>2, <1>4, WholeStays DEF StoreInv
<1> QED BY <1>2, <1>4, <1>10, <1>11 DEF StoreInv, StoreGrows

LEMMA CrashReads ==
    ASSUME StoreInv, UNCHANGED <<projects, wired>>, tasks' = CutBy(Handlers),
           capture' = [h \in Handlers |-> NoCapture]
    PROVE  StoreInv' /\ StoreGrows
<1>1. /\ StoreGrows /\ References' /\ NoTwins' /\ DOMAIN tasks' = DOMAIN tasks
      /\ \A g \in Handlers : capture[g].at = "assign" => Closed(tasks'[capture[g].task])
  BY CutKeeps
<1>2. \A g \in Handlers : Reads(g)'
  BY DEF Reads
<1>3. WholeUnlessCut'
  BY <1>1, WholeStays
<1> QED BY <1>1, <1>2, <1>3 DEF StoreInv, StoreGrows

-----------------------------------------------------------------------------
(* The handlers                                                             *)

Cards == [task : Nat, project : Places, people : SUBSET Known]
Entries == [task : Nat, people : SUBSET Known, card : Nat]

Boxes == [pending  : Slots \cup {None},
          cards    : Seq(Cards),
          merged   : UNION {[T -> Entries] : T \in SUBSET Titles},
          proposed : Nat \cup {None},
          last     : {"proposed", "refused", None},
          wrote    : SUBSET Nat,
          broken   : SUBSET Nat,
          refused  : SUBSET Nat,
          other    : BOOLEAN]

InTurn == {"model", "tool", "merge", "capturing", "stash"}
Turns == [at     : InTurn,
          user   : Users,
          calls  : Seq(CaptureCalls \cup Calls),
          todo   : Seq(Persons),
          rounds : Nat,
          box    : Boxes]

Texts == {"model", "cards", "notice", "fallback"}
Replying == [at : {"answer"}, user : Users, box : Boxes, text : Texts,
             cards : Seq(Cards), proposed : Nat \cup {None}]

Dispatches == [at : {"dispatch", "dispatched"}, user : Users, calls : Seq(Wants)]

InDialogue == {"ask", "finalize", "finalizing"}
Dialogues == [at : InDialogue, user : Users, args : Slots]

Showing == {"options", "state", "send"}
(* The options of a field are titles of projects, or people.                *)
Offers(field, options) ==
    /\ field = "project" => options \in Seq(Places)
    /\ field = "people" => options \in Seq(ToSet(People))

Job(h) ==
    LET r == run[h] IN
    /\ r.at \in {"idle", "dispatch", "dispatched", "answer", "fill"}
                    \cup InTurn \cup InDialogue \cup Showing
    /\ r.at = "idle" => r = Idle
    /\ r.at \in InTurn => r \in Turns /\ wired
    /\ r.at = "stash" => r.box.pending # None
    /\ r.at \in {"merge", "capturing"} =>
           r.calls # <<>> /\ Head(r.calls).tool = "capture_task"
    /\ r.at = "merge" => Head(r.calls).want.title \in DOMAIN r.box.merged
    /\ r.at = "answer" => r \in Replying
    /\ r.at \in {"dispatch", "dispatched"} => r \in Dispatches
    /\ r.at = "dispatched" => r.calls # <<>>
    /\ r.at \in InDialogue => r \in Dialogues
    /\ r.at \in {"finalize", "finalizing"} => Missing(r.args) = {}
    /\ r.at = "fill" => {"user", "args"} \subseteq DOMAIN r /\ r.user \in Users /\ r.args \in Slots
    /\ r.at \in Showing =>
           /\ {"at", "user", "field", "options", "args"} \subseteq DOMAIN r
           /\ r.user \in Users /\ Offers(r.field, r.options)
    /\ capture[h] # NoCapture <=> r.at \in {"capturing", "dispatched", "finalizing"}

Dialogue ==
    /\ DOMAIN fsm = Users
    /\ \A u \in Users :
           /\ {"capture", "options", "typing"} \subseteq DOMAIN fsm[u]
           /\ fsm[u].capture \in Slots
           /\ DOMAIN fsm[u].options = Fields
           /\ \A f \in Fields : Offers(f, fsm[u].options[f])

JobInv ==
    /\ wired \in BOOLEAN /\ DOMAIN run = Handlers
    /\ (\A h \in Handlers : Job(h)) /\ Dialogue

-----------------------------------------------------------------------------
(* The members of the sets above                                            *)

LEMMA ListOfPersons ==
    ASSUME NEW l \in Lists
    PROVE  l \in Seq(Persons)
<1>1. ToSet(l) \subseteq Persons
  BY DEF Persons
<1>2. l \in Seq(ToSet(l))
  <2>1. CASE l \in {w.people : w \in Wants}
    BY <2>1, CaptureAssumption
  <2>2. CASE l \in {<<p>> : p \in ToSet(People)}
    <3>1. PICK p \in ToSet(People) : l = <<p>>
      BY <2>2
    <3> QED BY <3>1 DEF ToSet
  <2>3. CASE l = <<>>
    BY <2>3
  <2> QED BY <2>1, <2>2, <2>3 DEF Lists
<1> QED BY <1>1, <1>2

LEMMA WantedSlots ==
    ASSUME NEW w \in Wants
    PROVE  w \in Slots
<1>1. w = [title |-> w.title, project |-> w.project, people |-> w.people, deadline |-> w.deadline]
  BY CaptureAssumption
<1>2. w.title \in Titles /\ w.project \in Places /\ w.people \in Lists /\ w.deadline \in Deadlines
  BY DEF Titles, Places, Named, Lists, Deadlines
<1> QED BY <1>1, <1>2 DEF Slots

LEMMA NothingMissing ==
    ASSUME NEW w \in Slots, Missing(w) = {}
    PROVE  ~Lacking(w)
BY DEF Missing, Fields, Lacking

LEMMA WantedCall ==
    ASSUME NEW c \in CaptureCalls \cup Calls, c.tool = "capture_task"
    PROVE  c.want \in Wants
BY CaptureAssumption DEF CaptureCalls

LEMMA EmptyBox == NewBox \in Boxes
<1>1. <<>> \in [{} -> Entries]
  OBVIOUS
<1>2. <<>> \in UNION {[T -> Entries] : T \in SUBSET Titles}
  BY <1>1
<1>3. <<>> \in Seq(Cards)
  OBVIOUS
<1> QED BY <1>2, <1>3 DEF NewBox, Boxes

-----------------------------------------------------------------------------
(* The steps of the handlers                                                *)

LEMMA DialogueStays ==
    ASSUME Dialogue, UNCHANGED <<wired, fsm>>
    PROVE  Dialogue'
BY DEF Dialogue, Slots, Places, Offers

LEMMA JobStays ==
    ASSUME JobInv, wired' = wired, NEW h \in Handlers, NEW r, run' = [run EXCEPT ![h] = r],
           \A g \in Handlers \ {h} : capture'[g] = capture[g], Dialogue', Job(h)'
    PROVE  JobInv'
<1>1. Places' = Places
  BY DEF Places
<1>2. ASSUME NEW g \in Handlers, g # h PROVE Job(g)'
  <2>1. run'[g] = run[g] /\ capture'[g] = capture[g]
    BY <1>2 DEF JobInv
  <2>2. Job(g)
    BY DEF JobInv
  <2>3. Slots' = Slots /\ Cards' = Cards
    BY <1>1 DEF Slots, Cards
  <2>4. Boxes' = Boxes
    BY <2>3 DEF Boxes
  <2> QED BY <1>1, <2>1, <2>2, <2>3, <2>4
          DEF Job, Turns, Replying, Dialogues, Offers
<1> QED BY <1>2 DEF JobInv

(* The sets do not change: whether there is an agent is fixed.              *)
LEMMA SetsStay ==
    ASSUME wired' = wired
    PROVE  /\ Places' = Places /\ Slots' = Slots /\ Cards' = Cards /\ Boxes' = Boxes
           /\ Turns' = Turns /\ Replying' = Replying /\ Dialogues' = Dialogues
<1>1. Places' = Places
  BY DEF Places
<1>2. Slots' = Slots /\ Cards' = Cards
  BY <1>1 DEF Slots, Cards
<1>3. Boxes' = Boxes
  BY <1>2 DEF Boxes
<1> QED BY <1>1, <1>2, <1>3 DEF Turns, Replying, Dialogues

(* After a call the turn goes on, with the toolbox as the call leaves it.    *)
LEMMA ResultJob ==
    ASSUME JobInv, UNCHANGED <<wired, fsm>>, NEW h \in Handlers,
           run[h].at \in {"tool", "merge", "capturing"}, run[h].calls # <<>>,
           NEW box \in Boxes, Result(h, box), capture'[h] = NoCapture,
           \A g \in Handlers \ {h} : capture'[g] = capture[g]
    PROVE  /\ JobInv'
           /\ run'[h] \in Turns /\ run'[h].box = box /\ run'[h].at \in {"model", "tool"}
           /\ \A g \in Handlers \ {h} : run'[g] = run[g]
<1>1. run[h] \in Turns /\ wired /\ h \in DOMAIN run
  BY DEF JobInv, Job, InTurn
<1>2. PICK at : at = IF Len(run[h].calls) = 1 THEN "model" ELSE "tool"
  OBVIOUS
<1>3. PICK r : r = [run[h] EXCEPT !.at = at, !.calls = Tail(run[h].calls), !.box = box]
  OBVIOUS
<1>4. run' = [run EXCEPT ![h] = r] /\ run'[h] = r
  BY <1>1, <1>2, <1>3 DEF Result
<1>5. Tail(run[h].calls) \in Seq(CaptureCalls \cup Calls)
  BY <1>1, HeadTail DEF Turns
<1>6. r \in Turns /\ r.at \in {"model", "tool"} /\ r.box = box
  BY <1>1, <1>2, <1>3, <1>5 DEF Turns, InTurn
<1>7. Job(h)'
  BY <1>1, <1>4, <1>6, SetsStay DEF Job, InTurn, InDialogue, Showing
<1>8. Dialogue'
  BY DialogueStays DEF JobInv
<1> QED BY <1>4, <1>6, <1>7, <1>8, JobStays DEF JobInv

LEMMA RunStays ==
    ASSUME JobInv, UNCHANGED <<wired, run>>, Dialogue',
           \A g \in Handlers : capture'[g] = NoCapture <=> capture[g] = NoCapture
    PROVE  JobInv'
<1> SUFFICES ASSUME NEW g \in Handlers PROVE Job(g)'
  BY DEF JobInv
<1>1. Job(g) /\ run'[g] = run[g]
  BY DEF JobInv
<1> QED BY <1>1, SetsStay DEF Job, Offers

(* A turn that has begun, and what a step of it leaves.                      *)
LEMMA Turning ==
    ASSUME JobInv, NEW h \in Handlers, run[h].at \in InTurn
    PROVE  /\ run[h] \in Turns /\ wired /\ h \in DOMAIN run /\ run[h].box \in Boxes
           /\ run[h].user \in Users /\ run[h].calls \in Seq(CaptureCalls \cup Calls)
           /\ run[h].at # "capturing" => capture[h] = NoCapture
BY DEF JobInv, Job, InTurn, Turns

LEMMA TurnJob ==
    ASSUME JobInv, UNCHANGED <<wired, fsm>>, NEW h \in Handlers, wired,
           NEW r \in Turns, run' = [run EXCEPT ![h] = r],
           \A g \in Handlers \ {h} : capture'[g] = capture[g],
           r.at = "stash" => r.box.pending # None,
           r.at \in {"merge", "capturing"} =>
               r.calls # <<>> /\ Head(r.calls).tool = "capture_task",
           r.at = "merge" => Head(r.calls).want.title \in DOMAIN r.box.merged,
           capture'[h] # NoCapture <=> r.at = "capturing"
    PROVE  JobInv'
<1>1. run'[h] = r /\ r.at \in InTurn
  BY DEF JobInv, Turns
<1>2. Job(h)'
  BY <1>1, SetsStay DEF Job, InTurn, InDialogue, Showing
<1>3. Dialogue'
  BY DialogueStays DEF JobInv
<1> QED BY <1>2, <1>3, JobStays

LEMMA IdleJob ==
    ASSUME JobInv, wired' = wired, Dialogue', NEW h \in Handlers,
           run' = [run EXCEPT ![h] = Idle], capture'[h] = NoCapture,
           \A g \in Handlers \ {h} : capture'[g] = capture[g]
    PROVE  JobInv'
<1>1. run'[h] = Idle
  BY DEF JobInv
<1>2. Job(h)'
  BY <1>1 DEF Job, Idle, InTurn, InDialogue, Showing
<1> QED BY <1>2, JobStays

LEMMA MessageJob ==
    ASSUME JobInv, NEW h \in Handlers, NEW u \in Users, Message(h, u)
    PROVE  JobInv'
<1>1. wired' = wired /\ fsm' = fsm /\ capture' = capture /\ Dialogue'
  BY DialogueStays DEF Message, store, JobInv
<1>2. capture[h] = NoCapture /\ h \in DOMAIN run
  BY DEF Message, JobInv, Job, Idle
<1>3. CASE /\ wired
           /\ run' = [run EXCEPT ![h] = [at |-> "model", user |-> u, calls |-> <<>>,
                                         todo |-> <<>>, rounds |-> 0, box |-> NewBox]]
  <2>1. PICK r : r = [at |-> "model", user |-> u, calls |-> <<>>, todo |-> <<>>,
                      rounds |-> 0, box |-> NewBox]
    OBVIOUS
  <2>2. run' = [run EXCEPT ![h] = r]
    BY <1>3, <2>1
  <2>3. <<>> \in Seq(CaptureCalls \cup Calls) /\ <<>> \in Seq(Persons)
    OBVIOUS
  <2>4. r \in Turns /\ r.at = "model"
    BY <2>1, <2>3, EmptyBox DEF Turns, InTurn
  <2> QED BY <1>1, <1>2, <1>3, <2>2, <2>4, TurnJob
<1>4. CASE \E wants \in Answers(Wants) :
               run' = [run EXCEPT ![h] = [at |-> "dispatch", user |-> u, calls |-> wants]]
  <2>1. PICK wants \in Answers(Wants) :
            run' = [run EXCEPT ![h] = [at |-> "dispatch", user |-> u, calls |-> wants]]
    BY <1>4
  <2>2. PICK r : r = [at |-> "dispatch", user |-> u, calls |-> wants]
    OBVIOUS
  <2>3. r \in Dispatches /\ r.at = "dispatch" /\ run'[h] = r
    BY <1>2, <2>1, <2>2, CaptureAssumption DEF Dispatches
  <2>4. Job(h)'
    BY <1>1, <1>2, <2>3 DEF Job, InTurn, InDialogue, Showing
  <2> QED BY <1>1, <2>1, <2>2, <2>4, JobStays
<1> QED BY <1>3, <1>4 DEF Message

LEMMA ThinkJob ==
    ASSUME JobInv, NEW h \in Handlers, Think(h)
    PROVE  JobInv'
<1>1. run[h].at = "model" /\ run[h].at \in InTurn /\ UNCHANGED <<wired, fsm, capture>>
  BY DEF Think, InTurn, store
<1>2. PICK calls \in Answers(CaptureCalls \cup Calls) :
          run' = [run EXCEPT ![h].at = "tool", ![h].calls = calls, ![h].rounds = @ + 1]
  BY DEF Think
<1>3. run[h] \in Turns /\ wired /\ h \in DOMAIN run /\ capture[h] = NoCapture
  BY <1>1, Turning
<1>4. calls \in Seq(CaptureCalls \cup Calls)
  BY CaptureAssumption
<1>5. PICK n \in Nat : n = run[h].rounds + 1
  BY <1>3 DEF Turns
<1>6. PICK r : r = [run[h] EXCEPT !.at = "tool", !.calls = calls, !.rounds = n]
  OBVIOUS
<1>7. run' = [run EXCEPT ![h] = r]
  BY <1>2, <1>3, <1>5, <1>6
<1>8. r \in Turns /\ r.at = "tool"
  BY <1>3, <1>4, <1>6 DEF Turns, InTurn
<1> QED BY <1>1, <1>3, <1>7, <1>8, TurnJob

(* The calls with a result, and the toolbox each of them leaves.             *)
LEMMA PendingBox ==
    ASSUME NEW box \in Boxes, NEW w \in Slots
    PROVE  [box EXCEPT !.pending = w] \in Boxes
BY DEF Boxes

LEMMA PlanBoxes ==
    ASSUME NEW box \in Boxes, NEW p \in Nat \cup {None}, NEW l \in {"proposed", "refused"}
    PROVE  [box EXCEPT !.proposed = p, !.last = l] \in Boxes
BY DEF Boxes

LEMMA OtherBox ==
    ASSUME NEW box \in Boxes
    PROVE  [box EXCEPT !.other = TRUE] \in Boxes
BY DEF Boxes

LEMMA BrokenBox ==
    ASSUME NEW box \in Boxes, NEW torn \in SUBSET Nat
    PROVE  [box EXCEPT !.wrote = @ \cup torn, !.broken = @ \cup torn] \in Boxes
BY DEF Boxes

(* Cards of which one has these people.                                     *)
CardWith(cards, k, people) == [cards EXCEPT ![k].people = people]

LEMMA CardPeople ==
    ASSUME NEW cards \in Seq(Cards), NEW k, NEW people \in SUBSET Known, NEW new,
           new = CardWith(cards, k, people)
    PROVE  /\ new \in Seq(Cards) /\ DOMAIN new = DOMAIN cards
           /\ \A i \in DOMAIN cards :
                  /\ new[i].task = cards[i].task /\ new[i].project = cards[i].project
                  /\ new[i].people = IF i = k THEN people ELSE cards[i].people
<1>1. PICK c : c = [cards[k] EXCEPT !.people = people]
  OBVIOUS
<1>2. new = [cards EXCEPT ![k] = c]
  BY <1>1 DEF CardWith
<1>3. CASE k \in DOMAIN cards
  <2>1. cards[k] \in Cards
    BY <1>3
  <2>2. c \in Cards /\ c.task = cards[k].task /\ c.project = cards[k].project /\ c.people = people
    BY <1>1, <2>1 DEF Cards
  <2> QED BY <1>2, <1>3, <2>2
<1>4. CASE k \notin DOMAIN cards
  <2>1. new = cards
    BY <1>2, <1>4
  <2> QED BY <1>4, <2>1
<1> QED BY <1>3, <1>4

LEMMA ShownBox ==
    ASSUME NEW box \in Boxes, NEW k, NEW people \in SUBSET Known, NEW refused \in SUBSET Nat
    PROVE  [box EXCEPT !.cards[k].people = people, !.refused = refused] \in Boxes
<1>1. PICK cards : cards = CardWith(box.cards, k, people)
  OBVIOUS
<1>2. cards \in Seq(Cards)
  BY <1>1, CardPeople DEF Boxes
<1>3. [box EXCEPT !.cards[k].people = people, !.refused = refused]
          = [box EXCEPT !.cards = cards, !.refused = refused]
  BY <1>1 DEF CardWith
<1>4. [box EXCEPT !.cards = cards, !.refused = refused] \in Boxes
  BY <1>2 DEF Boxes
<1> QED BY <1>3, <1>4

(* A toolbox with a card more.                                              *)
WithCard(box, card, entry, title, task) ==
    [box EXCEPT
        !.cards  = Append(@, card),
        !.merged = [t \in DOMAIN @ \cup {title} |-> IF t = title THEN entry ELSE @[t]],
        !.wrote  = @ \cup {task}]

LEMMA NewCardBox ==
    ASSUME NEW box \in Boxes, NEW card \in Cards, NEW entry \in Entries, NEW title \in Titles,
           NEW task \in Nat, NEW new, new = WithCard(box, card, entry, title, task)
    PROVE  /\ new \in Boxes
           /\ new.cards = Append(box.cards, card)
           /\ DOMAIN new.merged = DOMAIN box.merged \cup {title}
           /\ \A t \in DOMAIN new.merged :
                  new.merged[t] = IF t = title THEN entry ELSE box.merged[t]
           /\ new.wrote = box.wrote \cup {task} /\ new.broken = box.broken
           /\ new.last = box.last /\ new.proposed = box.proposed
           /\ new.refused = box.refused
<1>1. PICK T \in SUBSET Titles : box.merged \in [T -> Entries]
  BY DEF Boxes
<1>2. PICK merged : merged = [t \in DOMAIN box.merged \cup {title} |->
                                  IF t = title THEN entry ELSE box.merged[t]]
  OBVIOUS
<1>3. merged \in [T \cup {title} -> Entries] /\ T \cup {title} \in SUBSET Titles
  BY <1>1, <1>2
<1>4. merged \in UNION {[S -> Entries] : S \in SUBSET Titles}
  BY <1>3
<1>5. Append(box.cards, card) \in Seq(Cards) /\ box.wrote \cup {task} \in SUBSET Nat
  BY DEF Boxes
<1>6. new = [box EXCEPT !.cards = Append(box.cards, card), !.merged = merged,
                        !.wrote = box.wrote \cup {task}]
  BY <1>2 DEF WithCard
<1>7. /\ new \in Boxes /\ new.cards = Append(box.cards, card) /\ new.merged = merged
      /\ new.wrote = box.wrote \cup {task} /\ new.broken = box.broken
      /\ new.last = box.last /\ new.proposed = box.proposed /\ new.refused = box.refused
  BY <1>4, <1>5, <1>6 DEF Boxes
<1> QED BY <1>2, <1>7

LEMMA Calling ==
    ASSUME JobInv, NEW h \in Handlers, run[h].at = "tool", run[h].calls # <<>>
    PROVE  /\ run[h].at \in InTurn /\ run[h] \in Turns /\ wired /\ h \in DOMAIN run
           /\ Box(h) \in Boxes /\ capture[h] = NoCapture
           /\ Head(run[h].calls) \in CaptureCalls \cup Calls
           /\ Head(run[h].calls).tool = "capture_task" =>
                  Wanted(h) \in Wants /\ Wanted(h) \in Slots /\ Wanted(h).people \in Seq(Persons)
<1>1. run[h].at \in InTurn
  BY DEF InTurn
<1>2. Head(run[h].calls) \in CaptureCalls \cup Calls
  BY <1>1, Turning, HeadTail
<1>3. ASSUME Head(run[h].calls).tool = "capture_task"
      PROVE  Wanted(h) \in Wants /\ Wanted(h) \in Slots /\ Wanted(h).people \in Seq(Persons)
  <2>1. Wanted(h) \in Wants
    BY <1>2, <1>3, WantedCall DEF Wanted
  <2> QED BY <2>1, WantedSlots, ListOfPersons DEF Lists
<1> QED BY <1>1, <1>2, <1>3, Turning DEF Box

(* The calls that write no task of their own.                               *)
PlainCall(h) ==
    \/ CallWithoutEffect(h) \/ CapturePending(h) \/ PlanProject(h)
    \/ AssignTask(h) \/ MarkTaskDone(h) \/ SetVacation(h)

LEMMA PlainCalls ==
    ASSUME JobInv, NEW h \in Handlers, PlainCall(h)
    PROVE  /\ UNCHANGED <<capture, wired, fsm>>
           /\ run[h].at = "tool" /\ run[h].calls # <<>>
           /\ \E box \in Boxes :
                  /\ Result(h, box)
                  /\ \/ box = Box(h)
                     \/ box = [Box(h) EXCEPT !.other = TRUE]
                     \/ \E w \in Slots : box = [Box(h) EXCEPT !.pending = w]
                     \/ \E p \in Nat \cup {None} : \E l \in {"proposed", "refused"} :
                            /\ box = [Box(h) EXCEPT !.proposed = p, !.last = l]
                            /\ l = "proposed" => p \in Nat
<1>1. UNCHANGED <<capture, wired, fsm>> /\ run[h].at = "tool" /\ run[h].calls # <<>>
  BY DEF PlainCall, CallWithoutEffect, CapturePending, PlanProject, AssignTask, MarkTaskDone,
         SetVacation, Call, store
<1>2. Box(h) \in Boxes
  BY <1>1, Calling
<1>3. CASE CallWithoutEffect(h) \/ AssignTask(h) \/ MarkTaskDone(h) \/ SetVacation(h)
  <2>1. Result(h, Box(h)) \/ Result(h, [Box(h) EXCEPT !.other = TRUE])
    BY <1>3 DEF CallWithoutEffect, AssignTask, MarkTaskDone, SetVacation, Wrote
  <2> QED BY <1>1, <1>2, <2>1, OtherBox
<1>4. CASE CapturePending(h)
  <2>1. Wanted(h) \in Slots
    BY <1>1, <1>4, Calling DEF CapturePending, Call
  <2>2. Result(h, [Box(h) EXCEPT !.pending = Wanted(h)])
    BY <1>4 DEF CapturePending
  <2> QED BY <1>1, <1>2, <2>1, <2>2, PendingBox
<1>5. CASE PlanProject(h)
  <2>1. PICK outcome \in {"proposed", "refused", "failed"} :
            /\ projects' = IF outcome = "refused" THEN projects
                           ELSE Append(projects, [title |-> Head(run[h].calls).title,
                                                  stub |-> FALSE, since |-> Len(projects)])
            /\ Result(h, CASE outcome = "proposed" ->
                                [Box(h) EXCEPT !.proposed = Len(projects'), !.last = outcome]
                           [] outcome = "refused" ->
                                [Box(h) EXCEPT !.proposed = None, !.last = outcome]
                           [] outcome = "failed" -> Box(h))
    BY <1>5 DEF PlanProject
  <2>2. CASE outcome = "failed"
    BY <1>1, <1>2, <2>1, <2>2
  <2>3. CASE outcome = "refused"
    <3>1. Result(h, [Box(h) EXCEPT !.proposed = None, !.last = "refused"])
      BY <2>1, <2>3
    <3> QED BY <1>1, <1>2, <3>1, PlanBoxes
  <2>4. CASE outcome = "proposed"
    <3>1. Result(h, [Box(h) EXCEPT !.proposed = Len(projects'), !.last = "proposed"])
      BY <2>1, <2>4
    <3>2. Len(projects') \in Nat
      <4>1. projects' = Append(projects, [title |-> Head(run[h].calls).title,
                                                  stub |-> FALSE, since |-> Len(projects)])
        BY <2>1, <2>4
      <4> QED BY <4>1
    <3> QED BY <1>1, <1>2, <3>1, <3>2, PlanBoxes
  <2> QED BY <2>1, <2>2, <2>3, <2>4
<1> QED BY <1>3, <1>4, <1>5 DEF PlainCall

LEMMA PlainJob ==
    ASSUME JobInv, NEW h \in Handlers, PlainCall(h)
    PROVE  JobInv'
<1>1. UNCHANGED <<capture, wired, fsm>> /\ run[h].at = "tool" /\ run[h].calls # <<>>
  BY PlainCalls
<1>2. capture[h] = NoCapture
  BY <1>1, Calling
<1>3. PICK box \in Boxes : Result(h, box)
  BY PlainCalls
<1> QED BY <1>1, <1>2, <1>3, ResultJob

LEMMA AgainJob ==
    ASSUME JobInv, NEW h \in Handlers, CaptureAgain(h)
    PROVE  JobInv'
<1>1. run[h].at = "tool" /\ run[h].calls # <<>> /\ Head(run[h].calls).tool = "capture_task"
      /\ Wanted(h).title \in DOMAIN Box(h).merged /\ UNCHANGED <<wired, fsm, capture>>
  BY DEF CaptureAgain, Call, store
<1> USE Calling, <1>1
<1>2. PICK r : r = [run[h] EXCEPT !.at = "merge", !.todo = Wanted(h).people]
  OBVIOUS
<1>3. run' = [run EXCEPT ![h] = r]
  BY <1>2 DEF CaptureAgain
<1>4. /\ r \in Turns /\ r.at = "merge" /\ r.calls = run[h].calls /\ r.box = Box(h)
  BY <1>2 DEF Turns, InTurn, Box
<1> QED BY <1>3, <1>4, TurnJob DEF Wanted

LEMMA NewJob ==
    ASSUME JobInv, DOMAIN capture = Handlers, NEW h \in Handlers, CaptureNew(h)
    PROVE  JobInv'
<1>1. run[h].at = "tool" /\ run[h].calls # <<>> /\ Head(run[h].calls).tool = "capture_task"
      /\ UNCHANGED <<wired, fsm>>
  BY DEF CaptureNew, Call
<1> USE Calling, <1>1
<1>2. PICK r : r = [run[h] EXCEPT !.at = "capturing"]
  OBVIOUS
<1>3. run' = [run EXCEPT ![h] = r]
  BY <1>2 DEF CaptureNew, To
<1>4. r \in Turns /\ r.at = "capturing" /\ r.calls = run[h].calls
  BY <1>2 DEF Turns, InTurn
<1>5. capture'[h] # NoCapture /\ \A g \in Handlers \ {h} : capture'[g] = capture[g]
  BY DEF CaptureNew, Execute, NoCapture
<1> QED BY <1>3, <1>4, <1>5, TurnJob

(* A toolbox whose entry of a title has these people.                       *)
WithPeople(box, title, people) == [box EXCEPT !.merged[title].people = people]

LEMMA MergedBox ==
    ASSUME NEW box \in Boxes, NEW title \in DOMAIN box.merged, NEW people \in SUBSET Known,
           NEW new, new = WithPeople(box, title, people)
    PROVE  /\ new \in Boxes /\ DOMAIN new.merged = DOMAIN box.merged
           /\ \A t \in DOMAIN box.merged :
                  /\ new.merged[t].task = box.merged[t].task
                  /\ new.merged[t].card = box.merged[t].card
                  /\ new.merged[t].people = IF t = title THEN people ELSE box.merged[t].people
           /\ new.cards = box.cards /\ new.wrote = box.wrote /\ new.broken = box.broken
           /\ new.last = box.last /\ new.proposed = box.proposed
           /\ new.refused = box.refused
<1>1. PICK T \in SUBSET Titles : box.merged \in [T -> Entries]
  BY DEF Boxes
<1>2. PICK e : e = [box.merged[title] EXCEPT !.people = people]
  OBVIOUS
<1>3. box.merged[title] \in Entries
  BY <1>1
<1>4. e \in Entries /\ e.task = box.merged[title].task /\ e.card = box.merged[title].card
      /\ e.people = people
  BY <1>2, <1>3 DEF Entries
<1>5. PICK merged : merged = [box.merged EXCEPT ![title] = e]
  OBVIOUS
<1>6. new = [box EXCEPT !.merged = merged]
  BY <1>2, <1>5 DEF WithPeople
<1>7. merged \in [T -> Entries]
  BY <1>1, <1>4, <1>5
<1>8. merged \in UNION {[S -> Entries] : S \in SUBSET Titles}
  BY <1>7
<1>9. new \in Boxes /\ new.merged = merged /\ new.cards = box.cards /\ new.wrote = box.wrote
      /\ new.broken = box.broken /\ new.last = box.last /\ new.proposed = box.proposed
      /\ new.refused = box.refused
  BY <1>6, <1>8 DEF Boxes
<1>10. \A t \in DOMAIN box.merged :
           merged[t] = IF t = title THEN e ELSE box.merged[t]
  BY <1>5
<1>11. DOMAIN merged = DOMAIN box.merged
  BY <1>5
<1> QED BY <1>4, <1>9, <1>10, <1>11

(* A turn that is putting people on a task it has.                          *)
LEMMA Merging ==
    ASSUME JobInv, NEW h \in Handlers, run[h].at = "merge"
    PROVE  /\ run[h].at \in InTurn /\ run[h] \in Turns /\ wired /\ h \in DOMAIN run
           /\ Box(h) \in Boxes /\ run[h].box = Box(h) /\ capture[h] = NoCapture
           /\ run[h].calls # <<>> /\ Head(run[h].calls).tool = "capture_task"
           /\ Wanted(h).title \in DOMAIN Box(h).merged
           /\ Entry(h) \in Entries
<1>1. run[h].at \in InTurn
  BY DEF InTurn
<1>2. /\ run[h] \in Turns /\ wired /\ h \in DOMAIN run /\ run[h].box \in Boxes
      /\ capture[h] = NoCapture
  BY <1>1, Turning
<1>3. /\ run[h].calls # <<>> /\ Head(run[h].calls).tool = "capture_task"
      /\ Wanted(h).title \in DOMAIN Box(h).merged
  BY DEF JobInv, Job, Wanted, Box
<1>4. PICK T \in SUBSET Titles : Box(h).merged \in [T -> Entries]
  BY <1>2 DEF Boxes, Box
<1>5. Entry(h) \in Entries
  BY <1>3, <1>4 DEF Entry
<1> QED BY <1>1, <1>2, <1>3, <1>5 DEF Box

LEMMA MergePersonBox ==
    ASSUME JobInv, NEW h \in Handlers, MergePerson(h)
    PROVE  \E who \in SUBSET Known, box \in Boxes, r \in Turns :
               /\ tasks' = [tasks EXCEPT ![Entry(h).task].people = @ \cup who]
               /\ box = WithPeople(Box(h), Wanted(h).title, Entry(h).people \cup who)
               /\ run' = [run EXCEPT ![h] = r] /\ r.box = box /\ r.at = "merge"
               /\ r.calls = run[h].calls
<1>1. run[h].at = "merge" /\ run[h].todo # <<>>
  BY DEF MergePerson
<1> USE Merging, <1>1
<1>2. PICK who \in SUBSET Known : who = ({Head(run[h].todo)} \cap Known) \ Entry(h).people
  OBVIOUS
<1>3. Entry(h).people \cup who \in SUBSET Known
  BY <1>2 DEF Entries
<1>4. PICK box : box = WithPeople(Box(h), Wanted(h).title, Entry(h).people \cup who)
  OBVIOUS
<1>5. box \in Boxes
  BY <1>3, <1>4, MergedBox
<1>6. PICK r : r = [run[h] EXCEPT !.todo = Tail(run[h].todo), !.box = box]
  OBVIOUS
<1>7. run' = [run EXCEPT ![h] = r]
  <2>1. run' = [run EXCEPT ![h].todo = Tail(@),
                           ![h].box.merged[Wanted(h).title].people = @ \cup who]
    BY <1>2 DEF MergePerson
  <2>2. run[h].box.merged[Wanted(h).title].people = Entry(h).people
    BY DEF Entry
  <2> QED BY <1>4, <1>6, <2>1, <2>2 DEF WithPeople
<1>8. Tail(run[h].todo) \in Seq(Persons)
  BY HeadTail DEF Turns
<1>9. r \in Turns /\ r.box = box /\ r.at = "merge" /\ r.calls = run[h].calls
  BY <1>5, <1>6, <1>8 DEF Turns
<1>10. tasks' = [tasks EXCEPT ![Entry(h).task].people = @ \cup who]
  BY <1>2 DEF MergePerson
<1> QED BY <1>2, <1>4, <1>5, <1>7, <1>9, <1>10

LEMMA MergePersonJob ==
    ASSUME JobInv, NEW h \in Handlers, MergePerson(h)
    PROVE  JobInv'
<1>1. run[h].at = "merge" /\ UNCHANGED <<capture, wired, fsm>>
  BY DEF MergePerson
<1>2. PICK who \in SUBSET Known, box \in Boxes, r \in Turns :
          /\ tasks' = [tasks EXCEPT ![Entry(h).task].people = @ \cup who]
          /\ box = WithPeople(Box(h), Wanted(h).title, Entry(h).people \cup who)
          /\ run' = [run EXCEPT ![h] = r] /\ r.box = box /\ r.at = "merge"
          /\ r.calls = run[h].calls
  BY MergePersonBox, Zenon
<1> USE Merging, <1>1
<1>3. Entry(h).people \cup who \in SUBSET Known
  BY DEF Entries
<1>4. DOMAIN box.merged = DOMAIN Box(h).merged
  BY <1>2, <1>3, MergedBox
<1> QED BY <1>2, <1>4, TurnJob DEF Wanted

LEMMA MergeEndJob ==
    ASSUME JobInv, NEW h \in Handlers, MergeShown(h) \/ MergeRefused(h)
    PROVE  JobInv'
<1>1. run[h].at = "merge" /\ UNCHANGED <<capture, wired, fsm>>
  BY DEF MergeShown, MergeRefused, store
<1> USE Merging, <1>1
<1>2. CASE MergeRefused(h)
  <2>0. Box(h).refused \in SUBSET Nat /\ Entry(h).card \in Nat
    BY <1>2 DEF Boxes, Entries
  <2>1. PICK refused \in SUBSET Nat : refused = Box(h).refused \cup {Entry(h).card}
    BY <2>0
  <2>2. PICK box : box = [Box(h) EXCEPT !.refused = refused]
    OBVIOUS
  <2>3. box \in Boxes
    BY <2>2 DEF Boxes
  <2> QED BY <1>2, <2>1, <2>2, <2>3, ResultJob DEF MergeRefused
<1>3. CASE MergeShown(h)
  <2>1. PICK refused \in SUBSET Nat : refused = Box(h).refused \ {Entry(h).card}
    BY DEF Boxes
  <2>2. PICK box : box = [Box(h) EXCEPT !.cards[Entry(h).card].people = Entry(h).people,
                                        !.refused = refused]
    OBVIOUS
  <2>3. box \in Boxes
    BY <2>2, ShownBox DEF Entries
  <2> QED BY <1>3, <2>1, <2>2, <2>3, ResultJob DEF MergeShown
<1> QED BY <1>2, <1>3

(* A turn whose capture has come to an end.                                 *)
LEMMA Capturing ==
    ASSUME StoreInv, JobInv, NEW h \in Handlers, run[h].at = "capturing"
    PROVE  /\ run[h] \in Turns /\ wired /\ h \in DOMAIN run
           /\ Box(h) \in Boxes /\ run[h].box = Box(h)
           /\ run[h].calls # <<>> /\ Head(run[h].calls).tool = "capture_task"
           /\ Wanted(h).title \in Titles
           /\ capture[h] \in Captures /\ capture[h].task \in Nat
           /\ capture[h].at = "captured" => CardOf(h) \in Cards /\ EntryOf(h) \in Entries
<1>1. run[h].at \in InTurn
  BY DEF InTurn
<1>2. /\ run[h] \in Turns /\ wired /\ h \in DOMAIN run /\ run[h].box \in Boxes
      /\ run[h].calls \in Seq(CaptureCalls \cup Calls)
  BY <1>1, Turning
<1>3. run[h].calls # <<>> /\ Head(run[h].calls).tool = "capture_task" /\ capture[h] # NoCapture
  BY DEF JobInv, Job
<1>4. Wanted(h).title \in Titles
  <2>1. Wanted(h) \in Wants
    BY <1>2, <1>3, HeadTail, WantedCall DEF Wanted
  <2> QED BY <2>1 DEF Titles
<1>5. capture[h] \in Captures /\ capture[h].task \in Nat /\ capture[h].named \in SUBSET Known
  BY <1>3 DEF StoreInv, Reads, Captures
<1>6. ASSUME capture[h].at = "captured"
      PROVE  CardOf(h) \in Cards /\ EntryOf(h) \in Entries
  <2>1. capture[h].project \in DOMAIN projects
    BY <1>3, <1>6 DEF StoreInv, Reads
  <2>2. projects[capture[h].project].title \in Places
    <3>1. projects[capture[h].project] \in ProjectRows
      BY <2>1 DEF StoreInv, Rows
    <3> QED BY <3>1 DEF ProjectRows
  <2>3. Len(Box(h).cards) + 1 \in Nat
    BY <1>2 DEF Box, Boxes
  <2> QED BY <1>5, <2>2, <2>3 DEF CardOf, EntryOf, Cards, Entries
<1> QED BY <1>2, <1>3, <1>4, <1>5, <1>6 DEF Box

LEMMA Left ==
    ASSUME StoreInv, NEW h \in Handlers, NEW outcome, Leave(h, outcome)
    PROVE  /\ capture'[h] = NoCapture /\ \A g \in Handlers \ {h} : capture'[g] = capture[g]
           /\ UNCHANGED <<projects, tasks>> /\ capture[h].at = outcome
BY DEF Leave, StoreInv

LEMMA CapturedJob ==
    ASSUME StoreInv, JobInv, NEW h \in Handlers,
           Captured(h) \/ CaptureRefused(h) \/ CaptureBroken(h)
    PROVE  JobInv'
<1>1. run[h].at = "capturing" /\ UNCHANGED <<wired, fsm>>
      /\ capture'[h] = NoCapture /\ \A g \in Handlers \ {h} : capture'[g] = capture[g]
  BY Left DEF Captured, CaptureRefused, CaptureBroken
<1>2. /\ Box(h) \in Boxes /\ run[h].calls # <<>> /\ Wanted(h).title \in Titles
      /\ capture[h].task \in Nat
      /\ capture[h].at = "captured" => CardOf(h) \in Cards /\ EntryOf(h) \in Entries
  BY <1>1, Capturing
<1>3. CASE Captured(h)
  <2>1. capture[h].at = "captured"
    BY <1>3 DEF Captured, Leave
  <2>2. PICK box : box = WithCard(Box(h), CardOf(h), EntryOf(h), Wanted(h).title, capture[h].task)
    OBVIOUS
  <2>3. box \in Boxes
    BY <1>2, <2>1, <2>2, NewCardBox
  <2>4. Result(h, box)
    BY <1>3, <2>2 DEF Captured, WithCard
  <2> QED BY <1>1, <1>2, <2>3, <2>4, ResultJob
<1>4. CASE CaptureRefused(h)
  BY <1>1, <1>2, <1>4, ResultJob DEF CaptureRefused
<1>5. CASE CaptureBroken(h)
  <2>1. PICK torn \in SUBSET Nat : torn = {capture[h].task} \ {0}
    BY <1>2
  <2>2. PICK box : box = [Box(h) EXCEPT !.wrote = @ \cup torn, !.broken = @ \cup torn]
    OBVIOUS
  <2>3. box \in Boxes
    BY <1>2, <2>2, BrokenBox
  <2>4. Result(h, box)
    BY <1>5, <2>1, <2>2 DEF CaptureBroken
  <2> QED BY <1>1, <1>2, <2>3, <2>4, ResultJob
<1> QED BY <1>3, <1>4, <1>5

(* The end of the rounds.                                                   *)
LEMMA FinishJob ==
    ASSUME JobInv, NEW h \in Handlers, Finish(h) \/ Break(h)
    PROVE  /\ JobInv'
           /\ \A g \in Handlers \ {h} : run'[g] = run[g]
           /\ \/ run'[h] \in Turns /\ run'[h].at = "stash" /\ run'[h].box = Box(h)
              \/ /\ run'[h] \in Replying /\ run'[h].at = "answer" /\ run'[h].box = Box(h)
                 /\ run'[h].cards = Box(h).cards /\ run'[h].proposed = Box(h).proposed
<1>1. run[h].at = "model" /\ run[h].at \in InTurn /\ UNCHANGED <<wired, fsm, capture>>
  BY DEF Finish, Break, store, InTurn
<1>2. run[h] \in Turns /\ wired /\ h \in DOMAIN run /\ capture[h] = NoCapture
      /\ Box(h) \in Boxes /\ run[h].user \in Users /\ Box(h) = run[h].box
  BY <1>1, Turning DEF Box
<1>3. CASE Box(h).pending # None /\ To(h, "stash")
  <2>1. PICK r : r = [run[h] EXCEPT !.at = "stash"]
    OBVIOUS
  <2>2. run' = [run EXCEPT ![h] = r] /\ run'[h] = r
    BY <1>2, <1>3, <2>1 DEF To
  <2>3. r \in Turns /\ r.at = "stash" /\ r.box = Box(h)
    BY <1>2, <2>1 DEF Turns, InTurn
  <2>4. JobInv'
    BY <1>1, <1>2, <1>3, <2>2, <2>3, TurnJob
  <2> QED BY <2>2, <2>3, <2>4 DEF JobInv
<1>4. ASSUME NEW text \in Texts, Answer(h, text, Box(h).cards, Box(h).proposed)
      PROVE  /\ JobInv'
             /\ \A g \in Handlers \ {h} : run'[g] = run[g]
             /\ run'[h] \in Replying /\ run'[h].at = "answer" /\ run'[h].box = Box(h)
             /\ run'[h].cards = Box(h).cards /\ run'[h].proposed = Box(h).proposed
  <2>1. PICK r : r = [at |-> "answer", user |-> run[h].user, box |-> Box(h), text |-> text,
                      cards |-> Box(h).cards, proposed |-> Box(h).proposed]
    OBVIOUS
  <2>2. run' = [run EXCEPT ![h] = r] /\ run'[h] = r
    BY <1>2, <1>4, <2>1 DEF Answer
  <2>3. Box(h).cards \in Seq(Cards) /\ Box(h).proposed \in Nat \cup {None}
    BY <1>2 DEF Boxes
  <2>4. r \in Replying /\ r.at = "answer" /\ r.box = Box(h)
        /\ r.cards = Box(h).cards /\ r.proposed = Box(h).proposed
    BY <1>2, <2>1, <2>3 DEF Replying
  <2>5. Job(h)'
    BY <1>1, <1>2, <2>2, <2>4, SetsStay DEF Job, InTurn, InDialogue, Showing
  <2>6. JobInv'
    BY <1>1, <2>2, <2>5, JobStays, DialogueStays DEF JobInv
  <2> QED BY <2>2, <2>4, <2>6 DEF JobInv
<1>5. Closing(h) \in Texts /\ Notice(h) \in Texts
  BY DEF Closing, Notice, Texts
<1> QED BY <1>3, <1>4, <1>5 DEF Finish, Break

LEMMA AnsweredJob ==
    ASSUME JobInv, NEW h \in Handlers, Answered(h) \/ DispatchEnd(h)
    PROVE  JobInv'
<1>1. run' = [run EXCEPT ![h] = Idle] /\ UNCHANGED <<wired, fsm, capture>>
      /\ run[h].at \in {"answer", "dispatch"}
  BY DEF Answered, DispatchEnd, store
<1>2. capture[h] = NoCapture
  BY <1>1 DEF JobInv, Job
<1> QED BY <1>1, <1>2, IdleJob, DialogueStays DEF JobInv

LEMMA DispatchJob ==
    ASSUME JobInv, DOMAIN capture = Handlers, NEW h \in Handlers,
           DispatchCapture(h) \/ DispatchRefused(h)
    PROVE  JobInv'
<1>1. run[h].at = "dispatch" /\ run[h].calls # <<>> /\ UNCHANGED <<wired, fsm>>
  BY DEF DispatchCapture, DispatchRefused
<1>2. run[h] \in Dispatches /\ capture[h] = NoCapture /\ h \in DOMAIN run
  BY <1>1 DEF JobInv, Job
<1>3. CASE DispatchCapture(h)
  <2>1. PICK r : r = [run[h] EXCEPT !.at = "dispatched"]
    OBVIOUS
  <2>2. run' = [run EXCEPT ![h] = r] /\ run'[h] = r
    BY <1>2, <1>3, <2>1 DEF DispatchCapture, To
  <2>3. r \in Dispatches /\ r.at = "dispatched" /\ r.calls # <<>>
    BY <1>1, <1>2, <2>1 DEF Dispatches
  <2>4. capture'[h] # NoCapture /\ \A g \in Handlers \ {h} : capture'[g] = capture[g]
    BY <1>3 DEF DispatchCapture, Execute, NoCapture
  <2>5. Job(h)'
    BY <1>1, <1>2, <2>2, <2>3, <2>4 DEF Job, InTurn, InDialogue, Showing
  <2> QED BY <1>1, <2>2, <2>4, <2>5, JobStays, DialogueStays DEF JobInv
<1>4. CASE DispatchRefused(h)
  <2>1. PICK r : r = [run[h] EXCEPT !.calls = Tail(run[h].calls)]
    OBVIOUS
  <2>2. run' = [run EXCEPT ![h] = r] /\ run'[h] = r /\ capture' = capture
    BY <1>2, <1>4, <2>1 DEF DispatchRefused, store
  <2>3. Tail(run[h].calls) \in Seq(Wants)
    BY <1>1, <1>2, HeadTail DEF Dispatches
  <2>4. r \in Dispatches /\ r.at = "dispatch"
    BY <1>1, <1>2, <2>1, <2>3 DEF Dispatches
  <2>5. Job(h)'
    BY <1>1, <1>2, <2>2, <2>4 DEF Job, InTurn, InDialogue, Showing
  <2> QED BY <1>1, <2>2, <2>5, JobStays, DialogueStays DEF JobInv
<1> QED BY <1>3, <1>4

LEMMA DispatchedJob ==
    ASSUME StoreInv, JobInv, NEW h \in Handlers, Dispatched(h)
    PROVE  JobInv'
<1>1. run[h].at = "dispatched" /\ UNCHANGED <<wired, fsm>>
      /\ capture'[h] = NoCapture /\ \A g \in Handlers \ {h} : capture'[g] = capture[g]
  BY Left DEF Dispatched
<1>2. run[h] \in Dispatches /\ h \in DOMAIN run /\ run[h].calls # <<>>
  BY <1>1 DEF JobInv, Job
<1>3. CASE run' = [run EXCEPT ![h] = Idle]
  BY <1>1, <1>3, IdleJob, DialogueStays DEF JobInv
<1>4. CASE run' = [run EXCEPT ![h].at = "dispatch", ![h].calls = Tail(@)]
  <2>1. PICK r : r = [run[h] EXCEPT !.at = "dispatch", !.calls = Tail(run[h].calls)]
    OBVIOUS
  <2>2. run' = [run EXCEPT ![h] = r] /\ run'[h] = r
    BY <1>2, <1>4, <2>1
  <2>3. Tail(run[h].calls) \in Seq(Wants)
    BY <1>1, <1>2, HeadTail DEF Dispatches
  <2>4. r \in Dispatches /\ r.at = "dispatch"
    BY <1>1, <1>2, <2>1, <2>3 DEF Dispatches
  <2>5. Job(h)'
    BY <1>1, <1>2, <2>2, <2>4 DEF Job, InTurn, InDialogue, Showing
  <2> QED BY <1>1, <2>2, <2>5, JobStays, DialogueStays DEF JobInv
<1> QED BY <1>3, <1>4 DEF Dispatched

-----------------------------------------------------------------------------
(* The dialogue                                                             *)

LEMMA EmptySlots == Blank \in Slots
<1>1. None \in Titles /\ None \in Places /\ <<>> \in Lists /\ None \in Deadlines
  BY DEF Titles, Places, Named, Lists, Deadlines
<1> QED BY <1>1 DEF Blank, Slots

LEMMA DataCapture ==
    ASSUME Dialogue, wired' = wired, NEW u \in Users, NEW w \in Slots,
           fsm' = [fsm EXCEPT ![u].capture = w]
    PROVE  Dialogue'
<1>1. PICK d : d = [fsm[u] EXCEPT !.capture = w]
  OBVIOUS
<1>2. fsm' = [fsm EXCEPT ![u] = d]
  BY <1>1
<1>3. {"capture", "options", "typing"} \subseteq DOMAIN d /\ d.capture = w /\ d.options = fsm[u].options
  BY <1>1 DEF Dialogue
<1> QED BY <1>2, <1>3, SetsStay DEF Dialogue, Offers

LEMMA DataTyping ==
    ASSUME Dialogue, wired' = wired, NEW u \in Users, NEW t,
           fsm' = [fsm EXCEPT ![u].typing = t]
    PROVE  Dialogue'
<1>1. PICK d : d = [fsm[u] EXCEPT !.typing = t]
  OBVIOUS
<1>2. fsm' = [fsm EXCEPT ![u] = d]
  BY <1>1
<1>3. /\ {"capture", "options", "typing"} \subseteq DOMAIN d
      /\ d.capture = fsm[u].capture /\ d.options = fsm[u].options
  BY <1>1 DEF Dialogue
<1> QED BY <1>2, <1>3, SetsStay DEF Dialogue, Offers

LEMMA DataOptions ==
    ASSUME Dialogue, wired' = wired, NEW u \in Users, NEW field, NEW options,
           Offers(field, options),
           fsm' = [fsm EXCEPT ![u].options =
                      [f \in Fields |-> IF f = field THEN options ELSE @[f]]]
    PROVE  Dialogue'
<1>1. PICK o : o = [f \in Fields |-> IF f = field THEN options ELSE fsm[u].options[f]]
  OBVIOUS
<1>2. PICK d : d = [fsm[u] EXCEPT !.options = o]
  OBVIOUS
<1>3. fsm' = [fsm EXCEPT ![u] = d]
  BY <1>1, <1>2
<1>4. /\ {"capture", "options", "typing"} \subseteq DOMAIN d
      /\ d.capture = fsm[u].capture /\ d.options = o
  BY <1>2 DEF Dialogue
<1>5. DOMAIN o = Fields /\ \A f \in Fields : Offers(f, o[f])
  BY <1>1 DEF Dialogue
<1> QED BY <1>3, <1>4, <1>5, SetsStay DEF Dialogue, Offers

LEMMA DataCleared ==
    ASSUME Dialogue, wired' = wired, NEW u \in Users, fsm' = [fsm EXCEPT ![u] = NoData]
    PROVE  Dialogue'
<1>1. <<>> \in Seq(Places) /\ <<>> \in Seq(ToSet(People))
  OBVIOUS
<1>2. /\ {"capture", "options", "typing"} \subseteq DOMAIN NoData
      /\ NoData.capture \in Slots /\ DOMAIN NoData.options = Fields
      /\ \A f \in Fields : Offers(f, NoData.options[f])
  BY <1>1, EmptySlots DEF NoData, Offers
<1> QED BY <1>2, SetsStay DEF Dialogue, Offers

(* A handler that talks begins or goes on.                                  *)
LEMMA DialogueJob ==
    ASSUME JobInv, wired' = wired, NEW h \in Handlers, NEW r, run' = [run EXCEPT ![h] = r],
           Dialogue', \A g \in Handlers \ {h} : capture'[g] = capture[g],
           r \in Dialogues, r.at # "ask" => Missing(r.args) = {},
           capture'[h] # NoCapture <=> r.at = "finalizing"
    PROVE  JobInv'
<1>1. run'[h] = r /\ r.at \in InDialogue
  BY DEF JobInv, Dialogues
<1>2. Job(h)'
  BY <1>1, SetsStay DEF Job, InTurn, InDialogue, Showing
<1> QED BY <1>2, JobStays

LEMMA ShowingJob ==
    ASSUME JobInv, wired' = wired, NEW h \in Handlers, NEW r, run' = [run EXCEPT ![h] = r],
           Dialogue', capture' = capture, capture[h] = NoCapture,
           r.at \in Showing, {"at", "user", "field", "options", "args"} \subseteq DOMAIN r,
           r.user \in Users, Offers(r.field, r.options)
    PROVE  JobInv'
<1>1. run'[h] = r
  BY DEF JobInv
<1>2. Job(h)'
  BY <1>1, SetsStay DEF Job, InTurn, InDialogue, Showing, Offers
<1> QED BY <1>2, JobStays

LEMMA StashJob ==
    ASSUME JobInv, NEW h \in Handlers, Stash(h)
    PROVE  JobInv'
<1>1. run[h].at = "stash" /\ run[h].at \in InTurn /\ UNCHANGED <<wired, capture>>
  BY DEF Stash, store, InTurn
<1>2. run[h] \in Turns /\ run[h].box.pending # None /\ capture[h] = NoCapture
      /\ run[h].user \in Users /\ run[h].box \in Boxes
  <2>1. run[h].box.pending # None
    BY <1>1 DEF JobInv, Job
  <2> QED BY <1>1, <2>1, Turning
<1>3. Box(h).pending \in Slots
  BY <1>2 DEF Boxes, Box
<1>4. Dialogue'
  BY <1>1, <1>2, <1>3, DataCapture DEF Stash, JobInv
<1>5. PICK r : r = [at |-> "ask", user |-> run[h].user, args |-> Box(h).pending]
  OBVIOUS
<1>6. r \in Dialogues /\ r.at = "ask"
  BY <1>2, <1>3, <1>5 DEF Dialogues, InDialogue
<1> QED BY <1>1, <1>2, <1>4, <1>5, <1>6, DialogueJob DEF Stash

LEMMA AskJob ==
    ASSUME StoreInv, JobInv, NEW h \in Handlers, AskField(h)
    PROVE  JobInv'
<1>1. run[h].at = "ask" /\ UNCHANGED <<wired, capture, fsm>>
  BY DEF AskField, store
<1>2. run[h] \in Dialogues /\ capture[h] = NoCapture
  BY <1>1 DEF JobInv, Job, InDialogue
<1>3. PICK field : field = FirstOf(Missing(run[h].args))
  OBVIOUS
<1>4. field \in {"project", "people", "deadline"}
  BY <1>3 DEF FirstOf, Fields
<1>5. PICK options : options = CASE field = "project" ->
                                      Reverse([i \in DOMAIN projects |-> projects[i].title])
                                 [] field = "people" -> People
                                 [] field = "deadline" -> <<Today>>
  OBVIOUS
<1>6. ASSUME field = "project" PROVE options \in Seq(Places)
  <2>1. PICK titles : titles = [i \in DOMAIN projects |-> projects[i].title]
    OBVIOUS
  <2>2. DOMAIN projects = 1..Len(projects) /\ Len(projects) \in Nat
    BY DEF StoreInv, Rows
  <2>3. \A i \in DOMAIN projects : projects[i].title \in Places
    <3> SUFFICES ASSUME NEW i \in DOMAIN projects PROVE projects[i].title \in Places
      OBVIOUS
    <3>1. projects[i] \in ProjectRows
      BY DEF StoreInv, Rows
    <3> QED BY <3>1 DEF ProjectRows
  <2>4. titles \in Seq(Places) /\ Len(titles) = Len(projects)
    BY <2>1, <2>2, <2>3, SeqDef
  <2>5. \A i \in 1..Len(titles) : titles[(Len(titles) - i) + 1] \in Places
    BY <2>1, <2>2, <2>3, <2>4
  <2>6. Reverse(titles) \in [1..Len(titles) -> Places]
    BY <2>5 DEF Reverse
  <2>7. Reverse(titles) \in Seq(Places)
    BY <2>2, <2>4, <2>6, SeqDef
  <2> QED BY <1>5, <1>6, <2>1, <2>7
<1>7. Offers(field, options)
  BY <1>5, <1>6, CaptureAssumption DEF Offers
<1>8. PICK r : r = [at |-> IF field = "deadline" THEN "state" ELSE "options",
                    user |-> run[h].user, args |-> run[h].args, field |-> field,
                    began |-> Cardinality(keyboards),
                    options |-> options]
  OBVIOUS
<1>9. run' = [run EXCEPT ![h] = r]
  BY <1>3, <1>5, <1>8 DEF AskField
<1>10. r.at \in Showing /\ {"at", "user", "field", "options", "args"} \subseteq DOMAIN r
       /\ r.user \in Users /\ Offers(r.field, r.options)
  BY <1>2, <1>7, <1>8 DEF Showing, Dialogues
<1> QED BY <1>1, <1>2, <1>9, <1>10, ShowingJob, DialogueStays DEF JobInv

LEMMA KeyboardJob ==
    ASSUME JobInv, NEW h \in Handlers, StoreOptions(h) \/ ClearTyping(h) \/ SendKeyboard(h) \/ SendRefused(h)
    PROVE  JobInv'
<1>1. run[h].at \in Showing /\ UNCHANGED <<wired, capture>>
  BY DEF StoreOptions, ClearTyping, SendKeyboard, SendRefused, store, Showing
<1>2. /\ {"at", "user", "field", "options", "args"} \subseteq DOMAIN run[h]
      /\ run[h].user \in Users /\ Offers(run[h].field, run[h].options)
      /\ capture[h] = NoCapture /\ h \in DOMAIN run
  BY <1>1 DEF JobInv, Job, Showing
<1>3. ASSUME NEW at \in Showing, To(h, at), Dialogue'
      PROVE  JobInv'
  <2>1. PICK r : r = [run[h] EXCEPT !.at = at]
    OBVIOUS
  <2>2. run' = [run EXCEPT ![h] = r]
    BY <1>3, <2>1 DEF To
  <2>3. r.at = at /\ DOMAIN r = DOMAIN run[h] /\ r.user = run[h].user
        /\ r.field = run[h].field /\ r.options = run[h].options
    BY <1>2, <2>1
  <2> QED BY <1>1, <1>2, <1>3, <2>2, <2>3, ShowingJob
<1>4. CASE StoreOptions(h)
  <2>1. Dialogue'
    BY <1>1, <1>2, <1>4, DataOptions DEF StoreOptions, JobInv
  <2> QED BY <1>3, <1>4, <2>1 DEF StoreOptions, Showing
<1>5. CASE ClearTyping(h)
  <2>1. Dialogue'
    BY <1>1, <1>2, <1>5, DataTyping DEF ClearTyping, JobInv
  <2> QED BY <1>3, <1>5, <2>1 DEF ClearTyping, Showing
<1>6. CASE SendKeyboard(h) \/ SendRefused(h)
  BY <1>1, <1>2, <1>6, IdleJob, DialogueStays DEF SendKeyboard, SendRefused, JobInv
<1> QED BY <1>4, <1>5, <1>6

(* The value of a field that somebody chose or typed.                       *)
LEMMA FilledSlots ==
    ASSUME JobInv, NEW u \in Users, NEW field, NEW value,
           \/ field = "project" /\ value \in Places
           \/ field = "people" /\ value \in Lists
           \/ field = "deadline" /\ value \in Deadlines
    PROVE  Filled(u, field, value) \in Slots
<1>1. PICK w \in Slots : w = fsm[u].capture
  BY DEF JobInv, Dialogue
<1>2. [w EXCEPT ![field] = value] \in Slots
  BY DEF Slots
<1> QED BY <1>1, <1>2 DEF Filled

LEMMA FillJob ==
    ASSUME JobInv, NEW h \in Handlers, NEW u \in Users, NEW args \in Slots, NEW tap,
           run[h] = Idle, Fill(h, u, args, tap), UNCHANGED <<wired, fsm, capture>>
    PROVE  JobInv'
<1>1. PICK r : r = [at |-> "fill", user |-> u, args |-> args, tap |-> tap]
  OBVIOUS
<1>2. run' = [run EXCEPT ![h] = r] /\ run'[h] = r
  BY <1>1 DEF Fill, JobInv
<1>3. capture[h] = NoCapture
  BY DEF JobInv, Job, Idle
<1>4. {"user", "args"} \subseteq DOMAIN r /\ r.at = "fill" /\ r.user \in Users /\ r.args \in Slots
  BY <1>1
<1>5. Job(h)'
  BY <1>2, <1>3, <1>4, SetsStay DEF Job, InTurn, InDialogue, Showing
<1> QED BY <1>2, <1>5, JobStays, DialogueStays DEF JobInv

(* A button pressed or an answer typed.                                     *)
Replied(h, u) ==
    \/ \E kb \in OnDisplay :
           \/ \E i \in DOMAIN kb.options : TapOption(h, u, kb, i)
           \/ TapDeadline(h, u, kb)
    \/ \E field \in {"project", "deadline"} : TapType(h, u, field)
    \/ PressEdit(h, u)
    \/ \E title \in Typed : TypeProject(h, u, title)
    \/ TypeDeadline(h, u)

LEMMA RepliedJob ==
    ASSUME JobInv, NEW h \in Handlers, NEW u \in Users, Replied(h, u)
    PROVE  /\ JobInv' /\ UNCHANGED <<store, wired>>
           /\ \A g \in Handlers : run'[g] = run[g] \/ run'[g].at = "fill"
<1>1. UNCHANGED <<store, wired>> /\ run[h] = Idle /\ UNCHANGED <<wired, capture>>
  BY DEF Replied, TapOption, TapDeadline, TapType, PressEdit, TypeProject, TypeDeadline,
         Begins, store
<1>2. Today \in Deadlines
  BY DEF Deadlines
<1>3. ASSUME NEW args \in Slots, NEW tap, Fill(h, u, args, tap), fsm' = fsm
      PROVE  JobInv' /\ \A g \in Handlers : run'[g] = run[g] \/ run'[g].at = "fill"
  BY <1>1, <1>3, FillJob DEF Fill, JobInv
<1>4. ASSUME NEW kb \in OnDisplay, NEW i \in DOMAIN kb.options, TapOption(h, u, kb, i)
      PROVE  JobInv' /\ \A g \in Handlers : run'[g] = run[g] \/ run'[g].at = "fill"
  <2>1. PICK label : label = fsm[u].options[kb.field][i]
    OBVIOUS
  <2>2. kb.field \in Fields /\ i \in DOMAIN fsm[u].options[kb.field] /\ fsm' = fsm
    BY <1>4 DEF TapOption
  <2>3. Offers(kb.field, fsm[u].options[kb.field])
    BY <2>2 DEF JobInv, Dialogue
  <2>4. PICK value : value = IF kb.field = "people" THEN <<label>> ELSE label
    OBVIOUS
  <2>5. \/ kb.field = "project" /\ value \in Places
        \/ kb.field = "people" /\ value \in Lists
    <3>1. CASE kb.field = "project"
      BY <2>1, <2>2, <2>3, <2>4, <3>1 DEF Offers
    <3>2. CASE kb.field = "people"
      <4>1. label \in ToSet(People)
        BY <2>1, <2>2, <2>3, <3>2 DEF Offers
      <4> QED BY <2>4, <3>2, <4>1 DEF Lists
    <3> QED BY <2>2, <3>1, <3>2 DEF Fields
  <2>6. Filled(u, kb.field, value) \in Slots
    BY <2>5, FilledSlots
  <2>7. PICK tap : Fill(h, u, Filled(u, kb.field, value), tap)
    BY <1>4, <2>1, <2>4 DEF TapOption
  <2> QED BY <1>3, <2>2, <2>6, <2>7
<1>5. ASSUME NEW kb \in OnDisplay, TapDeadline(h, u, kb)
      PROVE  JobInv' /\ \A g \in Handlers : run'[g] = run[g] \/ run'[g].at = "fill"
  <2>1. Filled(u, "deadline", Today) \in Slots
    BY <1>2, FilledSlots
  <2> QED BY <1>3, <1>5, <2>1 DEF TapDeadline
<1>6. ASSUME NEW field, TapType(h, u, field)
      PROVE  JobInv' /\ \A g \in Handlers : run'[g] = run[g] \/ run'[g].at = "fill"
  <2>1. Dialogue' /\ run' = run
    BY <1>1, <1>6, DataTyping DEF TapType, JobInv
  <2> QED BY <1>1, <2>1, RunStays
<1>7. ASSUME NEW title \in Typed, TypeProject(h, u, title)
      PROVE  JobInv' /\ \A g \in Handlers : run'[g] = run[g] \/ run'[g].at = "fill"
  <2>1. Filled(u, "project", title) \in Slots
    BY FilledSlots DEF Places, Named
  <2> QED BY <1>3, <1>7, <2>1 DEF TypeProject
<1>8. ASSUME TypeDeadline(h, u)
      PROVE  JobInv' /\ \A g \in Handlers : run'[g] = run[g] \/ run'[g].at = "fill"
  <2>1. Filled(u, "deadline", Today) \in Slots
    BY <1>2, FilledSlots
  <2> QED BY <1>3, <1>8, <2>1 DEF TypeDeadline
<1>9. ASSUME PressEdit(h, u)
      PROVE  JobInv' /\ \A g \in Handlers : run'[g] = run[g] \/ run'[g].at = "fill"
  <2>1. Dialogue' /\ run' = run
    BY <1>1, <1>9, DataTyping DEF PressEdit, JobInv
  <2> QED BY <1>1, <2>1, RunStays
<1> QED BY <1>1, <1>4, <1>5, <1>6, <1>7, <1>8, <1>9 DEF Replied

LEMMA FilledJob ==
    ASSUME JobInv, NEW h \in Handlers, StoreFilled(h)
    PROVE  JobInv'
<1>1. run[h].at = "fill" /\ UNCHANGED <<wired, capture>>
  BY DEF StoreFilled, store
<1>2. run[h].user \in Users /\ run[h].args \in Slots /\ capture[h] = NoCapture
  BY <1>1 DEF JobInv, Job
<1>3. Dialogue'
  BY <1>1, <1>2, DataCapture DEF StoreFilled, JobInv
<1>4. PICK r : r = [at |-> IF Missing(run[h].args) = {} THEN "finalize" ELSE "ask",
                    user |-> run[h].user, args |-> run[h].args]
  OBVIOUS
<1>5. run' = [run EXCEPT ![h] = r]
  BY <1>4 DEF StoreFilled
<1>6. r \in Dialogues /\ (r.at # "ask" => Missing(r.args) = {}) /\ r.at # "finalizing"
  BY <1>2, <1>4 DEF Dialogues, InDialogue
<1> QED BY <1>1, <1>2, <1>3, <1>5, <1>6, DialogueJob

(* The capture a dialogue ends with.                                        *)
LEMMA FinalizeJob ==
    ASSUME JobInv, DOMAIN capture = Handlers, NEW h \in Handlers, Finalize(h)
    PROVE  JobInv'
<1>1. run[h].at = "finalize" /\ wired' = wired
  BY DEF Finalize
<1>2. run[h] \in Dialogues /\ Missing(run[h].args) = {} /\ capture[h] = NoCapture
      /\ run[h].user \in Users /\ h \in DOMAIN run
  BY <1>1 DEF JobInv, Job, InDialogue, Dialogues
<1>3. Dialogue'
  BY <1>1, <1>2, DataCleared DEF Finalize, JobInv
<1>4. CASE Execute(h, run[h].args, FALSE) /\ To(h, "finalizing")
  <2>1. PICK r : r = [run[h] EXCEPT !.at = "finalizing"]
    OBVIOUS
  <2>2. run' = [run EXCEPT ![h] = r]
    BY <1>4, <2>1 DEF To
  <2>3. r \in Dialogues /\ r.at = "finalizing" /\ Missing(r.args) = {}
    BY <1>2, <2>1 DEF Dialogues, InDialogue
  <2>4. capture'[h] # NoCapture /\ \A g \in Handlers \ {h} : capture'[g] = capture[g]
    BY <1>4 DEF Execute, NoCapture
  <2> QED BY <1>1, <1>3, <2>2, <2>3, <2>4, DialogueJob
<1>5. CASE run' = [run EXCEPT ![h] = Idle] /\ UNCHANGED store
  BY <1>1, <1>2, <1>3, <1>5, IdleJob DEF store
<1> QED BY <1>4, <1>5 DEF Finalize

LEMMA FinalizedJob ==
    ASSUME StoreInv, JobInv, NEW h \in Handlers, Finalized(h)
    PROVE  JobInv'
<1>1. UNCHANGED <<wired, fsm>> /\ run' = [run EXCEPT ![h] = Idle]
      /\ capture'[h] = NoCapture /\ \A g \in Handlers \ {h} : capture'[g] = capture[g]
  BY Left DEF Finalized
<1> QED BY <1>1, IdleJob, DialogueStays DEF JobInv

(* A step of a capture begins and ends within it.                           *)
LEMMA CapturingJob ==
    ASSUME StoreInv, JobInv, NEW h \in Handlers, CapturingStep(h)
    PROVE  JobInv'
<1>1. UNCHANGED <<wired, run, fsm>>
  BY DEF CapturingStep
<1>2. Running(h)
  BY DEF CapturingStep, CaptureStep, GetProjectByTitle, CreateProject, FindDuplicate, CreateTask,
         AssignNext, AddAudit, Refused, Running
<1>3. capture[h] # NoCapture /\ h \in DOMAIN capture /\ "at" \in DOMAIN capture[h]
  BY <1>2 DEF Running, NoCapture, StoreInv, Reads, Captures
<1>4. /\ \A g \in Handlers \ {h} : capture'[g] = capture[g]
      /\ capture'[h].at \in Stages
  <2>1. CASE GetProjectByTitle(h)
    BY <1>3, <2>1 DEF GetProjectByTitle, Stages, StoreInv
  <2>2. CASE CreateProject(h)
    BY <1>3, <2>2 DEF CreateProject, Stages, StoreInv
  <2>3. CASE FindDuplicate(h)
    BY <1>3, <2>3 DEF FindDuplicate, Stages, StoreInv
  <2>4. CASE CreateTask(h)
    BY <1>3, <2>4 DEF CreateTask, Stages, StoreInv
  <2>5. CASE AssignNext(h)
    BY <1>3, <2>5 DEF AssignNext, Stages, StoreInv
  <2>6. CASE AddAudit(h)
    BY <1>3, <2>6 DEF AddAudit, Stages, StoreInv
  <2>7. CASE Refused(h)
    BY <1>3, <2>7 DEF Refused, Stages, StoreInv
  <2> QED BY <2>1, <2>2, <2>3, <2>4, <2>5, <2>6, <2>7 DEF CapturingStep, CaptureStep
<1>5. capture'[h] # NoCapture
  BY <1>4 DEF NoCapture, Stages
<1> QED BY <1>1, <1>3, <1>4, <1>5, RunStays, DialogueStays DEF JobInv

LEMMA CrashJob ==
    ASSUME JobInv, Crash
    PROVE  JobInv'
<1>1. \A h \in Handlers : Job(h)'
  BY DEF Crash, Job, Idle, InTurn, InDialogue, Showing
<1>2. Dialogue'
  BY DialogueStays DEF Crash, JobInv
<1> QED BY <1>1, <1>2 DEF JobInv, Crash

LEMMA JobBegins == Init => JobInv
<1> SUFFICES ASSUME Init PROVE JobInv
  OBVIOUS
<1>1. \A h \in Handlers : Job(h)
  BY DEF Init, StoreInit, Job, Idle, InTurn, InDialogue, Showing
<1>2. <<>> \in Seq(Places) /\ <<>> \in Seq(ToSet(People))
  OBVIOUS
<1>3. Dialogue
  BY <1>2, EmptySlots DEF Init, Dialogue, NoData, Offers
<1> QED BY <1>1, <1>3 DEF Init, JobInv

-----------------------------------------------------------------------------
(* The steps of the handlers on the rows                                    *)

LEMMA StoreStays ==
    ASSUME StoreInv, UNCHANGED <<store, wired>>
    PROVE  StoreInv' /\ StoreGrows
<1>1. \A i \in DOMAIN tasks : Keeps(tasks[i], tasks[i])
  BY DEF Keeps, StoreInv, Rows, TaskRows
<1>2. tasks \in [DOMAIN tasks -> TaskRows]
  BY DEF StoreInv, Rows
<1> QED BY <1>1, <1>2, OnlyTasks DEF store

LEMMA BegunReads ==
    ASSUME StoreInv, JobInv, NEW h \in Handlers,
           CaptureNew(h) \/ DispatchCapture(h) \/ Finalize(h)
    PROVE  StoreInv' /\ StoreGrows
<1>1. wired' = wired
  BY DEF CaptureNew, DispatchCapture, Finalize
<1>2. CASE CaptureNew(h)
  <2>1. Wanted(h) \in Slots /\ Wanted(h).people \in Seq(Persons)
    BY <1>2, Calling DEF CaptureNew, Call
  <2>2. ~Lacking(Wanted(h))
    BY <1>2, <2>1, NothingMissing DEF CaptureNew
  <2> QED BY <1>1, <1>2, <2>1, <2>2, ExecuteReads DEF CaptureNew
<1>3. CASE DispatchCapture(h)
  <2>1. run[h].calls \in Seq(Wants) /\ run[h].calls # <<>>
    BY <1>3 DEF DispatchCapture, JobInv, Job, Dispatches
  <2>2. Head(run[h].calls) \in Wants
    BY <2>1, HeadTail
  <2>3. Head(run[h].calls) \in Slots /\ Head(run[h].calls).people \in Seq(Persons)
    BY <2>2, WantedSlots, ListOfPersons DEF Lists
  <2> QED BY <1>1, <1>3, <2>3, ExecuteReads DEF DispatchCapture
<1>4. CASE Finalize(h)
  <2>1. run[h].args \in Slots /\ Missing(run[h].args) = {}
    BY <1>4 DEF Finalize, JobInv, Job, InDialogue, Dialogues
  <2>2. run[h].args.people \in Seq(Persons) /\ ~Lacking(run[h].args)
    BY <2>1, ListOfPersons, NothingMissing DEF Slots
  <2>3. CASE Execute(h, run[h].args, FALSE)
    BY <1>1, <2>1, <2>2, <2>3, ExecuteReads
  <2>4. CASE UNCHANGED store
    BY <1>1, <2>4, StoreStays
  <2> QED BY <1>4, <2>3, <2>4 DEF Finalize
<1> QED BY <1>2, <1>3, <1>4

LEMMA EndedReads ==
    ASSUME StoreInv, NEW h \in Handlers,
           \/ Captured(h) \/ CaptureRefused(h) \/ CaptureBroken(h)
           \/ Dispatched(h) \/ Finalized(h)
    PROVE  StoreInv' /\ StoreGrows
<1>1. wired' = wired
  BY DEF Captured, CaptureRefused, CaptureBroken, Dispatched, Finalized
<1>2. Leave(h, "captured") \/ Leave(h, "duplicate") \/ Leave(h, "failed")
  BY DEF Captured, CaptureRefused, CaptureBroken, Dispatched, Finalized
<1> QED BY <1>1, <1>2, LeaveReads

LEMMA MergedReads ==
    ASSUME StoreInv, JobInv, NEW h \in Handlers, MergePerson(h)
    PROVE  StoreInv' /\ StoreGrows
<1>1. UNCHANGED <<projects, capture, wired>>
  BY DEF MergePerson
<1>2. PICK who \in SUBSET Known, box \in Boxes, r \in Turns :
          /\ tasks' = [tasks EXCEPT ![Entry(h).task].people = @ \cup who]
          /\ box = WithPeople(Box(h), Wanted(h).title, Entry(h).people \cup who)
          /\ run' = [run EXCEPT ![h] = r] /\ r.box = box /\ r.at = "merge"
          /\ r.calls = run[h].calls
  BY MergePersonBox, Zenon
<1>3. CASE Entry(h).task \in DOMAIN tasks
  BY <1>1, <1>2, <1>3, GivenOne, OnlyTasks
<1>4. CASE Entry(h).task \notin DOMAIN tasks
  <2>1. tasks' = tasks
    <3>1. tasks \in [DOMAIN tasks -> TaskRows]
      BY DEF StoreInv, Rows
    <3>2. DOMAIN tasks' = DOMAIN tasks /\ \A i \in DOMAIN tasks : tasks'[i] = tasks[i]
      BY <1>2, <1>4, <3>1
    <3> QED BY <1>2, <3>1, <3>2
  <2> QED BY <1>1, <2>1, StoreStays DEF store
<1> QED BY <1>3, <1>4

LEMMA PlannedReads ==
    ASSUME StoreInv, JobInv, NEW h \in Handlers, PlanProject(h)
    PROVE  StoreInv' /\ StoreGrows
<1>1. UNCHANGED <<tasks, capture, wired>>
  BY DEF PlanProject
<1>2. PICK p : p = [title |-> Head(run[h].calls).title, stub |-> FALSE, since |-> Len(projects)]
  OBVIOUS
<1>3. projects' = projects \/ projects' = Append(projects, p)
  BY <1>2 DEF PlanProject
<1>4. Head(run[h].calls).title \in Places
  <2>1. Head(run[h].calls) \in CaptureCalls \cup Calls /\ Head(run[h].calls).tool = "plan_project"
    BY Calling DEF PlanProject, Call
  <2>2. Head(run[h].calls) \in Calls
    BY <2>1 DEF CaptureCalls
  <2> QED BY <2>1, <2>2 DEF Places, Named
<1>5. p \in ProjectRows /\ ~p.stub
  <2>1. Len(projects) \in Nat
    BY DEF StoreInv, Rows
  <2> QED BY <1>2, <1>4, <2>1 DEF ProjectRows
<1>6. CASE projects' = projects
  BY <1>1, <1>6, StoreStays DEF store
<1>7. CASE projects' = Append(projects, p)
  <2>1. StoreGrows /\ References' /\ NoTwins'
    BY <1>1, <1>5, <1>7, ProjectMore
  <2>2. WholeUnlessCut'
    BY <1>1, <2>1, WholeStays
  <2>3. \A g \in Handlers : Reads(g)'
    BY <1>1, <2>1, ReadsStay
  <2> QED BY <1>1, <2>1, <2>2, <2>3 DEF StoreInv, StoreGrows
<1> QED BY <1>3, <1>6, <1>7

LEMMA ChangedReads ==
    ASSUME StoreInv, NEW h \in Handlers, AssignTask(h) \/ MarkTaskDone(h)
    PROVE  StoreInv' /\ StoreGrows
<1>1. UNCHANGED <<projects, capture, wired>>
  BY DEF AssignTask, MarkTaskDone
<1>2. tasks \in [DOMAIN tasks -> TaskRows] /\ \A i \in DOMAIN tasks : tasks[i] \in TaskRows
  BY DEF StoreInv, Rows
<1>3. CASE tasks' = tasks
  BY <1>1, <1>3, StoreStays DEF store
<1>4. ASSUME AssignTask(h), tasks' # tasks
      PROVE  StoreInv' /\ StoreGrows
  <2>1. PICK rows : rows = RowsNamed(Head(run[h].calls).title)
    OBVIOUS
  <2>2. PICK who \in SUBSET Known : who = {Head(run[h].calls).person} \cap Known
    OBVIOUS
  <2>4. tasks' = [i \in DOMAIN tasks |-> IF \E r \in rows : r[1] = i
                      THEN [tasks[i] EXCEPT !.people = who, !.moved = TRUE]
                      ELSE tasks[i]]
    BY <1>4, <2>1, <2>2, Zenon DEF AssignTask
  <2>5. ASSUME NEW i \in DOMAIN tasks
        PROVE  tasks'[i] \in TaskRows /\ Keeps(tasks[i], tasks'[i])
    <3>1. CASE tasks'[i] = tasks[i]
      BY <1>2, <3>1 DEF Keeps
    <3>2. CASE tasks'[i] = [tasks[i] EXCEPT !.people = who, !.moved = TRUE]
      BY <1>2, <3>2, Moves
    <3> QED BY <2>4, <3>1, <3>2
  <2>6. tasks' \in [DOMAIN tasks -> TaskRows]
    <3>1. tasks' = [i \in DOMAIN tasks |-> tasks'[i]]
      BY <2>4
    <3> QED BY <2>5, <3>1
  <2> QED BY <1>1, <2>5, <2>6, OnlyTasks
<1>5. ASSUME MarkTaskDone(h), tasks' # tasks
      PROVE  StoreInv' /\ StoreGrows
  <2>1. PICK rows : tasks' = [i \in DOMAIN tasks |->
                                  [tasks[i] EXCEPT !.done = @ \/ \E r \in rows : r[1] = i]]
    BY <1>5 DEF MarkTaskDone
  <2>2. ASSUME NEW i \in DOMAIN tasks
        PROVE  tasks'[i] \in TaskRows /\ Keeps(tasks[i], tasks'[i])
    <3>1. PICK b \in BOOLEAN : b <=> \E r \in rows : r[1] = i
      OBVIOUS
    <3>2. tasks[i] \in TaskRows /\ tasks[i].done \in BOOLEAN
      BY <1>2 DEF TaskRows
    <3>3. tasks'[i] = [tasks[i] EXCEPT !.done = @ \/ b]
      BY <2>1, <3>1, <3>2
    <3> QED BY <3>2, <3>3, Ticks
  <2>3. tasks' \in [DOMAIN tasks -> TaskRows]
    <3>1. tasks' = [i \in DOMAIN tasks |-> tasks'[i]]
      BY <2>1
    <3> QED BY <2>2, <3>1
  <2> QED BY <1>1, <2>2, <2>3, OnlyTasks
<1> QED BY <1>3, <1>4, <1>5

LEMMA WrittenReads ==
    ASSUME StoreInv, NEW h \in Handlers, CapturingStep(h)
    PROVE  StoreInv' /\ StoreGrows
<1>1. wired' = wired
  BY DEF CapturingStep
<1>2. CASE CreateProject(h)
  <2>1. capture[h] \in Captures /\ Complete(capture[h])
    BY <1>2 DEF CreateProject, StoreInv, Reads, NoCapture
  <2>2. capture[h].want.project \in Places
    BY <2>1 DEF Captures, Slots
  <2>3. Target(capture[h].want) \in Places
    BY <2>1, <2>2 DEF Target, Complete, Places
  <2> QED BY <1>1, <1>2, <2>3, ProjectReads
<1> QED BY <1>1, <1>2, LookupReads, DuplicateReads, TaskReads, NextReads, AuditReads, RefusedReads
        DEF CapturingStep, CaptureStep

LEMMA StoreBegins == Init => StoreInv
<1> SUFFICES ASSUME Init PROVE StoreInv
  OBVIOUS
<1>1. projects = [i \in DOMAIN Seeded |-> [title |-> Seeded[i], stub |-> FALSE, since |-> 0]]
      /\ tasks = <<>> /\ capture = [h \in Handlers |-> NoCapture]
  BY DEF Init, StoreInit
<1>2. DOMAIN Seeded = 1..Len(Seeded) /\ Len(Seeded) \in Nat
  BY CaptureAssumption
<1>3. \A i \in DOMAIN Seeded : Seeded[i] \in Places
  BY DEF Places, Named, ToSet
<1>4. projects \in [1..Len(Seeded) -> ProjectRows]
  BY <1>1, <1>2, <1>3 DEF ProjectRows
<1>5. projects \in Seq(ProjectRows)
  BY <1>2, <1>4, SeqDef
<1>6. Rows
  BY <1>1, <1>5 DEF Rows
<1>7. NoTwins
  BY <1>1 DEF NoTwins
<1> QED BY <1>1, <1>6, <1>7 DEF StoreInv, References, WholeUnlessCut, Reads

-----------------------------------------------------------------------------
(* Every step                                                               *)

Inv == StoreInv /\ JobInv

LEMMA InvStays ==
    ASSUME Inv, [Next]_vars
    PROVE  Inv' /\ StoreGrows
<1> USE DEF Inv
<1>0. DOMAIN capture = Handlers
  BY DEF StoreInv
<1>1. ASSUME NEW h \in Handlers, NEW u \in Users, Asked(h, u) PROVE Inv' /\ StoreGrows
  <2>1. CASE Message(h, u)
    BY <2>1, MessageJob, StoreStays DEF Message
  <2>2. CASE Replied(h, u)
    <3>1. JobInv' /\ UNCHANGED <<store, wired>>
      BY <2>2, RepliedJob
    <3> QED BY <3>1, StoreStays
  <2> QED BY <1>1, <2>1, <2>2 DEF Asked, Replied
<1>2. ASSUME NEW h \in Handlers, Step(h) PROVE JobInv'
  <2>1. CASE PlainCall(h) \/ Think(h) \/ CaptureAgain(h) \/ MergePerson(h)
             \/ MergeShown(h) \/ MergeRefused(h)
    BY <2>1, PlainJob, ThinkJob, AgainJob, MergePersonJob, MergeEndJob
  <2>2. CASE CaptureNew(h) \/ Captured(h) \/ CaptureRefused(h) \/ CaptureBroken(h)
             \/ Finish(h) \/ Break(h) \/ Answered(h)
    BY <1>0, <2>2, NewJob, CapturedJob, FinishJob, AnsweredJob
  <2>3. CASE DispatchCapture(h) \/ DispatchRefused(h) \/ Dispatched(h) \/ DispatchEnd(h)
    BY <1>0, <2>3, DispatchJob, DispatchedJob, AnsweredJob
  <2>4. CASE Stash(h) \/ AskField(h) \/ StoreOptions(h) \/ ClearTyping(h) \/ SendKeyboard(h)
             \/ SendRefused(h)
    BY <2>4, StashJob, AskJob, KeyboardJob
  <2>5. CASE StoreFilled(h) \/ Finalize(h) \/ Finalized(h) \/ CapturingStep(h)
    BY <1>0, <2>5, FilledJob, FinalizeJob, FinalizedJob, CapturingJob
  <2> QED BY <1>2, <2>1, <2>2, <2>3, <2>4, <2>5 DEF Step, PlainCall
<1>3. ASSUME NEW h \in Handlers, Step(h) PROVE StoreInv' /\ StoreGrows
  <2>1. CASE UNCHANGED <<store, wired>>
    BY <2>1, StoreStays
  <2>2. CASE CaptureNew(h) \/ DispatchCapture(h) \/ Finalize(h)
    BY <2>2, BegunReads
  <2>3. CASE Captured(h) \/ CaptureRefused(h) \/ CaptureBroken(h)
             \/ Dispatched(h) \/ Finalized(h)
    BY <2>3, EndedReads
  <2>4. CASE MergePerson(h) \/ PlanProject(h) \/ AssignTask(h) \/ MarkTaskDone(h)
    BY <2>4, MergedReads, PlannedReads, ChangedReads
  <2>5. CASE CapturingStep(h)
    BY <2>5, WrittenReads
  <2>6. CASE Think(h) \/ CallWithoutEffect(h) \/ CapturePending(h) \/ CaptureAgain(h)
             \/ SetVacation(h) \/ MergeShown(h) \/ MergeRefused(h) \/ Finish(h) \/ Break(h)
             \/ Answered(h)
    BY <2>1, <2>6 DEF Think, CallWithoutEffect, CapturePending, CaptureAgain, SetVacation,
                      MergeShown, MergeRefused, Finish, Break, Answered
  <2>7. CASE DispatchRefused(h) \/ DispatchEnd(h) \/ Stash(h) \/ AskField(h) \/ StoreOptions(h)
             \/ ClearTyping(h) \/ SendKeyboard(h) \/ SendRefused(h) \/ StoreFilled(h)
    BY <2>1, <2>7 DEF DispatchRefused, DispatchEnd, Stash, AskField, StoreOptions, ClearTyping,
                      SendKeyboard, SendRefused, StoreFilled
  <2> QED BY <1>3, <2>2, <2>3, <2>4, <2>5, <2>6, <2>7 DEF Step
<1>4. CASE Crash
  BY <1>4, CrashJob, CrashReads DEF Crash
<1>5. CASE UNCHANGED vars
  <2>1. UNCHANGED <<store, wired>> /\ UNCHANGED <<wired, run, fsm, capture>>
    BY <1>5 DEF vars, store
  <2> QED BY <2>1, StoreStays, RunStays, DialogueStays DEF JobInv
<1> QED BY <1>1, <1>2, <1>3, <1>4, <1>5 DEF Next

THEOREM CapturesHold == Spec => []Inv
<1>1. Init => Inv
  BY StoreBegins, JobBegins DEF Inv
<1>2. Inv /\ [Next]_vars => Inv'
  BY InvStays
<1> QED BY <1>1, <1>2, PTL DEF Spec

-----------------------------------------------------------------------------
(* Whatever is written and whoever taps meanwhile, rows refer to rows, a     *)
(* handler in the middle of a capture has one, and what is put aside has the *)
(* fields of a capture (Capture.TypeOK).                                     *)
THEOREM TypesOfCaptures == Spec => []TypeOK
<1>1. Inv => TypeOK
  <2> SUFFICES ASSUME Inv PROVE TypeOK
    OBVIOUS
  <2>1. ASSUME NEW i \in DOMAIN tasks
        PROVE  /\ tasks[i].project \in DOMAIN projects
               /\ tasks[i].people \subseteq Known
               /\ tasks[i].since < i
    <3>1. tasks[i] \in TaskRows
      BY DEF Inv, StoreInv, Rows
    <3> QED BY <3>1 DEF Inv, StoreInv, References, TaskRows
  <2>2. ASSUME NEW h \in Handlers
        PROVE  capture[h] # NoCapture <=> run[h].at \in {"capturing", "dispatched", "finalizing"}
    BY DEF Inv, JobInv, Job
  <2>3. ASSUME NEW h \in Handlers, capture[h] # NoCapture
        PROVE  capture[h].project \in 0..Len(projects) /\ capture[h].task \in 0..Len(tasks)
    BY <2>3 DEF Inv, StoreInv, Rows, Reads
  <2>4. ASSUME NEW u \in Users
        PROVE  DOMAIN fsm[u].capture = DOMAIN Blank
    BY DEF Inv, JobInv, Dialogue, Slots, Blank
  <2> QED BY <2>1, <2>2, <2>3, <2>4 DEF TypeOK
<1> QED BY <1>1, CapturesHold, PTL

(* Captures running at once write a task twice only when the second began    *)
(* before the first had written: a capture heeds every task that was there   *)
(* when it began (CaptureTaskUseCase.execute, find_duplicate).               *)
THEOREM TwinsOverlap == Spec => []NoTwins
<1>1. Inv => NoTwins
  BY DEF Inv, StoreInv
<1> QED BY <1>1, CapturesHold, PTL

(* A task that was not cut has everybody who was named for it and is known,  *)
(* and its audit row, whatever the other handlers did to it meanwhile.       *)
THEOREM CapturesAreWhole == Spec => []WholeUnlessCut
<1>1. Inv => WholeUnlessCut
  BY DEF Inv, StoreInv
<1> QED BY <1>1, CapturesHold, PTL

(* Whatever the agent or a dialogue captures has a deadline, somebody named  *)
(* for it and the project that was named, of which its row refers to; what   *)
(* the parser reads from a text may lack them (_missing, capture_task of the *)
(* toolbox, _dispatch_intent).                                               *)
THEOREM NothingIsMadeUp == Spec => []NothingMadeUp
<1>1. Inv => NothingMadeUp
  BY DEF Inv, StoreInv, References, AsNamed, NothingMadeUp
<1> QED BY <1>1, CapturesHold, PTL
=============================================================================
