------------------------------ MODULE SeedData ------------------------------
(***************************************************************************)
(* The seed: people, project templates and capabilities are loaded from     *)
(* files by a program of its own, in one transaction, again and again, into *)
(* the database that the bot is reading.                                    *)
(*                                                                          *)
(* A file set has the fields                                                *)
(*   team       name -> role label or None                                  *)
(*   templates  code -> (ord -> [pair, two, people, after]), where people   *)
(*              is a sequence of [person, rank, strict] and after a set of  *)
(*              [on, link, lag]; a field left out is None                   *)
(*   roles      role -> its skills                                          *)
(***************************************************************************)
EXTENDS Integers, Sequences, FiniteSets, SequencesExt, Functions

CONSTANTS Files,     (* the file sets that are loaded                        *)
          Codes,     (* the template codes, in the order of loading          *)
          Persons,   (* all names, in alphabetical order                     *)
          Outside,   (* the names of external people                         *)
          Hours,     (* name -> hours booked in committed plans              *)
          None

(* The team is of people; priorities of people, where there are any, and     *)
(* strictness are numbers.                                                  *)
ASSUME SeedAssumption ==
    /\ Codes \in Seq(ToSet(Codes)) /\ Persons \in Seq(ToSet(Persons))
    /\ \A p \in DOMAIN Hours : Hours[p] \in Int
    /\ \A files \in Files :
           /\ DOMAIN files.team \subseteq ToSet(Persons)
           /\ \A i \in DOMAIN Codes : \A o \in DOMAIN files.templates[Codes[i]] :
                  LET people == files.templates[Codes[i]][o].people
                  IN  /\ people \in Seq(ToSet(people))
                      /\ \A a \in ToSet(people) :
                             a.strict \in Int /\ (a.rank # None => a.rank \in Int)

VARIABLES db,        (* the tables                                           *)
          seed,      (* the load that is running                             *)
          loaded     (* the file sets whose load committed, in order: not    *)
                     (* stored anywhere                                      *)

tables == <<db, seed, loaded>>

(* A row of tasks has a fresh key in every load. *)
Empty == [people      |-> <<>>,    (* name -> [label, tg]                    *)
          templates   |-> {},
          tasks       |-> <<>>,    (* key -> [code, ord, pair]               *)
          assignees   |-> {},      (* [task, person, rank, strict]           *)
          deps        |-> {},      (* [task, on, link, lag]                  *)
          roleSkills  |-> {},
          personRoles |-> {}]

NoLoad(n) == [at |-> "none", n |-> n]

SeedInit ==
    /\ db = Empty
    /\ seed = NoLoad(0)
    /\ loaded = <<>>

(* f, and g where f says nothing; f, and v for k. *)
Over(f, g) == [x \in DOMAIN f \cup DOMAIN g |-> IF x \in DOMAIN f THEN f[x] ELSE g[x]]
Put(f, k, v) == [x \in DOMAIN f \cup {k} |-> IF x = k THEN v ELSE f[x]]

(* The elements of S by their keys, tuples of numbers; those of one key in    *)
(* any order.                                                               *)
Below(a, b) == \E i \in DOMAIN a : a[i] < b[i] /\ \A j \in 1..(i - 1) : a[j] = b[j]

Sorted(S, key) ==
    CHOOSE s \in [1..Cardinality(S) -> S] :
        /\ ToSet(s) = S
        /\ \A i, j \in DOMAIN s : i < j => ~Below(key[s[j]], key[s[i]])

Given(value, default) == IF value = None THEN default ELSE value

(* The deprecated flag counts when no mode is given. *)
PairMode(entry) == Given(entry.pair, IF entry.two THEN "optional" ELSE "none")

DepFields(dep) == [on |-> dep.on, link |-> Given(dep.link, "FS"), lag |-> Given(dep.lag, 0)]

-----------------------------------------------------------------------------
(* The load *)

(* The people there are, and those of the file that are missing. *)
LoadTeam(files) ==
    /\ seed.at = "none"
    /\ LET new == DOMAIN files.team \ DOMAIN db.people
           row == [p \in new |-> [label |-> files.team[p], tg |-> FALSE]]
       IN  seed' = [at |-> "templates", n |-> seed.n + 1, files |-> files, codes |-> Codes,
                    map |-> [p \in DOMAIN db.people \cup new |->
                                IF p \in new THEN files.team[p] ELSE db.people[p].label],
                    gone |-> {},
                    add |-> [Empty EXCEPT !.people = row]]
    /\ UNCHANGED <<db, loaded>>

(* Unknown people and unknown tasks raise, and so does a key that is there. *)
Loadable(entries) ==
    \A o \in DOMAIN entries :
        /\ \A i \in DOMAIN entries[o].people : entries[o].people[i].person \in DOMAIN seed.map
        /\ \A i, j \in DOMAIN entries[o].people :
               entries[o].people[i].person = entries[o].people[j].person => i = j
        /\ \A d \in entries[o].after : d.on \in DOMAIN entries
        /\ \A d, e \in entries[o].after : d.on = e.on => d = e

(* The rows of a template, whose keys have the number of the load; the order *)
(* of the list is the priority of people.                                   *)
TemplateRows(entries, code, n) ==
    LET key(o) == <<n, code, o>>
    IN  [Empty EXCEPT
            !.templates = {code},
            !.tasks = [k \in {key(o) : o \in DOMAIN entries} |->
                          [code |-> code, ord |-> k[3], pair |-> PairMode(entries[k[3]])]],
            !.assignees = UNION {
                {LET a == entries[o].people[i]
                 IN  [task |-> key(o), person |-> a.person, rank |-> Given(a.rank, i - 1),
                      strict |-> a.strict] : i \in DOMAIN entries[o].people} :
                o \in DOMAIN entries},
            !.deps = UNION {
                {[task |-> key(o), on |-> key(d.on), link |-> DepFields(d).link,
                  lag |-> DepFields(d).lag] : d \in entries[o].after} : o \in DOMAIN entries}]

Together(a, b) ==
    [people      |-> Over(a.people, b.people),
     templates   |-> a.templates \cup b.templates,
     tasks       |-> Over(a.tasks, b.tasks),
     assignees   |-> a.assignees \cup b.assignees,
     deps        |-> a.deps \cup b.deps,
     roleSkills  |-> a.roleSkills \cup b.roleSkills,
     personRoles |-> a.personRoles \cup b.personRoles]

TaskKeys(code) == {k \in DOMAIN db.tasks : db.tasks[k].code = code}

(* Mutant: a task keeps its row from load to load. *)
LoadTemplateInPlace ==
    /\ seed.at = "templates"
    /\ seed.codes # <<>>
    /\ LET code == Head(seed.codes)
           entries == seed.files.templates[code]
       IN  /\ Loadable(entries)
           /\ seed' = [seed EXCEPT
                  !.codes = Tail(@),
                  !.gone = @ \cup TaskKeys(code),
                  !.add = Together(@, TemplateRows(entries, code, 1))]
    /\ UNCHANGED <<db, loaded>>

(* The rows of the template make room for those of the file. *)
LoadTemplate ==
    /\ seed.at = "templates"
    /\ seed.codes # <<>>
    /\ LET code == Head(seed.codes)
           entries == seed.files.templates[code]
       IN  /\ Loadable(entries)
           /\ seed' = [seed EXCEPT
                  !.codes = Tail(@),
                  !.gone = @ \cup TaskKeys(code),
                  !.add = Together(@, TemplateRows(entries, code, seed.n))]
    /\ UNCHANGED <<db, loaded>>

RoleSkillsOf(files) == UNION {{role} \X files.roles[role] : role \in DOMAIN files.roles}

(* Everybody who is known, by the label he had when the people were read;   *)
(* labels that are no role, of this file or of one loaded before, are       *)
(* passed over.                                                             *)
PersonRolesOf(files) ==
    LET roles == UNION {DOMAIN f.roles : f \in {files} \cup ToSet(loaded)}
    IN  {<<p, seed.map[p]>> : p \in {q \in DOMAIN seed.map : seed.map[q] \in roles}}

(* Join rows are only added. *)
LoadCapability ==
    /\ seed.at = "templates"
    /\ seed.codes = <<>>
    /\ seed' = [seed EXCEPT !.at = "commit",
                    !.add.roleSkills = RoleSkillsOf(seed.files) \ db.roleSkills,
                    !.add.personRoles = PersonRolesOf(seed.files) \ db.personRoles]
    /\ UNCHANGED <<db, loaded>>

Kept ==
    [db EXCEPT !.tasks = Restrict(@, DOMAIN @ \ seed.gone),
               !.assignees = {a \in @ : a.task \notin seed.gone},
               !.deps = {d \in @ : d.task \notin seed.gone}]

(* Mutant: the join rows are rebuilt from the files. *)
CommitRebuilt ==
    /\ seed.at = "commit"
    /\ db' = [Together(Kept, seed.add) EXCEPT !.roleSkills = RoleSkillsOf(seed.files),
                                             !.personRoles = PersonRolesOf(seed.files)]
    /\ loaded' = Append(loaded, seed.files)
    /\ seed' = NoLoad(seed.n)

Commit ==
    /\ seed.at = "commit"
    /\ db' = Together(Kept, seed.add)
    /\ loaded' = Append(loaded, seed.files)
    /\ seed' = NoLoad(seed.n)

(* An exception, or the end of the program. *)
Rollback ==
    /\ seed.at # "none"
    /\ seed' = NoLoad(seed.n)
    /\ UNCHANGED <<db, loaded>>

SeedStep == LoadTemplate \/ LoadCapability \/ Commit \/ Rollback

(* What people do to the tables by hand: nothing in the program writes the  *)
(* Telegram id or the label of a person who is there, or a role of his.     *)
LinkTelegram(p) ==
    /\ p \in DOMAIN db.people
    /\ db' = [db EXCEPT !.people[p].tg = TRUE]
    /\ UNCHANGED <<seed, loaded>>

Relabel(p, role) ==
    /\ p \in DOMAIN db.people
    /\ db' = [db EXCEPT !.people[p].label = role]
    /\ UNCHANGED <<seed, loaded>>

GrantRole(p, role) ==
    /\ p \in DOMAIN db.people
    /\ <<p, role>> \notin db.personRoles
    /\ seed.at # "none" => <<p, role>> \notin seed.add.personRoles
    /\ db' = [db EXCEPT !.personRoles = @ \cup {<<p, role>>}]
    /\ UNCHANGED <<seed, loaded>>

-----------------------------------------------------------------------------
(* Reading a template: four statements, each with a snapshot of its own     *)

AssigneesOf(keys) == {a \in db.assignees : a.task \in keys}
DepsOf(keys) == {d \in db.deps : d.task \in keys}

(* The specs by ord, from the rows of the three statements. *)
TemplateSpecs(rows, assignees, deps) ==
    LET key(o) == CHOOSE k \in DOMAIN rows : rows[k].ord = o
        mine(k) == {a \in assignees : a.task = k}
        bound(k) == Sorted(mine(k), [a \in mine(k) |-> <<a.rank, a.strict>>])
    IN  [o \in {rows[k].ord : k \in DOMAIN rows} |->
            [pair    |-> rows[key(o)].pair,
             allowed |-> [i \in DOMAIN bound(key(o)) |-> bound(key(o))[i].person],
             after   |-> {[on |-> rows[d.on].ord, link |-> d.link, lag |-> d.lag] :
                             d \in {e \in deps : e.task = key(o) /\ e.on \in DOMAIN rows}}]]

-----------------------------------------------------------------------------
(* Who can do what *)

SkillsOf(p) ==
    {rs[2] : rs \in {x \in db.roleSkills : <<p, x[1]>> \in db.personRoles}}

(* A binding, if it names anybody who is known, is all there is to choose   *)
(* from; otherwise everybody of the house.                                  *)
Candidates(bound) ==
    LET known == bound \cap DOMAIN db.people
    IN  IF known # {} THEN known ELSE DOMAIN db.people \ Outside

Coverage(p, need) == Cardinality(need \cap SkillsOf(p))

(* By coverage, then by load, then by name. *)
Suggestions(need, bound) ==
    LET load(p) == IF p \in DOMAIN Hours THEN Hours[p] ELSE 0
        place(p) == CHOOSE i \in DOMAIN Persons : Persons[i] = p
    IN  Sorted(Candidates(bound), [p \in Candidates(bound) |->
                   <<Cardinality(need) - Coverage(p, need), load(p), place(p)>>])

(* Those who cover nothing are listed only if nobody covers anything. *)
Shown(need, bound) ==
    LET all == Suggestions(need, bound)
        some == SelectSeq(all, LAMBDA p : Coverage(p, need) > 0)
    IN  IF some = <<>> THEN all ELSE some
=============================================================================
