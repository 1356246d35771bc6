------------------------------ MODULE ChatGate ------------------------------
(***************************************************************************)
(* From a Telegram message to a turn of the bot, with its agent: the route  *)
(* by the FSM's state, the throttle, the author's rights, the rules of      *)
(* groups and voices, the chat history, and the two reads of seeded data    *)
(* that an answer may rest on.  Handlers interleave with each other, with a *)
(* running seed and with the clock, and any may fail between two steps.     *)
(***************************************************************************)
EXTENDS SeedData

CONSTANTS Handlers,
          Users,
          PersonOf,     (* user -> the name of his person, or None            *)
          Admins,       (* the users among the configured ids                 *)
          Chats,
          Private,      (* the private chats                                  *)
          TeamChat,
          Messages,     (* what is sent: [form, addressed, wish]              *)
          Needs,        (* the skills asked for, with a binding: [need, bound]*)
          MinInterval,  (* of the throttle                                    *)
          ArmWindow,    (* of VoiceArm                                        *)
          MaxTurns,     (* of ChatHistory                                     *)
          Budgets       (* bounds: [messages, ticks, loads, edits, presses,    *)
                        (* fails, restarts], and chats, those in use          *)

ASSUME GateAssumption ==
    /\ MinInterval \in Nat \ {0} /\ ArmWindow \in Nat /\ MaxTurns \in Nat
    /\ Private \subseteq Chats
    /\ \A ask \in Needs : IsFiniteSet(ask.need)

VARIABLES clock,
          lastSeen,   (* ThrottleMiddleware._last_seen                        *)
          armed,      (* VoiceArm._armed: <<chat, user>> -> time              *)
          history,    (* ChatHistory._by_chat: chat -> who said the last texts*)
          fsm,        (* <<chat, user>> -> [awaits, pending]                  *)
          run,        (* handler -> what it does                              *)
          calls,      (* what became, and when, of the texts that addressed    *)
                      (* the bot in a group since the process started and     *)
                      (* passed the throttle: [user, chat, at, fate, when];   *)
                      (* not in the program                                   *)
          left        (* what is left of the bounds                           *)

memory == <<lastSeen, armed, history>>
vars == <<db, seed, loaded, clock, lastSeen, armed, history, fsm, run, calls, left>>

Idle == [at |-> "idle"]
Bot == "bot"

Init ==
    /\ SeedInit
    /\ clock = 0
    /\ lastSeen = <<>>
    /\ armed = <<>>
    /\ history = [c \in Chats |-> <<>>]
    /\ fsm = [k \in Chats \X Users |-> [awaits |-> "none", pending |-> FALSE]]
    /\ run = [h \in Handlers |-> Idle]
    /\ calls = {}
    /\ left \in Budgets

Spend(what) ==
    /\ left[what] > 0
    /\ left' = [left EXCEPT ![what] = @ - 1]

To(h, at) == run' = [run EXCEPT ![h].at = at]
End(h) == run' = [run EXCEPT ![h] = Idle]

At(h, stage) == run[h].at = stage
Key(h) == <<run[h].chat, run[h].user>>
InGroup(h) == run[h].chat \notin Private

-----------------------------------------------------------------------------
(* Middlewares *)

(* The FSM's state is read before all else, and with it the handler is       *)
(* chosen: an answer to a question of the clarify flow is looked for first,  *)
(* then voices and commands, then edits.                                    *)
Kind(u, c, m) ==
    LET awaits == fsm[<<c, u>>].awaits
    IN  IF awaits = "answer" /\ m.form # "voice" THEN "answer"
        ELSE IF awaits = "edit" /\ m.form = "text" THEN "edit"
        ELSE m.form

Receive(h, u, c, m) ==
    /\ run[h] = Idle
    /\ c \in left.chats
    /\ Spend("messages")
    /\ run' = [run EXCEPT ![h] = [at |-> "throttle", user |-> u, chat |-> c,
                                  message |-> m, kind |-> Kind(u, c, m)]]
    /\ UNCHANGED <<tables, memory, clock, fsm, calls>>

CallsBot(h) ==
    run[h].message.form = "text" /\ run[h].message.addressed /\ InGroup(h)

(* Whoever wrote less than the interval ago is not heard, which changes     *)
(* nothing; and the interval runs on from any message a handler takes.      *)
Throttle(h) ==
    LET u == run[h].user
    IN  /\ At(h, "throttle")
        /\ \/ /\ u \in DOMAIN lastSeen
              /\ clock - lastSeen[u] < MinInterval
              /\ End(h)
              /\ UNCHANGED <<lastSeen, calls>>
           \/ /\ u \in DOMAIN lastSeen => clock - lastSeen[u] >= MinInterval
              /\ lastSeen' = Put(lastSeen, u, clock)
              /\ run' = [run EXCEPT ![h] = Over([at |-> "actor", since |-> clock], @)]
              /\ calls' = IF CallsBot(h)
                          THEN calls \cup {[user |-> u, chat |-> run[h].chat, at |-> clock,
                                            fate |-> "way", when |-> clock]}
                          ELSE calls
        /\ UNCHANGED <<tables, clock, armed, history, fsm, left>>

(* A button is not throttled. *)
Press(h, u, c, button) ==
    /\ run[h] = Idle
    /\ c \in left.chats
    /\ Spend("presses")
    /\ run' = [run EXCEPT ![h] =
           [at |-> "actor", user |-> u, chat |-> c, since |-> clock, kind |-> "press",
            message |-> [form |-> "press", addressed |-> TRUE, wish |-> button]]]
    /\ UNCHANGED <<tables, memory, clock, fsm, calls>>

IsKnown(u) == PersonOf[u] \in DOMAIN db.people /\ db.people[PersonOf[u]].tg

ResolveActor(h) ==
    /\ At(h, "actor")
    /\ run' = [run EXCEPT ![h] =
           Over([at |-> "route",
            rights |-> \/ IsKnown(run[h].user)
                       \/ run[h].user \in Admins
                       \/ run[h].chat = TeamChat], @)]
    /\ UNCHANGED <<tables, memory, clock, fsm, calls, left>>

-----------------------------------------------------------------------------
(* Routing *)

Routed(h, kind) == At(h, "route") /\ run[h].kind = kind

Noted(h, fate) ==
    calls' = IF CallsBot(h)
             THEN calls \cup {[user |-> run[h].user, chat |-> run[h].chat,
                               at |-> run[h].since, fate |-> fate, when |-> clock]}
             ELSE calls

(* Somebody whose edit is awaited is listened to, whatever he writes and to  *)
(* whom; his text arms nothing.                                             *)
HearEdit(h) ==
    /\ Routed(h, "edit")
    /\ run' = [run EXCEPT ![h] = Over([at |-> "gate", last |-> fsm[Key(h)].pending], @)]
    /\ Noted(h, "taken")
    /\ UNCHANGED <<tables, memory, clock, fsm, left>>

(* So is somebody who is to type an answer: it is not understood, or the     *)
(* next question is asked, or the state is cleared and the task captured.   *)
HearAnswer(h) ==
    /\ Routed(h, "answer")
    /\ Noted(h, "taken")
    /\ \/ End(h) /\ UNCHANGED fsm
       \/ End(h) /\ fsm' = [fsm EXCEPT ![Key(h)].awaits = "none"]
       \/ To(h, "wipe") /\ fsm' = [fsm EXCEPT ![Key(h)].awaits = "none"]
    /\ UNCHANGED <<tables, memory, clock, left>>

IsAddressed(h) == ~InGroup(h) \/ run[h].message.addressed

(* A text for somebody else is let be; one for the bot arms the next voice,  *)
(* and if there is nothing but the mention, is answered at once.            *)
HearText(h) ==
    /\ Routed(h, "text")
    /\ armed' = IF InGroup(h) /\ IsAddressed(h) THEN Put(armed, Key(h), clock) ELSE armed
    /\ Noted(h, "heard")
    /\ IF IsAddressed(h) /\ run[h].message.wish # "none" THEN To(h, "gate") ELSE End(h)
    /\ UNCHANGED <<tables, lastSeen, history, clock, fsm, left>>

(* The command is heard in every chat. *)
HearTask(h) ==
    /\ Routed(h, "task")
    /\ IF run[h].message.wish # "none" THEN To(h, "gate") ELSE End(h)
    /\ UNCHANGED <<tables, memory, clock, fsm, calls, left>>

(* Mutant: the window is not looked at. *)
IsArmedForever(c, u) == <<c, u>> \in DOMAIN armed

IsArmed(c, u) == <<c, u>> \in DOMAIN armed /\ clock - armed[c, u] <= ArmWindow

HearVoice(h) ==
    /\ Routed(h, "voice")
    /\ IF IsAddressed(h) \/ IsArmed(run[h].chat, run[h].user)
       THEN run' = [run EXCEPT ![h] = Over([at |-> "speech", listened |-> clock], @)]
       ELSE End(h)
    /\ UNCHANGED <<tables, memory, clock, fsm, calls, left>>

(* The words, or an apology: too big, not downloaded, not recognised or not  *)
(* in time.                                                                 *)
Transcribe(h) ==
    /\ At(h, "speech")
    /\ To(h, "gate") \/ End(h)
    /\ UNCHANGED <<tables, memory, clock, fsm, calls, left>>

(* "Edit" pressed under a proposal, by whoever may: the state is set, and     *)
(* then the data.  Or a button of the clarify flow that asks to type.       *)
HearPress(h) ==
    /\ Routed(h, "press")
    /\ IF run[h].message.wish = "type"
       THEN End(h) /\ fsm' = [fsm EXCEPT ![Key(h)].awaits = "answer"]
       ELSE IF run[h].rights
       THEN To(h, "pending") /\ fsm' = [fsm EXCEPT ![Key(h)].awaits = "edit"]
       ELSE End(h) /\ UNCHANGED fsm
    /\ UNCHANGED <<tables, memory, clock, calls, left>>

-----------------------------------------------------------------------------
(* Turns *)

Refuse(h) ==
    /\ At(h, "gate")
    /\ ~run[h].rights
    /\ End(h)
    /\ UNCHANGED <<tables, memory, clock, fsm, calls, left>>

LastPending(h) == run[h].kind = "edit" /\ run[h].last

Confirms(h) ==
    run[h].message.wish = "confirm" /\ (fsm[Key(h)].pending \/ LastPending(h))

(* A bare yes to a proposal ends the edit loop, whatever comes of it. *)
ConfirmPending(h) ==
    /\ At(h, "gate")
    /\ run[h].rights
    /\ Confirms(h)
    /\ To(h, "clear")
    /\ UNCHANGED <<tables, memory, clock, fsm, calls, left>>

(* The state is cleared, and then the data. *)
ClearState(h) ==
    /\ At(h, "clear")
    /\ fsm' = [fsm EXCEPT ![Key(h)].awaits = "none"]
    /\ To(h, "wipe")
    /\ UNCHANGED <<tables, memory, clock, calls, left>>

ClearData(h) ==
    /\ At(h, "wipe")
    /\ fsm' = [fsm EXCEPT ![Key(h)].pending = FALSE]
    /\ End(h)
    /\ UNCHANGED <<tables, memory, clock, calls, left>>

(* Mutant: nothing is ever dropped. *)
SaidAll(c, who) == history' = [history EXCEPT ![c] = Append(@, who)]

Said(c, who) ==
    LET turns == Append(history[c], who)
    IN  history' = [history EXCEPT ![c] =
            IF Len(turns) > MaxTurns THEN Tail(turns) ELSE turns]

(* The people and the projects have been read; the history is taken before   *)
(* the message becomes part of it.                                          *)
Remember(h) ==
    /\ At(h, "gate")
    /\ run[h].rights
    /\ ~Confirms(h)
    /\ Said(run[h].chat, run[h].user)
    /\ run' = [run EXCEPT ![h] =
           Over([at |-> CASE run[h].message.wish = "plan" -> "template"
                     [] run[h].message.wish = "who" /\ run[h].kind # "edit" -> "suggest"
                     [] OTHER -> "reply",
            recent |-> history[run[h].chat], proposed |-> FALSE], @)]
    /\ UNCHANGED <<tables, lastSeen, armed, clock, fsm, calls, left>>

SelectTemplate(h, code) ==
    /\ At(h, "template")
    /\ run' = [run EXCEPT ![h] =
           IF code \in db.templates THEN Over([at |-> "tasks", code |-> code], @)
                                    ELSE [@ EXCEPT !.at = "reply"]]
    /\ UNCHANGED <<tables, memory, clock, fsm, calls, left>>

(* then is not in the program: how many loads had committed. *)
SelectTasks(h) ==
    /\ At(h, "tasks")
    /\ run' = [run EXCEPT ![h] =
           Over([at |-> "assignees", rows |-> Restrict(db.tasks, TaskKeys(run[h].code)),
            then |-> Len(loaded)], @)]
    /\ UNCHANGED <<tables, memory, clock, fsm, calls, left>>

SelectAssignees(h) ==
    /\ At(h, "assignees")
    /\ run' = [run EXCEPT ![h] =
           Over([at |-> "deps", assignees |-> AssigneesOf(DOMAIN run[h].rows)], @)]
    /\ UNCHANGED <<tables, memory, clock, fsm, calls, left>>

SelectDependencies(h) ==
    /\ At(h, "deps")
    /\ run' = [run EXCEPT ![h] =
           Over([at |-> "read",
            specs |-> TemplateSpecs(run[h].rows, run[h].assignees,
                                    DepsOf(DOMAIN run[h].rows)),
            during |-> Len(loaded) - run[h].then], @)]
    /\ UNCHANGED <<tables, memory, clock, fsm, calls, left>>

(* A template without tasks is refused; or else there may be a proposal. *)
PlanRead(h) ==
    /\ At(h, "read")
    /\ \E proposed \in BOOLEAN :
           /\ proposed => DOMAIN run[h].specs # {}
           /\ run' = [run EXCEPT ![h].at = "reply", ![h].proposed = proposed]
    /\ UNCHANGED <<tables, memory, clock, fsm, calls, left>>

FindAssignees(h, ask) ==
    /\ At(h, "suggest")
    /\ run' = [run EXCEPT ![h] =
           Over([at |-> "reply", shown |-> Shown(ask.need, ask.bound)], @)]
    /\ UNCHANGED <<tables, memory, clock, fsm, calls, left>>

(* The answer joins the history, unless it is the first question of a        *)
(* clarify flow, which ends what was awaited and forgets the proposal.      *)
Reply(h) ==
    /\ At(h, "reply")
    /\ run[h].kind # "edit"
    /\ \/ /\ fsm' = [fsm EXCEPT ![Key(h)].awaits = "none"]
          /\ End(h)
          /\ UNCHANGED history
       \/ /\ Said(run[h].chat, Bot)
          /\ IF run[h].proposed THEN To(h, "stash") ELSE End(h)
          /\ UNCHANGED fsm
    /\ UNCHANGED <<tables, lastSeen, armed, clock, calls, left>>

(* An edit has no agent, and its answer joins no history; one that is parsed *)
(* as a confirmation, and succeeds, clears the state.                       *)
ReplyEdit(h) ==
    /\ At(h, "reply")
    /\ run[h].kind = "edit"
    /\ \/ To(h, "stash") /\ run[h].proposed
       \/ End(h) /\ ~run[h].proposed
       \/ To(h, "clear") /\ run[h].message.wish = "other" /\ (run[h].last \/ fsm[Key(h)].pending)
    /\ UNCHANGED <<tables, memory, clock, fsm, calls, left>>

(* A proposal is stashed to be confirmed by a bare yes, and the edit loop    *)
(* goes on with it: its state is set, and then its data once more.          *)
Stash(h) ==
    /\ At(h, "stash")
    /\ fsm' = [fsm EXCEPT ![Key(h)].pending = TRUE]
    /\ IF run[h].kind = "edit" THEN To(h, "rearm") ELSE End(h)
    /\ UNCHANGED <<tables, memory, clock, calls, left>>

Rearm(h) ==
    /\ At(h, "rearm")
    /\ fsm' = [fsm EXCEPT ![Key(h)].awaits = "edit"]
    /\ To(h, "pending")
    /\ UNCHANGED <<tables, memory, clock, calls, left>>

KeepPending(h) ==
    /\ At(h, "pending")
    /\ fsm' = [fsm EXCEPT ![Key(h)].pending = TRUE]
    /\ End(h)
    /\ UNCHANGED <<tables, memory, clock, calls, left>>

-----------------------------------------------------------------------------
(* The database, the FSM's storage, Telegram or a model refuses: the author  *)
(* gets an apology.                                                         *)
Fail(h) ==
    /\ run[h] # Idle
    /\ ~At(h, "throttle")
    /\ Spend("fails")
    /\ End(h)
    /\ IF run[h].at \in {"actor", "route"} THEN Noted(h, "failed") ELSE UNCHANGED calls
    /\ UNCHANGED <<tables, memory, clock, fsm>>

Tick ==
    /\ Spend("ticks")
    /\ clock' = clock + 1
    /\ UNCHANGED <<tables, memory, fsm, run, calls>>

(* The process keeps nothing; the database and the FSM are elsewhere. *)
Restart ==
    /\ Spend("restarts")
    /\ lastSeen' = <<>>
    /\ armed' = <<>>
    /\ history' = [c \in Chats |-> <<>>]
    /\ run' = [h \in Handlers |-> Idle]
    /\ calls' = {}
    /\ UNCHANGED <<tables, clock, fsm>>

OtherThan(h) ==
    \/ Throttle(h) \/ ResolveActor(h)
    \/ HearEdit(h) \/ HearAnswer(h) \/ HearText(h) \/ HearTask(h) \/ HearVoice(h)
    \/ HearPress(h) \/ Transcribe(h)
    \/ Refuse(h) \/ ConfirmPending(h) \/ ClearState(h) \/ ClearData(h) \/ Remember(h)
    \/ \E i \in DOMAIN Codes : SelectTemplate(h, Codes[i])
    \/ SelectTasks(h) \/ SelectAssignees(h) \/ SelectDependencies(h) \/ PlanRead(h)
    \/ \E ask \in Needs : FindAssignees(h, ask)
    \/ Reply(h) \/ ReplyEdit(h) \/ Stash(h) \/ Rearm(h) \/ KeepPending(h)
    \/ Fail(h)

Roles == UNION {DOMAIN f.roles : f \in Files}

SeedNext ==
    /\ \/ \E files \in Files : Spend("loads") /\ LoadTeam(files)
       \/ SeedStep /\ UNCHANGED left
       \/ /\ Spend("edits")
          /\ \E i \in DOMAIN Persons :
                 \/ LinkTelegram(Persons[i])
                 \/ \E role \in Roles : Relabel(Persons[i], role) \/ GrantRole(Persons[i], role)
    /\ UNCHANGED <<memory, clock, fsm, run, calls>>

Next ==
    \/ \E h \in Handlers :
           \/ OtherThan(h)
           \/ \E u \in Users, c \in Chats, m \in Messages : Receive(h, u, c, m)
           \/ \E u \in Users, c \in Chats, button \in {"edit", "type"} :
                  Press(h, u, c, button)
    \/ Tick \/ Restart
    \/ SeedNext

Spec == Init /\ [][Next]_vars

-----------------------------------------------------------------------------
(* Properties *)

(* Rows refer to rows that exist, what the process remembers is of the past  *)
(* and bounded, and an FSM awaits one thing at most.                        *)
TypeOK ==
    /\ \A a \in db.assignees : a.task \in DOMAIN db.tasks /\ a.person \in DOMAIN db.people
    /\ \A d \in db.deps : d.task \in DOMAIN db.tasks /\ d.on \in DOMAIN db.tasks
    /\ \A pr \in db.personRoles : pr[1] \in DOMAIN db.people
    /\ \A u \in DOMAIN lastSeen : lastSeen[u] \in 0..clock
    /\ \A k \in DOMAIN armed : armed[k] \in 0..clock /\ k[1] \notin Private
    /\ \A c \in Chats : Len(history[c]) <= MaxTurns
    /\ \A k \in DOMAIN fsm :
           fsm[k].awaits \in {"none", "edit", "answer"} /\ fsm[k].pending \in BOOLEAN

(* What was read is the template of the file: whole, with its people in the  *)
(* order of their priorities, if no load committed in between, and otherwise, *)
(* at worst, without its people or its links; never with people or links of  *)
(* another load, and not without its people if it has a link.                *)
ReadFrom(file, specs, during) ==
    LET links(o) == {DepFields(d) : d \in file[o].after}
        people(o) == [i \in DOMAIN file[o].people |-> file[o].people[i].person]
        rank(o, i) == Given(file[o].people[i].rank, i - 1)
        linked == \E o \in DOMAIN specs : specs[o].after # {}
    IN  /\ DOMAIN specs = DOMAIN file
        /\ \A o \in DOMAIN file :
               /\ specs[o].pair = PairMode(file[o])
               /\ ToSet(specs[o].allowed) \in {ToSet(people(o)), {}}
               /\ specs[o].after \in {links(o), {}}
               /\ during = 0 \/ linked =>
                      /\ ToSet(specs[o].allowed) = ToSet(people(o))
                      /\ \A i, j \in DOMAIN people(o) :
                             rank(o, i) < rank(o, j) =>
                                 \E m \in DOMAIN specs[o].allowed :
                                     /\ specs[o].allowed[m] = people(o)[i]
                                     /\ people(o)[j] \in ToSet(SubSeq(
                                            specs[o].allowed, m + 1, Len(people(o))))
               /\ during = 0 => specs[o].after = links(o)

(* A template that was read is that of one file set, the last one that was   *)
(* loaded when its tasks were read.                                          *)
TemplateOfOneFile ==
    \A h \in Handlers : At(h, "read") =>
        LET r == run[h]
        IN  ReadFrom(loaded[r.then].templates[r.code], r.specs, r.during)

Best(need) ==
    IF Suggestions(need, {}) = <<>> THEN 0 ELSE Coverage(Suggestions(need, {})[1], need)

(* Loading again, another file set, halfway or not at all, takes no ability  *)
(* from anybody: each person keeps his skills, and the best suggestion for a *)
(* need never covers less of it than before.                                 *)
LearnedIsKept ==
    [][/\ \A p \in DOMAIN db.people :
              p \in DOMAIN db'.people /\ SkillsOf(p) \subseteq SkillsOf(p)'
       /\ \A ask \in Needs : Best(ask.need)' >= Best(ask.need)]_vars

Called(h) == {c \in calls : c.user = run[h].user /\ c.chat = run[h].chat}

OnItsWay(c) ==
    \E g \in Handlers :
        /\ run[g].at \in {"actor", "route"}
        /\ run[g].user = c.user /\ run[g].chat = c.chat /\ run[g].since = c.at

(* The bot takes part on purpose only.  A voice in a group that does not     *)
(* address it is listened to only if a text of its author in that chat that  *)
(* did was heard within the window before; and passed over only if each such *)
(* text was heard longer ago than the window, is on its way still, came to    *)
(* nothing by a failure, or, contrary to what VoiceArm promises, was taken as *)
(* an edit or a typed answer, which arm nothing; a turn is had only with a   *)
(* person of the team, an administrator or somebody in the team's chat.      *)
HeardOnPurpose ==
    \A h \in Handlers :
        LET r == run[h]
        IN  /\ At(h, "speech") /\ ~IsAddressed(h) =>
                   \E c \in Called(h) :
                       c.fate = "heard" /\ r.listened \in c.when..(c.when + ArmWindow)
            /\ Routed(h, "voice") /\ ~IsAddressed(h) /\ ~IsArmed(r.chat, r.user) =>
                   \A c \in Called(h) :
                       /\ c.fate = "heard" => clock > c.when + ArmWindow
                       /\ c.fate = "way" =>
                              \/ OnItsWay(c)
                              \/ \E d \in calls :
                                     d.fate # "way" /\ d = [c EXCEPT !.fate = d.fate,
                                                                     !.when = d.when]
            /\ r.at \in {"template", "tasks", "assignees", "deps", "read", "suggest",
                         "reply", "stash", "rearm", "pending"} =>
                   \/ IsKnown(r.user)
                   \/ r.user \in Admins
                   \/ r.chat = TeamChat
=============================================================================
