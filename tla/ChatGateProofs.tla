---------------------------- MODULE ChatGateProofs ----------------------------
(***************************************************************************)
(* Proofs about ChatGate, for any chats, people, files and bounds: whoever   *)
(* the bot listens to, it listens to on purpose; rows refer to rows, also    *)
(* while a load replaces the templates; a template read in three queries     *)
(* beside such a load is a template of one file; and nobody loses a skill.   *)
(***************************************************************************)
EXTENDS ChatGate, FiniteSetTheorems, SequenceTheorems, WellFoundedInduction, TLAPS

(* A message on its way through the middlewares and the router.              *)
Pending == {"actor", "route"}
InTurn == {"template", "tasks", "assignees", "deps", "read", "suggest", "reply",
           "stash", "rearm", "pending"}
Stages == {"idle", "throttle", "speech", "gate", "clear", "wipe"} \cup Pending \cup InTurn

Basic == {"at", "user", "chat", "message", "kind"}
All == Basic \cup {"since", "rights"}

(* A handler knows whose message it has and in what chat, and once it is past *)
(* the throttle, from when.                                                 *)
RunOK(h) ==
    LET r == run[h] IN
    /\ r.at \in Stages
    /\ r.at = "idle" => r = Idle
    /\ r.at # "idle" => /\ Basic \subseteq DOMAIN r /\ r.user \in Users /\ r.chat \in Chats
                        /\ r.kind \in {"edit", "answer"} \/ r.kind = r.message.form
    /\ r.at \notin {"idle", "throttle"} => "since" \in DOMAIN r

(* The text of a call is on its way still, or something has become of it.    *)
Of(c, h) == c.user = run[h].user /\ c.chat = run[h].chat /\ c.at = run[h].since

Carried(c) == \E g \in Handlers : run[g].at \in Pending /\ CallsBot(g) /\ Of(c, g)

Settled(c) ==
    \E d \in calls : d.fate # "way" /\ d.user = c.user /\ d.chat = c.chat /\ d.at = c.at

(* A text that was heard has armed its author's voice, no earlier than that. *)
CallOK(c) ==
    /\ c = [user |-> c.user, chat |-> c.chat, at |-> c.at, fate |-> c.fate, when |-> c.when]
    /\ c.when \in 0..clock
    /\ c.fate = "way" => Carried(c) \/ Settled(c)
    /\ c.fate = "heard" => <<c.chat, c.user>> \in DOMAIN armed
                           /\ c.when <= armed[<<c.chat, c.user>>]

(* Whoever is armed was heard, and armed then.                               *)
HeardAt(u, c, t) ==
    \E d \in calls : d.fate = "heard" /\ d.user = u /\ d.chat = c /\ d.when = t

ArmedOK ==
    /\ \A u \in DOMAIN lastSeen : lastSeen[u] \in 0..clock
    /\ \A k \in DOMAIN armed :
           armed[k] \in 0..clock /\ k[1] \notin Private /\ HeardAt(k[2], k[1], armed[k])

Entitled(h) ==
    IsKnown(run[h].user) \/ run[h].user \in Admins \/ run[h].chat = TeamChat

HeardBefore(h) ==
    \E c \in calls :
        /\ c.fate = "heard" /\ c.user = run[h].user /\ c.chat = run[h].chat
        /\ run[h].listened \in c.when..(c.when + ArmWindow)

HeardOK(h) ==
    /\ run[h].at = "speech" /\ ~IsAddressed(h) => HeardBefore(h)
    /\ run[h].at \in Stages \ {"idle", "throttle", "actor"} =>
           "rights" \in DOMAIN run[h] /\ (run[h].rights => Entitled(h))
    /\ run[h].at \in InTurn => run[h].rights

Frame == clock \in Nat /\ DOMAIN run = Handlers /\ DOMAIN fsm = Chats \X Users

GateInv ==
    /\ Frame
    /\ \A h \in Handlers : RunOK(h) /\ HeardOK(h)
    /\ \A c \in calls : CallOK(c)
    /\ ArmedOK

-----------------------------------------------------------------------------
(* A handler goes on, or ends: its message and the rights of the author stay *)
(* as they are.                                                             *)
Alone(h) ==
    DOMAIN run' = Handlers /\ \A g \in Handlers \ {h} : run'[g] = run[g]

Carries(h) ==
    /\ Basic \cup {"since"} \subseteq DOMAIN run'[h]
    /\ run'[h].user = run[h].user /\ run'[h].chat = run[h].chat
    /\ run'[h].message = run[h].message /\ run'[h].kind = run[h].kind
    /\ run[h].at # "throttle" => run'[h].since = run[h].since
    /\ run[h].at \notin {"throttle", "actor"} =>
           "rights" \in DOMAIN run'[h] /\ run'[h].rights = run[h].rights

Onward(h) ==
    /\ run[h].at # "idle" /\ run'[h].at \in Stages \ {"throttle"}
    /\ Alone(h)
    /\ IF run'[h].at = "idle" THEN run'[h] = Idle ELSE Carries(h)

(* Nothing is forgotten of who called, what became of it and who is known.   *)
StillKnown == \A u : IsKnown(u) => IsKnown(u)'

StillArmed == \A k \in DOMAIN armed : k \in DOMAIN armed' /\ armed[k] <= armed'[k]

LEMMA HeardStays ==
    ASSUME NEW h \in Handlers, HeardOK(h), run'[h] = run[h], StillKnown, calls \subseteq calls'
    PROVE  HeardOK(h)'
<1>1. HeardBefore(h) => HeardBefore(h)' BY DEF HeardBefore
<1>2. Entitled(h) => Entitled(h)' BY DEF Entitled, StillKnown
<1> QED BY <1>1, <1>2 DEF HeardOK, IsAddressed, InGroup

(* What holds of a call goes on to hold while its text is carried.           *)
LEMMA CallStays ==
    ASSUME GateInv, NEW c \in calls, Carried(c) => Carried(c)' \/ Settled(c)',
           calls \subseteq calls', StillArmed, clock' \in Nat, clock <= clock', ArmedOK'
    PROVE  CallOK(c)'
<1>1. CallOK(c) /\ clock \in Nat BY DEF GateInv, Frame
<1>2. Settled(c) => Settled(c)' BY DEF Settled
<1>3. c.when \in 0..clock' BY <1>1 DEF CallOK
<1>4. c.fate = "way" => Carried(c)' \/ Settled(c)' BY <1>1, <1>2 DEF CallOK
<1>5. ASSUME c.fate = "heard"
      PROVE  <<c.chat, c.user>> \in DOMAIN armed' /\ c.when <= armed'[<<c.chat, c.user>>]
  <2> PICK k : k = <<c.chat, c.user>> OBVIOUS
  <2>1. k \in DOMAIN armed /\ c.when <= armed[k] /\ c.when \in 0..clock
    BY <1>1, <1>5 DEF CallOK
  <2>2. k \in DOMAIN armed' /\ armed[k] <= armed'[k] BY <2>1 DEF StillArmed
  <2>3. armed[k] \in 0..clock /\ armed'[k] \in 0..clock'
    BY <2>1, <2>2 DEF GateInv, ArmedOK
  <2> QED BY <1>1, <2>1, <2>2, <2>3
<1> QED BY <1>1, <1>3, <1>4, <1>5 DEF CallOK

(* The step of one handler: the text it carries goes on to be carried, or it  *)
(* is told what became of it.                                               *)
LEMMA HandlerSteps ==
    ASSUME GateInv, NEW h \in Handlers, Onward(h), HeardOK(h)', Frame', UNCHANGED clock,
           StillKnown, StillArmed, ArmedOK', calls \subseteq calls', \A c \in calls' \ calls : CallOK(c)',
           \/ run'[h].at \in Pending \/ ~(run[h].at \in Pending /\ CallsBot(h))
           \/ \E d \in calls' : d.fate # "way" /\ Of(d, h)
    PROVE  GateInv'
<1>1. ASSUME NEW c \in calls, Carried(c) PROVE Carried(c)' \/ Settled(c)'
  <2>1. PICK g \in Handlers : run[g].at \in Pending /\ CallsBot(g) /\ Of(c, g)
    BY <1>1 DEF Carried
  <2>2. CASE g # h
    <3>1. run'[g] = run[g] BY <2>2 DEF Onward, Alone
    <3>2. run'[g].at \in Pending /\ CallsBot(g)' /\ Of(c, g)'
      BY <2>1, <3>1 DEF CallsBot, InGroup, Of
    <3> QED BY <3>2 DEF Carried
  <2>3. CASE g = h /\ run'[h].at \in Pending
    <3>1. Carries(h) BY <2>3 DEF Onward, Pending
    <3>2. CallsBot(h)' /\ Of(c, h)'
      BY <2>1, <2>3, <3>1 DEF Carries, CallsBot, InGroup, Of, Pending
    <3> QED BY <2>3, <3>2 DEF Carried
  <2>4. CASE g = h /\ run'[h].at \notin Pending
    <3>1. PICK d \in calls' : d.fate # "way" /\ Of(d, h) BY <2>1, <2>4
    <3> QED BY <2>1, <2>4, <3>1 DEF Settled, Of
  <2> QED BY <2>2, <2>3, <2>4
<1>2. clock \in Nat BY DEF GateInv, Frame
<1>3. \A c \in calls' : CallOK(c)' BY <1>1, <1>2, CallStays
<1>4. ASSUME NEW g \in Handlers PROVE RunOK(g)'
  <2>1. RunOK(g) BY DEF GateInv
  <2>2. CASE g # h
    <3>1. run'[g] = run[g] BY <2>2 DEF Onward, Alone
    <3> QED BY <2>1, <3>1 DEF RunOK
  <2>3. CASE g = h BY <2>1, <2>3 DEF Onward, Carries, RunOK
  <2> QED BY <2>2, <2>3
<1>5. ASSUME NEW g \in Handlers PROVE HeardOK(g)'
  <2>1. g # h => run'[g] = run[g] /\ HeardOK(g) BY DEF Onward, Alone, GateInv
  <2> QED BY <2>1, HeardStays
<1> QED BY <1>3, <1>4, <1>5 DEF GateInv

-----------------------------------------------------------------------------
(* The steps of a handler that arm nothing.                                  *)

LEMMA AddedFields ==
    ASSUME NEW f, NEW g
    PROVE  /\ DOMAIN Over(f, g) = DOMAIN f \cup DOMAIN g
           /\ \A x \in DOMAIN f : Over(f, g)[x] = f[x]
           /\ \A x \in DOMAIN g \ DOMAIN f : Over(f, g)[x] = g[x]
BY DEF Over

LEMMA TablesKnow ==
    ASSUME UNCHANGED db PROVE StillKnown
BY DEF StillKnown, IsKnown

(* The author's rights are found out when he is resolved, and hold from then.*)
LEMMA HeardOn ==
    ASSUME NEW h \in Handlers, GateInv, Onward(h), UNCHANGED db, calls \subseteq calls',
           run[h].at \notin {"throttle", "actor"}, run'[h].at # "actor",
           run'[h].at = "speech" /\ ~IsAddressed(h) => HeardBefore(h)',
           run'[h].at \in InTurn => run[h].rights
    PROVE  HeardOK(h)'
<1>1. HeardOK(h) BY DEF GateInv
<1>2. CASE run'[h].at = "idle" BY <1>2 DEF HeardOK, InTurn
<1>3. CASE run'[h].at # "idle"
  <2>1. Carries(h) /\ run[h].at \in Stages \ {"idle", "throttle", "actor"}
    BY <1>3 DEF Onward, GateInv, RunOK
  <2>2. "rights" \in DOMAIN run[h] /\ (run[h].rights => Entitled(h))
    BY <1>1, <2>1 DEF HeardOK
  <2>3. Entitled(h) => Entitled(h)' BY <2>1 DEF Entitled, IsKnown, Carries
  <2>4. IsAddressed(h)' <=> IsAddressed(h) BY <2>1 DEF Carries, IsAddressed, InGroup
  <2> QED BY <2>1, <2>2, <2>3, <2>4 DEF HeardOK, Carries
<1> QED BY <1>2, <1>3

LEMMA GateAt ==
    ASSUME GateInv, NEW h \in Handlers, run[h].at # "idle"
    PROVE  /\ h \in DOMAIN run /\ run[h].at \in Stages /\ Basic \subseteq DOMAIN run[h]
           /\ run[h].at # "throttle" => "since" \in DOMAIN run[h]
           /\ run[h].at \notin {"throttle", "actor"} => "rights" \in DOMAIN run[h]
BY DEF GateInv, Frame, RunOK, HeardOK

LEMMA Actor ==
    ASSUME GateInv, NEW h \in Handlers, ResolveActor(h)
    PROVE  GateInv'
<1> DEFINE r == run[h]
<1>1. PICK s : s = [at |-> "route", rights |-> IsKnown(r.user) \/ r.user \in Admins
                                              \/ r.chat = TeamChat]
  OBVIOUS
<1>2. h \in DOMAIN run /\ r.at = "actor" /\ Basic \cup {"since"} \subseteq DOMAIN r
  BY GateAt DEF ResolveActor, At
<1>3. run' = [run EXCEPT ![h] = Over(s, r)] BY <1>1, <1>2 DEF ResolveActor
<1>4. DOMAIN s = {"at", "rights"} /\ s.at = "route" BY <1>1
<1>5. s.rights => Entitled(h) BY <1>1 DEF Entitled
<1>6. run'[h] = Over(s, r) /\ Alone(h) BY <1>2, <1>3 DEF Alone, GateInv, Frame
<1>7. /\ DOMAIN Over(s, r) = DOMAIN s \cup DOMAIN r
      /\ \A x \in DOMAIN s : Over(s, r)[x] = s[x]
      /\ \A x \in DOMAIN r \ DOMAIN s : Over(s, r)[x] = r[x]
  BY AddedFields
<1>8. run'[h].at = "route" /\ run'[h].rights = s.rights /\ "rights" \in DOMAIN run'[h]
  BY <1>4, <1>6, <1>7
<1>9. Carries(h) BY <1>2, <1>4, <1>6, <1>7 DEF Carries, Basic
<1>10. Onward(h) BY <1>2, <1>6, <1>8, <1>9 DEF Onward, Stages, Pending
<1>11. Entitled(h) => Entitled(h)'
  BY <1>9 DEF Entitled, IsKnown, Carries, ResolveActor, tables
<1>12. HeardOK(h)' BY <1>5, <1>8, <1>11 DEF HeardOK, InTurn
<1>13. UNCHANGED <<clock, lastSeen, armed, calls>> /\ Frame' /\ StillKnown
  BY <1>6, TablesKnow DEF ResolveActor, memory, tables, Frame, Alone, GateInv
<1>14. StillArmed /\ ArmedOK' BY <1>13 DEF StillArmed, ArmedOK, HeardAt, GateInv
<1> QED BY <1>2, <1>8, <1>10, <1>12, <1>13, <1>14, HandlerSteps DEF Pending

LEMMA Ends ==
    ASSUME GateInv, NEW h \in Handlers, run[h].at # "idle", End(h)
    PROVE  Onward(h) /\ run'[h].at = "idle" /\ DOMAIN run' = Handlers
BY GateAt DEF End, Idle, Onward, Alone, GateInv, Frame, Stages

LEMMA Goes ==
    ASSUME GateInv, NEW h \in Handlers, run[h].at \notin {"idle", "throttle", "actor"},
           NEW at \in Stages \ {"idle", "throttle"}, To(h, at)
    PROVE  Onward(h) /\ run'[h].at = at /\ DOMAIN run' = Handlers
<1>1. h \in DOMAIN run BY GateAt
<1>2. run'[h] = [run[h] EXCEPT !.at = at] /\ Alone(h)
  BY <1>1 DEF To, Alone, GateInv, Frame
<1>3. run'[h].at = at BY <1>2, GateAt DEF Basic
<1>4. Carries(h) BY <1>2, GateAt DEF Carries, Basic
<1> QED BY <1>2, <1>3, <1>4 DEF Onward, Alone

LEMMA Adds ==
    ASSUME GateInv, NEW h \in Handlers, run[h].at \notin {"idle", "throttle", "actor"},
           NEW s, "at" \in DOMAIN s, s.at \in Stages \ {"idle", "throttle"},
           DOMAIN s \cap All = {"at"},
           run' = [run EXCEPT ![h] = Over(s, @)]
    PROVE  /\ Onward(h) /\ run'[h].at = s.at /\ DOMAIN run' = Handlers
           /\ \A x \in DOMAIN s : run'[h][x] = s[x]
<1> DEFINE r == run[h]
<1>1. h \in DOMAIN run /\ All \subseteq DOMAIN r BY GateAt DEF All
<1>2. run'[h] = Over(s, r) /\ Alone(h) BY <1>1 DEF Alone, GateInv, Frame
<1>3. /\ DOMAIN Over(s, r) = DOMAIN s \cup DOMAIN r
      /\ \A x \in DOMAIN s : Over(s, r)[x] = s[x]
      /\ \A x \in DOMAIN r \ DOMAIN s : Over(s, r)[x] = r[x]
  BY DEF Over
<1>4. run'[h].at = s.at BY <1>2, <1>3
<1>5. Carries(h) BY <1>1, <1>2, <1>3 DEF Carries, All, Basic
<1> QED BY <1>2, <1>3, <1>4, <1>5 DEF Onward, Alone

(* What is noted of a text that is taken, or comes to nothing.               *)
LEMMA Notes ==
    ASSUME GateInv, NEW h \in Handlers, NEW fate, fate \notin {"way", "heard"}, Noted(h, fate),
           UNCHANGED clock
    PROVE  /\ calls \subseteq calls' /\ \A c \in calls' \ calls : CallOK(c)'
           /\ CallsBot(h) => \E d \in calls' : d.fate # "way" /\ Of(d, h)
<1>1. PICK new : new = [user |-> run[h].user, chat |-> run[h].chat, at |-> run[h].since,
                        fate |-> fate, when |-> clock]
  OBVIOUS
<1>2. calls' = IF CallsBot(h) THEN calls \cup {new} ELSE calls BY <1>1 DEF Noted
<1>3. /\ new = [user |-> new.user, chat |-> new.chat, at |-> new.at,
                fate |-> new.fate, when |-> new.when]
      /\ new.fate = fate /\ new.when = clock /\ Of(new, h)
  BY <1>1 DEF Of
<1>4. CallOK(new)' BY <1>3 DEF CallOK, GateInv, Frame
<1> QED BY <1>2, <1>3, <1>4

(* The steps that arm nothing: they tell nothing of a call but that it was   *)
(* taken or came to nothing.                                                *)
LEMMA Quiet ==
    ASSUME GateInv, NEW h \in Handlers, Onward(h), DOMAIN run' = Handlers,
           UNCHANGED <<db, clock, lastSeen, armed>>, DOMAIN fsm' = DOMAIN fsm,
           run[h].at \notin {"throttle", "actor"}, run'[h].at \notin Pending,
           \/ calls' = calls /\ (run[h].at = "route" => ~CallsBot(h))
           \/ Noted(h, "taken") \/ Noted(h, "failed"),
           run'[h].at = "speech" /\ ~IsAddressed(h) => HeardBefore(h)',
           run'[h].at \in InTurn => run[h].rights
    PROVE  GateInv'
<1>1. Frame' /\ StillKnown BY TablesKnow DEF GateInv, Frame
<1>2. /\ calls \subseteq calls' /\ \A c \in calls' \ calls : CallOK(c)'
      /\ \/ ~(run[h].at \in Pending /\ CallsBot(h))
         \/ \E d \in calls' : d.fate # "way" /\ Of(d, h)
  <2>1. CASE Noted(h, "taken") \/ Noted(h, "failed") BY <2>1, Notes
  <2>2. CASE calls' = calls /\ (run[h].at = "route" => ~CallsBot(h)) BY <2>2 DEF Pending
  <2> QED BY <2>1, <2>2
<1>3. StillArmed /\ ArmedOK'
  <2>1. \A k \in DOMAIN armed : armed[k] \in Nat BY DEF GateInv, ArmedOK, Frame
  <2>2. \A u, c, t : HeardAt(u, c, t) => HeardAt(u, c, t)' BY <1>2 DEF HeardAt
  <2> QED BY <2>1, <2>2 DEF StillArmed, ArmedOK, GateInv
<1>4. HeardOK(h)' BY <1>2, HeardOn DEF Pending
<1> QED BY <1>1, <1>2, <1>3, <1>4, HandlerSteps DEF Pending

(* Those of them that only end a handler or send it on.                      *)
LEMMA Simply ==
    ASSUME GateInv, NEW h \in Handlers, UNCHANGED <<db, clock, lastSeen, armed>>,
           DOMAIN fsm' = DOMAIN fsm, run[h].at \notin {"idle", "throttle", "actor"},
           \/ calls' = calls /\ (run[h].at = "route" => ~CallsBot(h))
           \/ Noted(h, "taken") \/ Noted(h, "failed"),
           \/ End(h) \/ To(h, "gate") \/ To(h, "clear") \/ To(h, "wipe")
           \/ run[h].rights /\ (To(h, "stash") \/ To(h, "rearm") \/ To(h, "pending"))
    PROVE  GateInv'
<1>1. CASE End(h) BY <1>1, Ends, Quiet DEF Pending, InTurn
<1>2. ASSUME NEW at \in {"gate", "clear", "wipe"}, To(h, at) PROVE GateInv'
  <2>1. at \in Stages \ {"idle", "throttle"} BY <1>2 DEF Stages
  <2>2. Onward(h) /\ run'[h].at = at /\ DOMAIN run' = Handlers BY <1>2, <2>1, Goes
  <2> QED BY <1>2, <2>2, Quiet DEF Pending, InTurn
<1>3. ASSUME NEW at \in {"stash", "rearm", "pending"}, To(h, at), run[h].rights PROVE GateInv'
  <2>1. at \in Stages \ {"idle", "throttle"} BY <1>3 DEF Stages, InTurn
  <2>2. Onward(h) /\ run'[h].at = at /\ DOMAIN run' = Handlers BY <1>3, <2>1, Goes
  <2> QED BY <1>3, <2>2, Quiet DEF Pending, InTurn
<1> QED BY <1>1, <1>2, <1>3

LEMMA Rightly ==
    ASSUME GateInv, NEW h \in Handlers, run[h].at \in InTurn PROVE run[h].rights
BY DEF GateInv, HeardOK

LEMMA FormOf ==
    ASSUME GateInv, NEW h \in Handlers, NEW kind, Routed(h, kind), kind \notin {"edit", "answer"}
    PROVE  run[h].message.form = kind
BY DEF GateInv, RunOK, Routed, At

LEMMA Heard ==
    ASSUME GateInv, NEW h \in Handlers, HearTask(h) \/ Transcribe(h) \/ HearPress(h)
    PROVE  GateInv'
<1>1. UNCHANGED <<db, clock, lastSeen, armed, calls>>
  BY DEF HearTask, Transcribe, HearPress, tables, memory
<1>2. DOMAIN fsm' = DOMAIN fsm BY DEF HearTask, Transcribe, HearPress
<1>3. run[h].at \in {"route", "speech"} /\ (run[h].at = "route" => ~CallsBot(h))
  <2>1. CASE Transcribe(h) BY <2>1 DEF Transcribe, At
  <2>2. CASE HearTask(h) BY <2>2, FormOf DEF HearTask, Routed, At, CallsBot
  <2>3. CASE HearPress(h) BY <2>3, FormOf DEF HearPress, Routed, At, CallsBot
  <2> QED BY <2>1, <2>2, <2>3
<1>4. End(h) \/ To(h, "gate") \/ (run[h].rights /\ To(h, "pending"))
  BY DEF HearTask, Transcribe, HearPress
<1> QED BY <1>1, <1>2, <1>3, <1>4, Simply
LEMMA AnswerHeard ==
    ASSUME GateInv, NEW h \in Handlers, HearAnswer(h)
    PROVE  GateInv'
<1>1. UNCHANGED <<db, clock, lastSeen, armed>> BY DEF HearAnswer, tables, memory
<1>2. DOMAIN fsm' = DOMAIN fsm BY DEF HearAnswer
<1>3. run[h].at = "route" /\ Noted(h, "taken") BY DEF HearAnswer, Routed, At
<1>4. End(h) \/ To(h, "wipe") BY DEF HearAnswer
<1> QED BY <1>1, <1>2, <1>3, <1>4, Simply

LEMMA EditHeard ==
    ASSUME GateInv, NEW h \in Handlers, HearEdit(h)
    PROVE  GateInv'
<1>1. /\ run[h].at = "route" /\ UNCHANGED <<db, clock, lastSeen, armed, fsm>>
      /\ Noted(h, "taken")
  BY DEF HearEdit, Routed, At, tables, memory
<1>2. PICK s : s = [at |-> "gate", last |-> fsm[Key(h)].pending] OBVIOUS
<1>3. run' = [run EXCEPT ![h] = Over(s, @)] BY <1>2 DEF HearEdit
<1>4. DOMAIN s = {"at", "last"} /\ s.at = "gate" BY <1>2
<1>5. DOMAIN s \cap All = {"at"} BY <1>4 DEF All, Basic
<1>6. Onward(h) /\ run'[h].at = "gate" /\ DOMAIN run' = Handlers
  BY <1>1, <1>3, <1>4, <1>5, Adds DEF Stages
<1> QED BY <1>1, <1>6, Quiet DEF Pending, InTurn

LEMMA VoiceHeard ==
    ASSUME GateInv, NEW h \in Handlers, HearVoice(h)
    PROVE  GateInv'
<1>1. run[h].at = "route" /\ UNCHANGED <<db, clock, lastSeen, armed, fsm, calls>>
  BY DEF HearVoice, Routed, At, tables, memory
<1>2. ~CallsBot(h) BY FormOf DEF HearVoice, CallsBot
<1>3. CASE End(h) BY <1>1, <1>2, <1>3, Simply
<1>4. CASE /\ IsAddressed(h) \/ IsArmed(run[h].chat, run[h].user)
           /\ run' = [run EXCEPT ![h] = Over([at |-> "speech", listened |-> clock], @)]
  <2>1. PICK s : s = [at |-> "speech", listened |-> clock] OBVIOUS
  <2>2. run' = [run EXCEPT ![h] = Over(s, @)] BY <1>4, <2>1
  <2>3. DOMAIN s = {"at", "listened"} /\ s.at = "speech" /\ s.listened = clock BY <2>1
  <2>4. DOMAIN s \cap All = {"at"} BY <2>3 DEF All, Basic
  <2>5. s.at \in Stages \ {"idle", "throttle"} BY <2>3 DEF Stages
  <2>6. /\ Onward(h) /\ run'[h].at = s.at /\ DOMAIN run' = Handlers
        /\ \A x \in DOMAIN s : run'[h][x] = s[x]
    BY <1>1, <2>2, <2>3, <2>4, <2>5, Adds
  <2>7. /\ Onward(h) /\ run'[h].at = "speech" /\ DOMAIN run' = Handlers
        /\ run'[h].listened = clock
    BY <2>3, <2>6
  <2>8. ASSUME ~IsAddressed(h) PROVE HeardBefore(h)'
    <3>1. PICK k : k = <<run[h].chat, run[h].user>> OBVIOUS
    <3>2. k \in DOMAIN armed /\ clock - armed[k] <= ArmWindow BY <1>4, <2>8, <3>1 DEF IsArmed
    <3>3. /\ armed[k] \in 0..clock
          /\ HeardAt(run[h].user, run[h].chat, armed[k]) /\ clock \in Nat
      BY <3>1, <3>2 DEF GateInv, ArmedOK, Frame
    <3>4. PICK c \in calls : /\ c.fate = "heard" /\ c.user = run[h].user
                             /\ c.chat = run[h].chat /\ c.when = armed[k]
      BY <3>3 DEF HeardAt
    <3>5. clock \in c.when..(c.when + ArmWindow)
      BY <3>2, <3>3, <3>4, GateAssumption
    <3>6. run'[h].user = run[h].user /\ run'[h].chat = run[h].chat
      BY <2>7 DEF Onward, Carries
    <3> QED BY <1>1, <2>7, <3>4, <3>5, <3>6 DEF HeardBefore
  <2> QED BY <1>1, <1>2, <2>7, <2>8, Quiet DEF Pending, InTurn
<1> QED BY <1>3, <1>4 DEF HearVoice

(* A text to the bot in a group arms the voice of its author.                *)
LEMMA TextHeard ==
    ASSUME GateInv, NEW h \in Handlers, HearText(h)
    PROVE  GateInv'
<1> DEFINE r == run[h]
<1>1. /\ r.at = "route" /\ r.message.form = "text" /\ Noted(h, "heard")
      /\ armed' = IF InGroup(h) /\ IsAddressed(h) THEN Put(armed, Key(h), clock) ELSE armed
      /\ To(h, "gate") \/ End(h)
      /\ UNCHANGED <<db, clock, lastSeen, fsm>>
  BY FormOf DEF HearText, Routed, At, tables
<1>2. Onward(h) /\ DOMAIN run' = Handlers /\ run'[h].at \in {"gate", "idle"}
  BY <1>1, Ends, Goes DEF Stages
<1>3. Frame' /\ StillKnown BY <1>1, <1>2, TablesKnow DEF GateInv, Frame
<1>4. InGroup(h) /\ IsAddressed(h) <=> CallsBot(h)
  BY <1>1 DEF InGroup, IsAddressed, CallsBot
<1>5. clock \in Nat /\ \A k \in DOMAIN armed : armed[k] \in 0..clock
  BY DEF GateInv, Frame, ArmedOK
<1>6. CASE ~CallsBot(h)
  <2>1. calls' = calls /\ armed' = armed BY <1>1, <1>4, <1>6 DEF Noted
  <2> QED BY <1>1, <1>2, <1>6, <2>1, Quiet DEF Pending, InTurn
<1>7. CASE CallsBot(h)
  <2>1. PICK new : new = [user |-> r.user, chat |-> r.chat, at |-> r.since,
                          fate |-> "heard", when |-> clock]
    OBVIOUS
  <2>2. calls' = calls \cup {new} BY <1>1, <1>7, <2>1 DEF Noted
  <2>3. /\ new = [user |-> new.user, chat |-> new.chat, at |-> new.at,
                  fate |-> new.fate, when |-> new.when]
        /\ new.fate = "heard" /\ new.when = clock /\ Of(new, h)
        /\ new.user = r.user /\ new.chat = r.chat
    BY <2>1 DEF Of
  <2>4. PICK k : k = <<r.chat, r.user>> OBVIOUS
  <2>5. armed' = Put(armed, k, clock) BY <1>1, <1>4, <1>7, <2>4 DEF Key
  <2>6. DOMAIN armed' = DOMAIN armed \cup {k} BY <2>5 DEF Put
  <2>7. \A j \in DOMAIN armed' : armed'[j] = IF j = k THEN clock ELSE armed[j]
    BY <2>5 DEF Put
  <2>8. StillArmed BY <1>5, <2>6, <2>7 DEF StillArmed
  <2>9. \A u, c, t : HeardAt(u, c, t) => HeardAt(u, c, t)' BY <2>2 DEF HeardAt
  <2>10. \A u, c, t : u = r.user /\ c = r.chat /\ t = clock => HeardAt(u, c, t)'
    BY <2>2, <2>3 DEF HeardAt
  <2>11. ArmedOK'
    <3> SUFFICES ASSUME NEW j \in DOMAIN armed', NEW t, t = armed'[j]
                 PROVE  t \in 0..clock /\ j[1] \notin Private /\ HeardAt(j[2], j[1], t)'
      BY <1>1 DEF ArmedOK, GateInv
    <3>1. CASE j = k
      <4>1. t = clock /\ j[1] = r.chat /\ j[2] = r.user BY <2>4, <2>7, <3>1
      <4> QED BY <1>5, <1>7, <2>10, <4>1 DEF CallsBot, InGroup
    <3>2. CASE j # k
      <4>1. j \in DOMAIN armed /\ t = armed[j] BY <2>6, <2>7, <3>2
      <4>2. HeardAt(j[2], j[1], t) /\ j[1] \notin Private BY <4>1 DEF GateInv, ArmedOK
      <4> QED BY <1>5, <2>9, <4>1, <4>2
    <3> QED BY <3>1, <3>2
  <2>12. CallOK(new)'
    <3>1. <<new.chat, new.user>> = k BY <2>3, <2>4
    <3> QED BY <1>1, <1>5, <2>3, <2>6, <2>7, <3>1 DEF CallOK
  <2>13. HeardOK(h)' BY <1>1, <1>2, <2>2, HeardOn DEF InTurn
  <2> QED BY <1>1, <1>2, <1>3, <2>2, <2>3, <2>8, <2>11, <2>12, <2>13, HandlerSteps
<1> QED BY <1>6, <1>7

LEMMA Decided ==
    ASSUME GateInv, NEW h \in Handlers,
           \/ Refuse(h) \/ ConfirmPending(h) \/ ClearState(h) \/ ClearData(h)
           \/ Stash(h) \/ Rearm(h) \/ KeepPending(h) \/ Reply(h) \/ ReplyEdit(h)
    PROVE  GateInv'
<1> DEFINE Quietly ==
        /\ UNCHANGED <<db, clock, lastSeen, armed, calls>> /\ DOMAIN fsm' = DOMAIN fsm
        /\ run[h].at \in {"gate", "clear", "wipe", "stash", "rearm", "pending", "reply"}
        /\ \/ End(h) \/ To(h, "clear") \/ To(h, "wipe")
           \/ run[h].at \in InTurn /\ (To(h, "stash") \/ To(h, "rearm") \/ To(h, "pending"))
<1>1. CASE Refuse(h) \/ ConfirmPending(h)
  <2>1. Quietly BY <1>1 DEF Refuse, ConfirmPending, At, tables, memory
  <2> QED BY <2>1, Rightly, Simply
<1>2. CASE ClearState(h) \/ ClearData(h)
  <2>1. Quietly BY <1>2 DEF ClearState, ClearData, At, tables, memory
  <2> QED BY <2>1, Rightly, Simply
<1>3. CASE Stash(h) \/ Rearm(h) \/ KeepPending(h)
  <2>1. Quietly BY <1>3 DEF Stash, Rearm, KeepPending, At, tables, memory, InTurn
  <2> QED BY <2>1, Rightly, Simply
<1>4. CASE Reply(h) \/ ReplyEdit(h)
  <2>1. Quietly BY <1>4 DEF Reply, ReplyEdit, At, tables, memory, InTurn
  <2> QED BY <2>1, Rightly, Simply
<1> QED BY <1>1, <1>2, <1>3, <1>4

LEMMA Failed ==
    ASSUME GateInv, NEW h \in Handlers, Fail(h)
    PROVE  GateInv'
<1>1. /\ run[h].at \notin {"idle", "throttle"} /\ End(h)
      /\ UNCHANGED <<db, clock, lastSeen, armed, fsm>>
      /\ run[h].at \in {"actor", "route"} => Noted(h, "failed")
      /\ run[h].at \notin {"actor", "route"} => calls' = calls
  BY DEF Fail, At, tables, memory, GateInv, RunOK
<1>2. Onward(h) /\ run'[h].at = "idle" /\ DOMAIN run' = Handlers BY <1>1, Ends
<1>3. CASE run[h].at # "actor"
  <2>1. (calls' = calls /\ (run[h].at = "route" => ~CallsBot(h))) \/ Noted(h, "failed")
    BY <1>1
  <2> QED BY <1>1, <1>2, <1>3, <2>1, Quiet DEF Pending, InTurn
<1>4. CASE run[h].at = "actor"
  <2>1. Noted(h, "failed") BY <1>1, <1>4
  <2>2. /\ calls \subseteq calls' /\ \A c \in calls' \ calls : CallOK(c)'
        /\ CallsBot(h) => \E d \in calls' : d.fate # "way" /\ Of(d, h)
    BY <1>1, <2>1, Notes
  <2>3. Frame' /\ StillKnown BY <1>1, <1>2, TablesKnow DEF GateInv, Frame
  <2>4. StillArmed /\ ArmedOK'
    <3>1. \A k \in DOMAIN armed : armed[k] \in Nat BY DEF GateInv, ArmedOK, Frame
    <3>2. \A u, c, t : HeardAt(u, c, t) => HeardAt(u, c, t)' BY <2>2 DEF HeardAt
    <3> QED BY <1>1, <3>1, <3>2 DEF StillArmed, ArmedOK, GateInv
  <2>5. HeardOK(h)' BY <1>2 DEF HeardOK, InTurn
  <2> QED BY <1>1, <1>2, <2>2, <2>3, <2>4, <2>5, HandlerSteps
<1> QED BY <1>3, <1>4

(* A turn of somebody who has the right to it.                               *)
Turns(h) ==
    \/ Remember(h) \/ \E i \in DOMAIN Codes : SelectTemplate(h, Codes[i])
    \/ SelectTasks(h) \/ SelectAssignees(h) \/ SelectDependencies(h) \/ PlanRead(h)
    \/ \E ask \in Needs : FindAssignees(h, ask)

LEMMA TurnOnward ==
    ASSUME GateInv, NEW h \in Handlers, Turns(h)
    PROVE  /\ Onward(h) /\ DOMAIN run' = Handlers
           /\ run[h].at \in {"gate"} \cup InTurn /\ run[h].rights /\ run'[h].at \in InTurn
<1> DEFINE Goal == /\ Onward(h) /\ DOMAIN run' = Handlers
                   /\ run[h].at \in {"gate"} \cup InTurn /\ run[h].rights
                   /\ run'[h].at \in InTurn
<1>1. run[h].at \in InTurn => run[h].rights BY DEF GateInv, HeardOK
<1>2. InTurn \subseteq Stages BY DEF Stages
<1>3. ASSUME NEW s, "at" \in DOMAIN s, s.at \in InTurn,
             DOMAIN s \cap {"user", "chat", "message", "kind", "since", "rights"} = {},
             run' = [run EXCEPT ![h] = Over(s, @)],
             run[h].at \in {"gate"} \cup InTurn, run[h].rights
      PROVE  Goal
  <2>1. run[h].at \notin {"idle", "throttle", "actor"} BY <1>3 DEF InTurn
  <2>2. s.at \in Stages \ {"idle", "throttle"} BY <1>2, <1>3 DEF InTurn
  <2>3. DOMAIN s \cap All = {"at"} BY <1>3 DEF All, Basic
  <2> QED BY <1>3, <2>1, <2>2, <2>3, Adds
<1>4. CASE Remember(h)
  <2>1. PICK s : s = [at |-> CASE run[h].message.wish = "plan" -> "template"
                               [] run[h].message.wish = "who" /\ run[h].kind # "edit" -> "suggest"
                               [] OTHER -> "reply",
                      recent |-> history[run[h].chat], proposed |-> FALSE]
    OBVIOUS
  <2>2. run' = [run EXCEPT ![h] = Over(s, @)] BY <1>4, <2>1 DEF Remember
  <2>3. DOMAIN s = {"at", "recent", "proposed"} /\ s.at \in InTurn BY <2>1 DEF InTurn
  <2> QED BY <1>3, <1>4, <2>2, <2>3 DEF Remember, At
<1>5. ASSUME NEW code, SelectTemplate(h, code) PROVE Goal
  <2>1. run[h].at = "template" /\ run[h].rights BY <1>1, <1>5 DEF SelectTemplate, At, InTurn
  <2>2. CASE code \in db.templates
    <3>1. PICK s : s = [at |-> "tasks", code |-> code] OBVIOUS
    <3>2. run' = [run EXCEPT ![h] = Over(s, @)] BY <1>5, <2>2, <3>1 DEF SelectTemplate
    <3>3. DOMAIN s = {"at", "code"} /\ s.at \in InTurn BY <3>1 DEF InTurn
    <3>4. Goal BY <1>3, <2>1, <3>2, <3>3 DEF InTurn
    <3> QED BY <3>4
  <2>3. CASE code \notin db.templates
    <3>1. To(h, "reply") BY <1>5, <2>3 DEF SelectTemplate, To
    <3>2. "reply" \in Stages \ {"idle", "throttle"} BY DEF Stages, InTurn
    <3> QED BY <2>1, <3>1, <3>2, Goes DEF InTurn
  <2> QED BY <2>2, <2>3
<1>6. CASE SelectTasks(h)
  <2>1. PICK s : s = [at |-> "assignees", rows |-> Restrict(db.tasks, TaskKeys(run[h].code)),
                      then |-> Len(loaded)]
    OBVIOUS
  <2>2. run' = [run EXCEPT ![h] = Over(s, @)] BY <1>6, <2>1 DEF SelectTasks
  <2>3. DOMAIN s = {"at", "rows", "then"} /\ s.at \in InTurn BY <2>1 DEF InTurn
  <2>4. run[h].at \in InTurn BY <1>6 DEF SelectTasks, At, InTurn
  <2> QED BY <1>1, <1>3, <2>2, <2>3, <2>4
<1>7. CASE SelectAssignees(h)
  <2>1. PICK s : s = [at |-> "deps", assignees |-> AssigneesOf(DOMAIN run[h].rows)]
    OBVIOUS
  <2>2. run' = [run EXCEPT ![h] = Over(s, @)] BY <1>7, <2>1 DEF SelectAssignees
  <2>3. DOMAIN s = {"at", "assignees"} /\ s.at \in InTurn BY <2>1 DEF InTurn
  <2>4. run[h].at \in InTurn BY <1>7 DEF SelectAssignees, At, InTurn
  <2> QED BY <1>1, <1>3, <2>2, <2>3, <2>4
<1>8. CASE SelectDependencies(h)
  <2>1. PICK s : s = [at |-> "read",
                      specs |-> TemplateSpecs(run[h].rows, run[h].assignees,
                                              DepsOf(DOMAIN run[h].rows)),
                      during |-> Len(loaded) - run[h].then]
    OBVIOUS
  <2>2. run' = [run EXCEPT ![h] = Over(s, @)] BY <1>8, <2>1 DEF SelectDependencies
  <2>3. DOMAIN s = {"at", "specs", "during"} /\ s.at \in InTurn BY <2>1 DEF InTurn
  <2>4. run[h].at \in InTurn BY <1>8 DEF SelectDependencies, At, InTurn
  <2> QED BY <1>1, <1>3, <2>2, <2>3, <2>4
<1>9. ASSUME NEW ask, FindAssignees(h, ask) PROVE Goal
  <2>1. PICK s : s = [at |-> "reply", shown |-> Shown(ask.need, ask.bound)] OBVIOUS
  <2>2. run' = [run EXCEPT ![h] = Over(s, @)] BY <1>9, <2>1 DEF FindAssignees
  <2>3. DOMAIN s = {"at", "shown"} /\ s.at \in InTurn BY <2>1 DEF InTurn
  <2>4. run[h].at \in InTurn BY <1>9 DEF FindAssignees, At, InTurn
  <2> QED BY <1>1, <1>3, <2>2, <2>3, <2>4
<1>10. CASE PlanRead(h)
  <2> DEFINE r == run[h]
  <2>1. PICK b \in BOOLEAN : run' = [run EXCEPT ![h].at = "reply", ![h].proposed = b]
    BY <1>10 DEF PlanRead
  <2>2. r.at = "read" /\ r.at \in InTurn BY <1>10 DEF PlanRead, At, InTurn
  <2>3. /\ h \in DOMAIN run
        /\ All \subseteq DOMAIN r
    BY <2>2, GateAt DEF All, InTurn
  <2>4. run'[h] = [r EXCEPT !.at = "reply", !.proposed = b] /\ Alone(h)
    BY <2>1, <2>3 DEF Alone, GateInv, Frame
  <2>5. run'[h].at = "reply" BY <2>3, <2>4 DEF All, Basic
  <2>6. Carries(h) BY <2>2, <2>3, <2>4 DEF Carries, All, Basic
  <2>7. Onward(h) /\ DOMAIN run' = Handlers
    BY <2>2, <2>4, <2>5, <2>6 DEF Onward, Alone, Stages, InTurn
  <2> QED BY <1>1, <2>2, <2>5, <2>7 DEF InTurn
<1> QED BY <1>4, <1>5, <1>6, <1>7, <1>8, <1>9, <1>10, Zenon DEF Turns

LEMMA Turn ==
    ASSUME GateInv, NEW h \in Handlers, Turns(h)
    PROVE  GateInv'
<1>1. UNCHANGED <<db, clock, lastSeen, armed, calls>> /\ UNCHANGED fsm
  BY DEF Turns, Remember, SelectTemplate, SelectTasks, SelectAssignees, SelectDependencies,
         PlanRead, FindAssignees, tables, memory
<1> QED BY <1>1, TurnOnward, Quiet DEF Pending, InTurn

-----------------------------------------------------------------------------
(* What comes into the middlewares.                                          *)

LEMMA Throttled ==
    ASSUME GateInv, NEW h \in Handlers, Throttle(h)
    PROVE  GateInv'
<1> DEFINE r == run[h]
<1>1. r.at = "throttle" /\ UNCHANGED <<db, clock, armed, fsm>>
  BY DEF Throttle, At, tables
<1>2. h \in DOMAIN run /\ Basic \subseteq DOMAIN r /\ clock \in Nat
  BY <1>1, GateAt DEF GateInv, Frame
<1>3. StillKnown /\ StillArmed
  <2>1. \A k \in DOMAIN armed : armed[k] \in Nat BY DEF GateInv, ArmedOK, Frame
  <2> QED BY <1>1, <2>1, TablesKnow DEF StillArmed
<1>4. CASE End(h) /\ UNCHANGED <<lastSeen, calls>>
  <2>1. Onward(h) /\ run'[h].at = "idle" /\ DOMAIN run' = Handlers BY <1>1, <1>4, Ends
  <2>2. HeardOK(h)' BY <2>1 DEF HeardOK, InTurn
  <2>3. Frame' /\ ArmedOK' BY <1>1, <1>4, <2>1 DEF Frame, ArmedOK, HeardAt, GateInv
  <2> QED BY <1>1, <1>3, <1>4, <2>1, <2>2, <2>3, HandlerSteps DEF Pending
<1>5. CASE /\ lastSeen' = Put(lastSeen, r.user, clock)
           /\ run' = [run EXCEPT ![h] = Over([at |-> "actor", since |-> clock], @)]
           /\ calls' = IF CallsBot(h)
                       THEN calls \cup {[user |-> r.user, chat |-> r.chat, at |-> clock,
                                         fate |-> "way", when |-> clock]}
                       ELSE calls
  <2>1. PICK s : s = [at |-> "actor", since |-> clock] OBVIOUS
  <2>2. DOMAIN s = {"at", "since"} /\ s.at = "actor" /\ s.since = clock BY <2>1
  <2>3. run'[h] = Over(s, r) /\ Alone(h) BY <1>2, <1>5, <2>1 DEF Alone, GateInv, Frame
  <2>4. /\ DOMAIN Over(s, r) = DOMAIN s \cup DOMAIN r
        /\ \A x \in DOMAIN s : Over(s, r)[x] = s[x]
        /\ \A x \in DOMAIN r \ DOMAIN s : Over(s, r)[x] = r[x]
    BY DEF Over
  <2>5. run'[h].at = "actor" /\ run'[h].since = clock BY <2>2, <2>3, <2>4
  <2>6. Carries(h) BY <1>1, <1>2, <2>2, <2>3, <2>4 DEF Carries, Basic
  <2>7. Onward(h) /\ Frame'
    BY <1>1, <2>3, <2>5, <2>6 DEF Onward, Stages, Pending, Frame, Alone, GateInv
  <2>8. HeardOK(h)' BY <2>5 DEF HeardOK, InTurn
  <2>9. PICK new : new = [user |-> r.user, chat |-> r.chat, at |-> clock,
                          fate |-> "way", when |-> clock]
    OBVIOUS
  <2>10. /\ new = [user |-> new.user, chat |-> new.chat, at |-> new.at,
                   fate |-> new.fate, when |-> new.when]
         /\ new.user = r.user /\ new.chat = r.chat /\ new.at = clock
         /\ new.fate = "way" /\ new.when = clock
    BY <2>9
  <2>11. calls' = IF CallsBot(h) THEN calls \cup {new} ELSE calls BY <1>5, <2>9
  <2>12. CallsBot(h) => CallOK(new)'
    <3>1. CallsBot(h) => Carried(new)'
      BY <2>5, <2>6, <2>10 DEF Carried, Of, CallsBot, InGroup, Carries, Pending
    <3> QED BY <1>1, <1>2, <2>10, <3>1 DEF CallOK
  <2>13. ArmedOK'
    <3>1. \A u, c, t : HeardAt(u, c, t) => HeardAt(u, c, t)' BY <2>11 DEF HeardAt
    <3>2. \A u \in DOMAIN lastSeen' : lastSeen'[u] \in 0..clock
      BY <1>2, <1>5 DEF Put, GateInv, ArmedOK
    <3> QED BY <1>1, <3>1, <3>2 DEF ArmedOK, GateInv
  <2> QED BY <1>1, <1>3, <2>7, <2>8, <2>11, <2>12, <2>13, HandlerSteps DEF Pending
<1> QED BY <1>4, <1>5 DEF Throttle

LEMMA Arrives ==
    ASSUME GateInv, NEW h \in Handlers, run[h] = Idle, Alone(h), RunOK(h)', HeardOK(h)',
           UNCHANGED <<db, clock, lastSeen, armed, calls, fsm>>
    PROVE  GateInv'
<1>1. run[h].at = "idle" BY DEF Idle
<1>2. StillKnown /\ Frame' BY TablesKnow DEF GateInv, Frame, Alone
<1>3. ASSUME NEW g \in Handlers \ {h} PROVE RunOK(g)' /\ HeardOK(g)'
  <2>1. run'[g] = run[g] /\ RunOK(g) /\ HeardOK(g) BY DEF Alone, GateInv
  <2>2. HeardOK(g)' BY <1>2, <2>1, HeardStays
  <2> QED BY <2>1, <2>2 DEF RunOK
<1>4. ASSUME NEW c \in calls' PROVE CallOK(c)'
  <2>1. Carried(c) => Carried(c)'
    <3> SUFFICES ASSUME Carried(c) PROVE Carried(c)' OBVIOUS
    <3>1. PICK g \in Handlers : run[g].at \in Pending /\ CallsBot(g) /\ Of(c, g) BY DEF Carried
    <3>2. run'[g] = run[g] BY <1>1, <3>1 DEF Alone, Pending
    <3> QED BY <3>1, <3>2 DEF Carried, CallsBot, InGroup, Of
  <2> QED BY <2>1 DEF CallOK, Settled, GateInv
<1>5. ArmedOK' BY DEF ArmedOK, HeardAt, GateInv
<1> QED BY <1>2, <1>3, <1>4, <1>5 DEF GateInv

LEMMA Received ==
    ASSUME GateInv, NEW h \in Handlers, NEW u \in Users, NEW c \in Chats, NEW m \in Messages,
           Receive(h, u, c, m)
    PROVE  GateInv'
<1>1. PICK r : r = [at |-> "throttle", user |-> u, chat |-> c, message |-> m,
                    kind |-> Kind(u, c, m)]
  OBVIOUS
<1>2. /\ run[h] = Idle /\ run' = [run EXCEPT ![h] = r]
      /\ UNCHANGED <<db, clock, lastSeen, armed, calls, fsm>>
  BY <1>1 DEF Receive, tables, memory
<1>3. run'[h] = r /\ Alone(h) BY <1>2 DEF Alone, GateInv, Frame
<1>4. /\ r.at = "throttle" /\ DOMAIN r = Basic /\ r.user = u /\ r.chat = c
      /\ r.message = m /\ r.kind = Kind(u, c, m)
  BY <1>1 DEF Basic
<1>5. Kind(u, c, m) \in {"edit", "answer"} \/ Kind(u, c, m) = m.form BY DEF Kind
<1>6. RunOK(h)' BY <1>3, <1>4, <1>5 DEF RunOK, Stages
<1>7. HeardOK(h)' BY <1>3, <1>4 DEF HeardOK, InTurn
<1> QED BY <1>2, <1>3, <1>6, <1>7, Arrives

LEMMA Pressed ==
    ASSUME GateInv, NEW h \in Handlers, NEW u \in Users, NEW c \in Chats, NEW button,
           Press(h, u, c, button)
    PROVE  GateInv'
<1>1. PICK m : m = [form |-> "press", addressed |-> TRUE, wish |-> button] OBVIOUS
<1>2. PICK r : r = [at |-> "actor", user |-> u, chat |-> c, since |-> clock, kind |-> "press",
                    message |-> m]
  OBVIOUS
<1>3. /\ run[h] = Idle /\ run' = [run EXCEPT ![h] = r]
      /\ UNCHANGED <<db, clock, lastSeen, armed, calls, fsm>>
  BY <1>1, <1>2 DEF Press, tables, memory
<1>4. run'[h] = r /\ Alone(h) BY <1>3 DEF Alone, GateInv, Frame
<1>5. /\ r.at = "actor" /\ DOMAIN r = Basic \cup {"since"} /\ r.user = u /\ r.chat = c
      /\ r.message = m /\ r.kind = "press" /\ m.form = "press"
  BY <1>1, <1>2 DEF Basic
<1>6. RunOK(h)' BY <1>4, <1>5 DEF RunOK, Stages, Pending
<1>7. HeardOK(h)' BY <1>4, <1>5 DEF HeardOK, InTurn
<1> QED BY <1>3, <1>4, <1>6, <1>7, Arrives

-----------------------------------------------------------------------------
(* Everything else.                                                          *)

LEMMA ClockGoesOn ==
    ASSUME GateInv, UNCHANGED <<lastSeen, armed, run, calls>>, StillKnown,
           clock' \in {clock, clock + 1}, DOMAIN fsm' = DOMAIN fsm
    PROVE  GateInv'
<1>1. clock \in Nat /\ Frame' BY DEF GateInv, Frame
<1>2. \A i : i \in 0..clock => i \in 0..clock' BY <1>1
<1>3. \A g \in Handlers : HeardOK(g)' BY HeardStays DEF GateInv
<1>4. \A g \in Handlers : RunOK(g)' BY DEF GateInv, RunOK
<1>5. ArmedOK' BY <1>2 DEF GateInv, ArmedOK, HeardAt
<1>6. ASSUME NEW c \in calls' PROVE CallOK(c)'
  <2>1. CallOK(c) BY DEF GateInv
  <2>2. (Carried(c) => Carried(c)') /\ (Settled(c) => Settled(c)')
    BY DEF Carried, Settled, CallsBot, InGroup, Of
  <2> QED BY <1>2, <2>1, <2>2 DEF CallOK
<1> QED BY <1>1, <1>3, <1>4, <1>5, <1>6 DEF GateInv

LEMMA Forgotten ==
    ASSUME GateInv, Restart
    PROVE  GateInv'
<1>1. /\ lastSeen' = <<>> /\ armed' = <<>> /\ run' = [h \in Handlers |-> Idle] /\ calls' = {}
      /\ UNCHANGED <<clock, fsm>>
  BY DEF Restart
<1>2. DOMAIN lastSeen' = {} /\ DOMAIN armed' = {} BY <1>1
<1>3. \A h \in Handlers : run'[h] = Idle /\ run'[h].at = "idle" BY <1>1 DEF Idle
<1>4. Frame' BY <1>1 DEF GateInv, Frame
<1>5. \A h \in Handlers : RunOK(h)' BY <1>3 DEF RunOK, Stages
<1>6. \A h \in Handlers : HeardOK(h)' BY <1>3 DEF HeardOK, InTurn
<1>7. ArmedOK' BY <1>2 DEF ArmedOK
<1> QED BY <1>1, <1>4, <1>5, <1>6, <1>7 DEF GateInv

-----------------------------------------------------------------------------
(* The tables.  Rows of assignees and deps refer to rows of tasks, links stay *)
(* within a template, and names are those of people.                        *)
Columns == {"people", "templates", "tasks", "assignees", "deps", "roleSkills", "personRoles"}

RowsOK(t, names) ==
    /\ DOMAIN t = Columns
    /\ \A p \in DOMAIN t.people : {"label", "tg"} \subseteq DOMAIN t.people[p]
    /\ \A k \in DOMAIN t.tasks : t.tasks[k].code = k[2]
    /\ \A a \in t.assignees : a.task \in DOMAIN t.tasks /\ a.person \in names
    /\ \A d \in t.deps : d.task \in DOMAIN t.tasks /\ d.on \in DOMAIN t.tasks
                        /\ d.task[2] = d.on[2]
    /\ \A pr \in t.personRoles : pr[1] \in names

(* What a load has deleted is all of some templates; what it has added refers *)
(* to what it has added, and to people that are there or that it adds.      *)
LoadOK ==
    /\ DOMAIN seed = {"at", "n", "files", "codes", "map", "gone", "add"}
    /\ DOMAIN seed.map \subseteq DOMAIN db.people \cup DOMAIN seed.add.people
    /\ RowsOK(seed.add, DOMAIN seed.map)
    /\ \A j, k \in DOMAIN db.tasks : j[2] = k[2] /\ j \in seed.gone => k \in seed.gone

SeedInv == RowsOK(db, DOMAIN db.people) /\ (seed.at # "none" => LoadOK)

LEMMA MoreNames ==
    ASSUME NEW t, NEW S, NEW T, S \subseteq T, RowsOK(t, S)
    PROVE  RowsOK(t, T)
BY DEF RowsOK

LEMMA NobodyListed == DOMAIN <<>> = {}
OBVIOUS

LEMMA NoRows ==
    ASSUME NEW S
    PROVE  RowsOK(Empty, S)
<1>1. /\ DOMAIN Empty = Columns /\ Empty.people = <<>> /\ Empty.tasks = <<>>
      /\ Empty.assignees = {} /\ Empty.deps = {} /\ Empty.personRoles = {}
  BY DEF Empty, Columns
<1> QED BY <1>1, NobodyListed DEF RowsOK

LEMMA RowsTogether ==
    ASSUME NEW a, NEW b, NEW S, RowsOK(a, S), RowsOK(b, S)
    PROVE  RowsOK(Together(a, b), S)
<1> PICK t : t = Together(a, b) OBVIOUS
<1>1. /\ DOMAIN t = Columns
      /\ t.people = Over(a.people, b.people) /\ t.tasks = Over(a.tasks, b.tasks)
      /\ t.assignees = a.assignees \cup b.assignees /\ t.deps = a.deps \cup b.deps
      /\ t.personRoles = a.personRoles \cup b.personRoles
  BY DEF Together, Columns
<1>2. \A p \in DOMAIN t.people : {"label", "tg"} \subseteq DOMAIN t.people[p]
  BY <1>1 DEF RowsOK, Over
<1>3. DOMAIN t.tasks = DOMAIN a.tasks \cup DOMAIN b.tasks
      /\ \A k \in DOMAIN t.tasks : t.tasks[k].code = k[2]
  BY <1>1 DEF RowsOK, Over
<1>4. \A x \in t.assignees : x.task \in DOMAIN t.tasks /\ x.person \in S
  BY <1>1, <1>3 DEF RowsOK
<1>5. \A d \in t.deps : d.task \in DOMAIN t.tasks /\ d.on \in DOMAIN t.tasks
                       /\ d.task[2] = d.on[2]
  BY <1>1, <1>3 DEF RowsOK
<1>6. \A pr \in t.personRoles : pr[1] \in S BY <1>1 DEF RowsOK
<1> QED BY <1>1, <1>2, <1>3, <1>4, <1>5, <1>6 DEF RowsOK

(* The rows of a template that can be loaded.                                *)
LEMMA RowsOfTemplate ==
    ASSUME NEW entries, NEW code, NEW n, Loadable(entries), NEW t,
           t = TemplateRows(entries, code, n)
    PROVE  RowsOK(t, DOMAIN seed.map)
<1>1. /\ DOMAIN t = Columns /\ t.people = <<>> /\ t.personRoles = {}
      /\ DOMAIN t.tasks = {<<n, code, o>> : o \in DOMAIN entries}
      /\ \A k \in DOMAIN t.tasks : t.tasks[k].code = code
  BY DEF TemplateRows, Empty, Columns
<1>2. ASSUME NEW a \in t.assignees
      PROVE  a.task \in DOMAIN t.tasks /\ a.person \in DOMAIN seed.map
  <2>1. t.assignees = UNION {
            {[task |-> <<n, code, o>>, person |-> entries[o].people[i].person,
              rank |-> Given(entries[o].people[i].rank, i - 1),
              strict |-> entries[o].people[i].strict] : i \in DOMAIN entries[o].people} :
            o \in DOMAIN entries}
    BY DEF TemplateRows, Empty
  <2>2. PICK o \in DOMAIN entries : \E i \in DOMAIN entries[o].people :
            a = [task |-> <<n, code, o>>, person |-> entries[o].people[i].person,
                 rank |-> Given(entries[o].people[i].rank, i - 1),
                 strict |-> entries[o].people[i].strict]
    BY <2>1
  <2>3. PICK i \in DOMAIN entries[o].people :
            a = [task |-> <<n, code, o>>, person |-> entries[o].people[i].person,
                 rank |-> Given(entries[o].people[i].rank, i - 1),
                 strict |-> entries[o].people[i].strict]
    BY <2>2, Zenon
  <2>4. a.task = <<n, code, o>> /\ a.person = entries[o].people[i].person BY <2>3
  <2> QED BY <1>1, <2>4 DEF Loadable
<1>3. ASSUME NEW d \in t.deps
      PROVE  d.task \in DOMAIN t.tasks /\ d.on \in DOMAIN t.tasks /\ d.task[2] = d.on[2]
  <2>1. t.deps = UNION {
            {[task |-> <<n, code, o>>, on |-> <<n, code, e.on>>, link |-> DepFields(e).link,
              lag |-> DepFields(e).lag] : e \in entries[o].after} : o \in DOMAIN entries}
    BY DEF TemplateRows, Empty
  <2>2. PICK o \in DOMAIN entries : \E e \in entries[o].after :
            d = [task |-> <<n, code, o>>, on |-> <<n, code, e.on>>, link |-> DepFields(e).link,
                 lag |-> DepFields(e).lag]
    BY <2>1
  <2>3. PICK e \in entries[o].after :
            d = [task |-> <<n, code, o>>, on |-> <<n, code, e.on>>, link |-> DepFields(e).link,
                 lag |-> DepFields(e).lag]
    BY <2>2, Zenon
  <2>4. d.task = <<n, code, o>> /\ d.on = <<n, code, e.on>> BY <2>3
  <2>5. e.on \in DOMAIN entries BY DEF Loadable
  <2>6. d.task \in DOMAIN t.tasks /\ d.on \in DOMAIN t.tasks BY <1>1, <2>4, <2>5
  <2>7. <<n, code, o>>[2] = code /\ <<n, code, e.on>>[2] = code OBVIOUS
  <2> QED BY <2>4, <2>6, <2>7
<1>4. ASSUME NEW k \in DOMAIN t.tasks PROVE k[2] = code
  <2>1. PICK o \in DOMAIN entries : k = <<n, code, o>> BY <1>1
  <2> QED BY <2>1
<1>5. DOMAIN t.people = {} BY <1>1, NobodyListed
<1> QED BY <1>1, <1>2, <1>3, <1>4, <1>5 DEF RowsOK

LEMMA LoadBegins ==
    ASSUME SeedInv, NEW files \in Files, LoadTeam(files)
    PROVE  SeedInv' /\ StillKnown
<1> PICK new : new = DOMAIN files.team \ DOMAIN db.people OBVIOUS
<1> PICK row : row = [p \in new |-> [label |-> files.team[p], tg |-> FALSE]] OBVIOUS
<1>1. db' = db BY DEF LoadTeam
<1>2. seed' = [at |-> "templates", n |-> seed.n + 1, files |-> files, codes |-> Codes,
               map |-> [p \in DOMAIN db.people \cup new |->
                           IF p \in new THEN files.team[p] ELSE db.people[p].label],
               gone |-> {}, add |-> [Empty EXCEPT !.people = row]]
  BY DEF LoadTeam
<1> PICK add : add = [Empty EXCEPT !.people = row] OBVIOUS
<1>3. /\ DOMAIN seed' = {"at", "n", "files", "codes", "map", "gone", "add"}
      /\ DOMAIN seed'.map = DOMAIN db.people \cup new
      /\ seed'.gone = {} /\ seed'.add = add
  BY <1>2
<1>4. RowsOK(Empty, DOMAIN seed'.map) BY NoRows
<1>5. /\ DOMAIN add = Columns /\ add.people = row /\ add.tasks = Empty.tasks
      /\ add.assignees = Empty.assignees /\ add.deps = Empty.deps
      /\ add.personRoles = Empty.personRoles
  BY DEF Empty, Columns
<1>6. \A p \in DOMAIN row : {"label", "tg"} \subseteq DOMAIN row[p] OBVIOUS
<1>7. RowsOK(add, DOMAIN seed'.map) BY <1>4, <1>5, <1>6 DEF RowsOK
<1>8. LoadOK' BY <1>1, <1>3, <1>5, <1>7 DEF LoadOK
<1> QED BY <1>1, <1>8, TablesKnow DEF SeedInv

LEMMA TemplateLoaded ==
    ASSUME SeedInv, LoadTemplate
    PROVE  SeedInv' /\ StillKnown
<1> PICK code : code = Head(seed.codes) OBVIOUS
<1> PICK entries : entries = seed.files.templates[code] OBVIOUS
<1> PICK rows : rows = TemplateRows(entries, code, seed.n) OBVIOUS
<1>1. /\ seed.at = "templates" /\ Loadable(entries) /\ db' = db
      /\ seed' = [seed EXCEPT !.codes = Tail(@), !.gone = @ \cup TaskKeys(code),
                              !.add = Together(@, rows)]
  BY DEF LoadTemplate
<1>2. LoadOK BY <1>1 DEF SeedInv
<1>3. /\ DOMAIN seed' = DOMAIN seed /\ seed'.map = seed.map
      /\ seed'.gone = seed.gone \cup TaskKeys(code) /\ seed'.add = Together(seed.add, rows)
  BY <1>1, <1>2 DEF LoadOK
<1>4. RowsOK(rows, DOMAIN seed.map) BY <1>1, RowsOfTemplate
<1>5. RowsOK(seed'.add, DOMAIN seed.map) BY <1>2, <1>3, <1>4, RowsTogether DEF LoadOK
<1>6. DOMAIN seed.add.people \subseteq DOMAIN seed'.add.people
  <2>1. Together(seed.add, rows).people = Over(seed.add.people, rows.people) BY DEF Together
  <2>2. DOMAIN Over(seed.add.people, rows.people)
            = DOMAIN seed.add.people \cup DOMAIN rows.people
    BY DEF Over
  <2> QED BY <1>3, <2>1, <2>2
<1>7. \A k \in DOMAIN db.tasks : k \in TaskKeys(code) <=> k[2] = code
  BY DEF TaskKeys, SeedInv, RowsOK
<1>8. \A j, k \in DOMAIN db.tasks : j[2] = k[2] /\ j \in seed'.gone => k \in seed'.gone
  BY <1>2, <1>3, <1>7 DEF LoadOK
<1>9. LoadOK' BY <1>1, <1>2, <1>3, <1>5, <1>6, <1>8 DEF LoadOK
<1> QED BY <1>1, <1>9, TablesKnow DEF SeedInv

LEMMA CapabilityLoaded ==
    ASSUME SeedInv, LoadCapability
    PROVE  SeedInv' /\ StillKnown
<1>1. /\ seed.at = "templates" /\ db' = db
      /\ seed' = [seed EXCEPT !.at = "commit",
                    !.add.roleSkills = RoleSkillsOf(seed.files) \ db.roleSkills,
                    !.add.personRoles = PersonRolesOf(seed.files) \ db.personRoles]
  BY DEF LoadCapability
<1>2. LoadOK BY <1>1 DEF SeedInv
<1> PICK add : add = [seed.add EXCEPT !.roleSkills = RoleSkillsOf(seed.files) \ db.roleSkills,
                           !.personRoles = PersonRolesOf(seed.files) \ db.personRoles]
  OBVIOUS
<1>3. /\ DOMAIN seed' = DOMAIN seed /\ seed'.map = seed.map /\ seed'.gone = seed.gone
      /\ seed'.add = add
  BY <1>1, <1>2 DEF LoadOK
<1>4. RowsOK(seed.add, DOMAIN seed.map) BY <1>2 DEF LoadOK
<1>5. /\ DOMAIN add = Columns /\ add.people = seed.add.people /\ add.tasks = seed.add.tasks
      /\ add.assignees = seed.add.assignees /\ add.deps = seed.add.deps
      /\ add.personRoles = PersonRolesOf(seed.files) \ db.personRoles
  BY <1>4 DEF RowsOK, Columns
<1>6. \A pr \in add.personRoles : pr[1] \in DOMAIN seed.map
  <2> SUFFICES ASSUME NEW pr \in PersonRolesOf(seed.files) PROVE pr[1] \in DOMAIN seed.map
    BY <1>5
  <2>1. PICK p \in DOMAIN seed.map : pr = <<p, seed.map[p]>> BY DEF PersonRolesOf
  <2> QED BY <2>1
<1>7. RowsOK(add, DOMAIN seed.map) BY <1>4, <1>5, <1>6 DEF RowsOK
<1>8. LoadOK' BY <1>1, <1>2, <1>3, <1>5, <1>7 DEF LoadOK
<1> QED BY <1>1, <1>8, TablesKnow DEF SeedInv

(* What a load has not deleted refers to what it has not deleted.            *)
LEMMA KeptRows ==
    ASSUME SeedInv, LoadOK
    PROVE  RowsOK(Kept, DOMAIN db.people) /\ Kept.people = db.people
<1> PICK t : t = Kept OBVIOUS
<1>1. /\ DOMAIN t = Columns /\ t.people = db.people /\ t.personRoles = db.personRoles
      /\ t.tasks = Restrict(db.tasks, DOMAIN db.tasks \ seed.gone)
      /\ t.assignees = {a \in db.assignees : a.task \notin seed.gone}
      /\ t.deps = {d \in db.deps : d.task \notin seed.gone}
  BY DEF Kept, SeedInv, RowsOK, Columns
<1>2. /\ DOMAIN t.tasks = DOMAIN db.tasks \ seed.gone
      /\ \A k \in DOMAIN t.tasks : t.tasks[k] = db.tasks[k]
  BY <1>1 DEF Restrict
<1>3. \A a \in t.assignees : a.task \in DOMAIN t.tasks /\ a.person \in DOMAIN db.people
  BY <1>1, <1>2 DEF SeedInv, RowsOK
<1>4. ASSUME NEW d \in t.deps
      PROVE  d.task \in DOMAIN t.tasks /\ d.on \in DOMAIN t.tasks /\ d.task[2] = d.on[2]
  <2>1. d \in db.deps /\ d.task \notin seed.gone BY <1>1
  <2>2. d.task \in DOMAIN db.tasks /\ d.on \in DOMAIN db.tasks /\ d.task[2] = d.on[2]
    BY <2>1 DEF SeedInv, RowsOK
  <2>3. ASSUME NEW j \in DOMAIN db.tasks, NEW k \in DOMAIN db.tasks, j[2] = k[2],
               j \in seed.gone
        PROVE  k \in seed.gone
    BY <2>3 DEF LoadOK
  <2>4. d.on \notin seed.gone BY <2>1, <2>2, <2>3, Zenon
  <2> QED BY <1>2, <2>1, <2>2, <2>4
<1>5. \A k \in DOMAIN t.tasks : t.tasks[k].code = k[2] BY <1>2 DEF SeedInv, RowsOK
<1>6. /\ \A p \in DOMAIN t.people : {"label", "tg"} \subseteq DOMAIN t.people[p]
      /\ \A pr \in t.personRoles : pr[1] \in DOMAIN db.people
  BY <1>1 DEF SeedInv, RowsOK
<1>7. RowsOK(t, DOMAIN db.people) BY <1>1, <1>3, <1>4, <1>5, <1>6 DEF RowsOK
<1> QED BY <1>1, <1>7

LEMMA Committed ==
    ASSUME SeedInv, Commit
    PROVE  SeedInv' /\ StillKnown
<1>1. LoadOK BY DEF SeedInv, Commit
<1> PICK t : t = Kept OBVIOUS
<1> PICK S : S = DOMAIN db.people \cup DOMAIN seed.add.people OBVIOUS
<1>2. db' = Together(t, seed.add) /\ seed'.at = "none" BY DEF Commit, NoLoad
<1>3. RowsOK(t, DOMAIN db.people) /\ t.people = db.people BY <1>1, KeptRows
<1>4. RowsOK(t, S) BY <1>3, MoreNames
<1>5. RowsOK(seed.add, S) BY <1>1, MoreNames DEF LoadOK
<1>6. RowsOK(db', S) BY <1>2, <1>4, <1>5, RowsTogether
<1>7. db'.people = Over(db.people, seed.add.people) BY <1>2, <1>3 DEF Together
<1>8. DOMAIN db'.people = S /\ \A p \in DOMAIN db.people : db'.people[p] = db.people[p]
  BY <1>7 DEF Over
<1>9. StillKnown BY <1>8 DEF StillKnown, IsKnown
<1> QED BY <1>2, <1>6, <1>8, <1>9 DEF SeedInv

LEMMA ByHand ==
    ASSUME SeedInv, NEW p, NEW role, LinkTelegram(p) \/ Relabel(p, role) \/ GrantRole(p, role)
    PROVE  SeedInv' /\ StillKnown
<1>1. p \in DOMAIN db.people /\ seed' = seed BY DEF LinkTelegram, Relabel, GrantRole
<1>2. RowsOK(db, DOMAIN db.people) BY DEF SeedInv
<1>3. CASE GrantRole(p, role)
  <2>1. db' = [db EXCEPT !.personRoles = @ \cup {<<p, role>>}] BY <1>3 DEF GrantRole
  <2>2. /\ DOMAIN db' = Columns /\ db'.people = db.people /\ db'.tasks = db.tasks
        /\ db'.assignees = db.assignees /\ db'.deps = db.deps
        /\ db'.personRoles = db.personRoles \cup {<<p, role>>}
    BY <1>2, <2>1 DEF RowsOK, Columns
  <2>3. StillKnown BY <2>2 DEF StillKnown, IsKnown
  <2> QED BY <1>1, <1>2, <2>2, <2>3 DEF SeedInv, RowsOK, LoadOK
<1>4. ASSUME NEW field \in {"label", "tg"}, NEW value, field = "tg" => value = TRUE,
             NEW row, row = [db.people[p] EXCEPT ![field] = value],
             db' = [db EXCEPT !.people = [@ EXCEPT ![p] = row]]
      PROVE  SeedInv' /\ StillKnown
  <2>1. /\ DOMAIN db' = Columns /\ db'.people = [db.people EXCEPT ![p] = row]
        /\ db'.tasks = db.tasks /\ db'.assignees = db.assignees /\ db'.deps = db.deps
        /\ db'.personRoles = db.personRoles
    BY <1>2, <1>4 DEF RowsOK, Columns
  <2>2. {"label", "tg"} \subseteq DOMAIN db.people[p] BY <1>1, <1>2 DEF RowsOK
  <2>3. {"label", "tg"} \subseteq DOMAIN row /\ (db.people[p].tg => row.tg) BY <1>4, <2>2
  <2>4. /\ DOMAIN db'.people = DOMAIN db.people /\ db'.people[p] = row
        /\ \A q \in DOMAIN db.people \ {p} : db'.people[q] = db.people[q]
    BY <1>1, <2>1
  <2>5. StillKnown BY <2>3, <2>4 DEF StillKnown, IsKnown
  <2>6. \A q \in DOMAIN db'.people : {"label", "tg"} \subseteq DOMAIN db'.people[q]
    BY <1>2, <2>3, <2>4 DEF RowsOK
  <2> QED BY <1>1, <1>2, <2>1, <2>4, <2>5, <2>6 DEF SeedInv, RowsOK, LoadOK
<1>5. CASE LinkTelegram(p)
  <2>1. PICK row : row = [db.people[p] EXCEPT !.tg = TRUE] OBVIOUS
  <2>2. db' = [db EXCEPT !.people = [@ EXCEPT ![p] = row]] BY <1>5, <2>1 DEF LinkTelegram
  <2> QED BY <1>4, <2>1, <2>2
<1>6. CASE Relabel(p, role)
  <2>1. PICK row : row = [db.people[p] EXCEPT !.label = role] OBVIOUS
  <2>2. db' = [db EXCEPT !.people = [@ EXCEPT ![p] = row]] BY <1>6, <2>1 DEF Relabel
  <2> QED BY <1>4, <2>1, <2>2
<1> QED BY <1>3, <1>5, <1>6

-----------------------------------------------------------------------------
(* History and edits.                                                        *)
ChatsOK ==
    /\ history \in [Chats -> Seq(Users \cup {Bot})]
    /\ \A c \in Chats : Len(history[c]) <= MaxTurns
    /\ \A k \in DOMAIN fsm :
           fsm[k] \in [awaits : {"none", "edit", "answer"}, pending : BOOLEAN]

LEMMA FsmKept ==
    ASSUME NEW k, NEW v \in {"none", "edit", "answer"}, NEW b \in BOOLEAN,
           \A i \in DOMAIN fsm : fsm[i] \in [awaits : {"none", "edit", "answer"},
                                           pending : BOOLEAN],
           \/ fsm' = fsm \/ fsm' = [fsm EXCEPT ![k].awaits = v]
           \/ fsm' = [fsm EXCEPT ![k].pending = b]
    PROVE  \A i \in DOMAIN fsm' : fsm'[i] \in [awaits : {"none", "edit", "answer"},
                                             pending : BOOLEAN]
OBVIOUS

LEMMA SaidKeeps ==
    ASSUME NEW c \in Chats, NEW who \in Users \cup {Bot}, Said(c, who),
           history \in [Chats -> Seq(Users \cup {Bot})],
           \A d \in Chats : Len(history[d]) <= MaxTurns
    PROVE  /\ history' \in [Chats -> Seq(Users \cup {Bot})]
           /\ \A d \in Chats : Len(history'[d]) <= MaxTurns
<1> PICK turns : turns = Append(history[c], who) OBVIOUS
<1>1. /\ turns \in Seq(Users \cup {Bot}) /\ turns # <<>>
      /\ Len(turns) = Len(history[c]) + 1 /\ Len(history[c]) \in Nat
  OBVIOUS
<1> PICK last : last = IF Len(turns) > MaxTurns THEN Tail(turns) ELSE turns OBVIOUS
<1>2. Tail(turns) \in Seq(Users \cup {Bot}) /\ Len(Tail(turns)) = Len(turns) - 1 BY <1>1
<1>3. last \in Seq(Users \cup {Bot}) /\ Len(last) <= MaxTurns
  BY <1>1, <1>2, GateAssumption
<1>4. history' = [history EXCEPT ![c] = last] BY DEF Said
<1> QED BY <1>3, <1>4

LEMMA ChatsKept ==
    ASSUME GateInv, ChatsOK, [Next]_vars
    PROVE  ChatsOK'
<1>1. CASE UNCHANGED <<history, fsm>> BY <1>1 DEF ChatsOK
<1>2. ASSUME NEW h \in Handlers, history' = history,
             NEW v \in {"none", "edit", "answer"}, NEW b \in BOOLEAN,
             \/ fsm' = fsm \/ fsm' = [fsm EXCEPT ![Key(h)].awaits = v]
             \/ fsm' = [fsm EXCEPT ![Key(h)].pending = b]
      PROVE  ChatsOK'
  BY <1>2, FsmKept DEF ChatsOK
<1>3. ASSUME NEW h \in Handlers, Remember(h) PROVE ChatsOK'
  <2>1. run[h].at # "idle" BY <1>3 DEF Remember, At
  <2>2. run[h].user \in Users /\ run[h].chat \in Chats BY <2>1 DEF GateInv, RunOK
  <2>3. Said(run[h].chat, run[h].user) /\ fsm' = fsm BY <1>3 DEF Remember
  <2> QED BY <2>2, <2>3, SaidKeeps DEF ChatsOK
<1>4. ASSUME NEW h \in Handlers, Reply(h) PROVE ChatsOK'
  <2>1. CASE history' = history /\ fsm' = [fsm EXCEPT ![Key(h)].awaits = "none"]
    BY <1>2, <2>1
  <2>2. CASE Said(run[h].chat, Bot) /\ fsm' = fsm
    <3>1. run[h].at # "idle" BY <1>4 DEF Reply, At
    <3>2. run[h].chat \in Chats BY <3>1 DEF GateInv, RunOK
    <3> QED BY <2>2, <3>2, SaidKeeps DEF ChatsOK
  <2> QED BY <1>4, <2>1, <2>2 DEF Reply
<1>5. ASSUME NEW h \in Handlers, HearAnswer(h) \/ HearPress(h) PROVE ChatsOK'
  <2>1. history' = history BY <1>5 DEF HearAnswer, HearPress, memory
  <2>2. PICK v \in {"none", "edit", "answer"} :
            fsm' = fsm \/ fsm' = [fsm EXCEPT ![Key(h)].awaits = v]
    BY <1>5 DEF HearAnswer, HearPress
  <2> QED BY <1>2, <2>1, <2>2
<1>6. ASSUME NEW h \in Handlers, ClearState(h) \/ ClearData(h) PROVE ChatsOK'
  BY <1>2, <1>6 DEF ClearState, ClearData, memory
<1>7. ASSUME NEW h \in Handlers, Stash(h) \/ Rearm(h) \/ KeepPending(h) PROVE ChatsOK'
  BY <1>2, <1>7 DEF Stash, Rearm, KeepPending, memory
<1>8. CASE Restart
  <2>1. history' = [c \in Chats |-> <<>>] /\ fsm' = fsm BY <1>8 DEF Restart
  <2>2. <<>> \in Seq(Users \cup {Bot}) /\ Len(<<>>) = 0 OBVIOUS
  <2> QED BY <2>1, <2>2, GateAssumption DEF ChatsOK
<1>9. CASE UNCHANGED vars BY <1>1, <1>9 DEF vars
<1>10. CASE Tick \/ SeedNext BY <1>1, <1>10 DEF Tick, SeedNext, memory
<1>11. ASSUME NEW h \in Handlers, OtherThan(h) PROVE ChatsOK'
  <2>1. CASE Throttle(h) \/ ResolveActor(h) \/ HearEdit(h) \/ HearText(h) \/ HearTask(h)
    BY <1>1, <2>1 DEF Throttle, ResolveActor, HearEdit, HearText, HearTask, memory
  <2>2. CASE HearVoice(h) \/ Transcribe(h) \/ Refuse(h) \/ ConfirmPending(h)
             \/ ReplyEdit(h) \/ Fail(h)
    BY <1>1, <2>2 DEF HearVoice, Transcribe, Refuse, ConfirmPending, ReplyEdit, Fail, memory
  <2>3. CASE \/ \E i \in DOMAIN Codes : SelectTemplate(h, Codes[i])
             \/ SelectTasks(h) \/ SelectAssignees(h) \/ SelectDependencies(h) \/ PlanRead(h)
             \/ \E ask \in Needs : FindAssignees(h, ask)
    BY <1>1, <2>3 DEF SelectTemplate, SelectTasks, SelectAssignees, SelectDependencies,
                      PlanRead, FindAssignees, memory
  <2> QED BY <1>3, <1>4, <1>5, <1>6, <1>7, <1>11, <2>1, <2>2, <2>3 DEF OtherThan
<1>12. ASSUME NEW h, NEW u, NEW c, NEW m, Receive(h, u, c, m) PROVE ChatsOK'
  BY <1>1, <1>12 DEF Receive, memory
<1>13. ASSUME NEW h, NEW u, NEW c, NEW b, Press(h, u, c, b) PROVE ChatsOK'
  BY <1>1, <1>13 DEF Press, memory
<1> QED BY <1>8, <1>9, <1>10, <1>11, <1>12, <1>13 DEF Next

-----------------------------------------------------------------------------
IInv == GateInv /\ SeedInv /\ ChatsOK

LEMMA Starts == Init => IInv
<1> SUFFICES ASSUME Init PROVE IInv OBVIOUS
<1>1. /\ db = Empty /\ seed.at = "none" /\ clock = 0 /\ lastSeen = <<>> /\ armed = <<>>
      /\ history = [c \in Chats |-> <<>>] /\ calls = {}
      /\ fsm = [k \in Chats \X Users |-> [awaits |-> "none", pending |-> FALSE]]
      /\ run = [h \in Handlers |-> Idle]
  BY DEF Init, SeedInit, NoLoad
<1>2. \A h \in Handlers : run[h] = Idle /\ run[h].at = "idle" BY <1>1 DEF Idle
<1>3. \A h \in Handlers : RunOK(h) /\ HeardOK(h) BY <1>2 DEF RunOK, HeardOK, Stages, InTurn
<1>4. DOMAIN lastSeen = {} /\ DOMAIN armed = {} BY <1>1, NobodyListed
<1>5. ArmedOK BY <1>1, <1>4 DEF ArmedOK
<1>6. GateInv BY <1>1, <1>2, <1>3, <1>5 DEF GateInv, Frame
<1>7. SeedInv BY <1>1, NoRows DEF SeedInv
<1>8. <<>> \in Seq(Users \cup {Bot}) /\ Len(<<>>) = 0 OBVIOUS
<1>9. ChatsOK BY <1>1, <1>8, GateAssumption DEF ChatsOK
<1> QED BY <1>6, <1>7, <1>9 DEF IInv

LEMMA KeepsTables ==
    ASSUME NEW h \in Handlers, OtherThan(h)
    PROVE  UNCHANGED tables
<1>1. CASE Throttle(h) \/ ResolveActor(h) \/ HearEdit(h) \/ HearAnswer(h) \/ HearText(h)
           \/ HearTask(h) \/ HearVoice(h) \/ HearPress(h)
  BY <1>1 DEF Throttle, ResolveActor, HearEdit, HearAnswer, HearText, HearTask, HearVoice, HearPress
<1>2. CASE Transcribe(h) \/ Refuse(h) \/ ConfirmPending(h) \/ ClearState(h) \/ ClearData(h)
           \/ Reply(h) \/ ReplyEdit(h) \/ Stash(h) \/ Rearm(h) \/ KeepPending(h) \/ Fail(h)
  BY <1>2 DEF Transcribe, Refuse, ConfirmPending, ClearState, ClearData, Reply, ReplyEdit, Stash,
              Rearm, KeepPending, Fail
<1>3. CASE Turns(h)
  BY <1>3 DEF Turns, Remember, SelectTemplate, SelectTasks, SelectAssignees,
              SelectDependencies, PlanRead, FindAssignees
<1> QED BY <1>1, <1>2, <1>3 DEF OtherThan, Turns

LEMMA GoesOn == IInv /\ [Next]_vars => IInv'
<1> SUFFICES ASSUME IInv, [Next]_vars PROVE IInv' OBVIOUS
<1>1. GateInv /\ SeedInv /\ ChatsOK BY DEF IInv
<1>2. ChatsOK' BY <1>1, ChatsKept
<1>3. ASSUME UNCHANGED <<db, seed>> PROVE SeedInv' BY <1>1, <1>3 DEF SeedInv, LoadOK
<1>4. ASSUME NEW h \in Handlers, OtherThan(h) PROVE IInv'
  <2>1. UNCHANGED <<db, seed>> BY <1>4, KeepsTables DEF tables
  <2>2. GateInv'
    BY <1>1, <1>4, Throttled, Actor, EditHeard, AnswerHeard, TextHeard, VoiceHeard, Heard,
       Decided, Turn, Failed DEF OtherThan, Turns
  <2> QED BY <1>2, <1>3, <2>1, <2>2 DEF IInv
<1>5. ASSUME NEW h \in Handlers, NEW u \in Users, NEW c \in Chats, NEW m \in Messages,
             Receive(h, u, c, m)
      PROVE  IInv'
  <2>1. UNCHANGED <<db, seed>> BY <1>5 DEF Receive, tables
  <2>2. GateInv' BY <1>1, <1>5, Received
  <2> QED BY <1>2, <1>3, <2>1, <2>2 DEF IInv
<1>6. ASSUME NEW h \in Handlers, NEW u \in Users, NEW c \in Chats, NEW button,
             Press(h, u, c, button)
      PROVE  IInv'
  <2>1. UNCHANGED <<db, seed>> BY <1>6 DEF Press, tables
  <2>2. GateInv' BY <1>1, <1>6, Pressed
  <2> QED BY <1>2, <1>3, <2>1, <2>2 DEF IInv
<1>7. CASE Restart
  <2>1. UNCHANGED <<db, seed>> BY <1>7 DEF Restart, tables
  <2> QED BY <1>1, <1>2, <1>3, <1>7, <2>1, Forgotten DEF IInv
<1>8. ASSUME UNCHANGED <<db, seed, lastSeen, armed, run, calls>>, clock' \in {clock, clock + 1},
             DOMAIN fsm' = DOMAIN fsm
      PROVE  IInv'
  BY <1>1, <1>2, <1>3, <1>8, ClockGoesOn, TablesKnow DEF IInv
<1>9. CASE Tick BY <1>8, <1>9 DEF Tick, tables, memory
<1>10. CASE UNCHANGED vars BY <1>8, <1>10 DEF vars
<1>11. CASE SeedNext
  <2>1. UNCHANGED <<lastSeen, armed, clock, fsm, run, calls>> BY <1>11 DEF SeedNext, memory
  <2>2. ASSUME seed'.at = "none", db' = db PROVE SeedInv' /\ StillKnown
    BY <1>1, <2>2, TablesKnow DEF SeedInv
  <2>3. SeedInv' /\ StillKnown
    <3>1. ASSUME NEW files \in Files, LoadTeam(files) PROVE SeedInv' /\ StillKnown
      BY <1>1, <3>1, LoadBegins
    <3>2. CASE SeedStep
      <4>1. CASE Rollback BY <2>2, <4>1 DEF Rollback, NoLoad
      <4> QED BY <1>1, <3>2, <4>1, TemplateLoaded, CapabilityLoaded, Committed DEF SeedStep
    <3>3. ASSUME NEW p, NEW role, LinkTelegram(p) \/ Relabel(p, role) \/ GrantRole(p, role)
          PROVE  SeedInv' /\ StillKnown
      BY <1>1, <3>3, ByHand
    <3>4. ASSUME NEW p, LinkTelegram(p) PROVE SeedInv' /\ StillKnown BY <3>3, <3>4
    <3> QED BY <1>11, <3>1, <3>2, <3>3, <3>4 DEF SeedNext
  <2>4. GateInv' BY <1>1, <2>1, <2>3, ClockGoesOn
  <2> QED BY <1>2, <2>3, <2>4 DEF IInv
<1> QED BY <1>4, <1>5, <1>7, <1>6, <1>9, <1>10, <1>11 DEF Next

(* In every state: the calls and the arming of voices fit together, the      *)
(* rights of an author outlast what he was resolved by, and the tables and   *)
(* a running load refer to rows and people that are there.                  *)
THEOREM GateHolds == Spec => []IInv
<1>1. Init => IInv BY Starts
<1>2. IInv /\ [Next]_vars => IInv' BY GoesOn
<1> QED BY <1>1, <1>2, PTL DEF Spec

(* Rows refer to rows that exist, also after a load has replaced templates   *)
(* one by one (load_seed.py); what the throttle, the arming and the history  *)
(* remember is of the past and bounded (throttle.py, voice_arm.py,           *)
(* chat_history.py); and an FSM awaits one thing at most.                   *)
THEOREM TypesHold == Spec => []TypeOK
<1>1. IInv => TypeOK
  BY DEF IInv, GateInv, ArmedOK, SeedInv, RowsOK, ChatsOK, TypeOK
<1> QED BY <1>1, GateHolds, PTL

LEMMA SameCall ==
    ASSUME NEW c, NEW d,
           c = [user |-> c.user, chat |-> c.chat, at |-> c.at, fate |-> c.fate, when |-> c.when],
           d = [user |-> d.user, chat |-> d.chat, at |-> d.at, fate |-> d.fate, when |-> d.when],
           d.user = c.user, d.chat = c.chat, d.at = c.at
    PROVE  d = [c EXCEPT !.fate = d.fate, !.when = d.when]
<1>1. PICK u, x, t, f, w, g, v :
          /\ c = [user |-> u, chat |-> x, at |-> t, fate |-> f, when |-> w]
          /\ d = [user |-> u, chat |-> x, at |-> t, fate |-> g, when |-> v]
  OBVIOUS
<1>2. PICK e : e = [c EXCEPT !.fate = g, !.when = v] OBVIOUS
<1>3. DOMAIN e = {"user", "chat", "at", "fate", "when"} BY <1>1, <1>2
<1>4. e.user = u /\ e.chat = x /\ e.at = t /\ e.fate = g /\ e.when = v BY <1>1, <1>2
<1>5. e = [k \in DOMAIN e |-> e[k]] BY <1>2
<1>6. e = d BY <1>1, <1>3, <1>4, <1>5
<1>7. d.fate = g /\ d.when = v BY <1>1
<1> QED BY <1>2, <1>6, <1>7

(* The bot takes part on purpose only: an unaddressed voice in a group is    *)
(* listened to only when a text of its author to the bot was heard there      *)
(* within the window before, and passed over only when each such text was    *)
(* heard longer ago, is on its way still, came to nothing by a failure, or    *)
(* was taken as an edit or an answer; and it has turns only with those who    *)
(* may (voice_arm.py, task_router.py, permissions.py).                      *)
THEOREM HeardOnPurposeHolds == Spec => []HeardOnPurpose
<1>1. ASSUME IInv PROVE HeardOnPurpose
  <2>1. GateInv BY <1>1 DEF IInv
  <2>2. ASSUME NEW h \in Handlers PROVE HeardOK(h) BY <2>1 DEF GateInv
  <2>3. ASSUME NEW h \in Handlers, At(h, "speech"), ~IsAddressed(h)
        PROVE  \E c \in Called(h) :
                   c.fate = "heard" /\ run[h].listened \in c.when..(c.when + ArmWindow)
    BY <2>2, <2>3 DEF At, HeardOK, HeardBefore, Called
  <2>4. ASSUME NEW h \in Handlers, ~IsArmed(run[h].chat, run[h].user), NEW c \in Called(h),
               c.fate = "heard"
        PROVE  clock > c.when + ArmWindow
    <3>1. c \in calls /\ c.user = run[h].user /\ c.chat = run[h].chat BY DEF Called
    <3>2. CallOK(c) BY <2>1, <3>1 DEF GateInv
    <3>3. PICK k : k = <<run[h].chat, run[h].user>> OBVIOUS
    <3>4. k \in DOMAIN armed /\ c.when <= armed[k] /\ armed[k] \in 0..clock /\ c.when \in 0..clock
      BY <2>1, <2>4, <3>1, <3>2, <3>3 DEF GateInv, ArmedOK, CallOK
    <3>5. ~(clock - armed[k] <= ArmWindow) BY <2>4, <3>3, <3>4 DEF IsArmed
    <3> QED BY <2>1, <3>4, <3>5, GateAssumption DEF GateInv, Frame
  <2>5. ASSUME NEW c \in calls, c.fate = "way"
        PROVE  \/ OnItsWay(c)
               \/ \E d \in calls :
                      d.fate # "way" /\ d = [c EXCEPT !.fate = d.fate, !.when = d.when]
    <3>1. CallOK(c) BY <2>1 DEF GateInv
    <3>2. CASE Carried(c) BY <3>2 DEF Carried, OnItsWay, Pending, Of
    <3>3. CASE Settled(c)
      <4>1. PICK d \in calls : d.fate # "way" /\ d.user = c.user /\ d.chat = c.chat /\ d.at = c.at
        BY <3>3 DEF Settled
      <4>2. CallOK(d) BY <2>1 DEF GateInv
      <4>3. d = [c EXCEPT !.fate = d.fate, !.when = d.when]
        BY <3>1, <4>1, <4>2, SameCall DEF CallOK
      <4> QED BY <4>1, <4>3
    <3> QED BY <2>5, <3>1, <3>2, <3>3 DEF CallOK
  <2>6. ASSUME NEW h \in Handlers, run[h].at \in InTurn PROVE Entitled(h)
    BY <2>2, <2>6 DEF HeardOK, Stages, InTurn, Pending
  <2> SUFFICES ASSUME NEW h \in Handlers
               PROVE  /\ At(h, "speech") /\ ~IsAddressed(h) =>
                             \E c \in Called(h) :
                                 /\ c.fate = "heard"
                                 /\ run[h].listened \in c.when..(c.when + ArmWindow)
                      /\ Routed(h, "voice") /\ ~IsAddressed(h)
                             /\ ~IsArmed(run[h].chat, run[h].user) =>
                             \A c \in Called(h) :
                                 /\ c.fate = "heard" => clock > c.when + ArmWindow
                                 /\ c.fate = "way" =>
                                        \/ OnItsWay(c)
                                        \/ \E d \in calls :
                                               /\ d.fate # "way"
                                               /\ d = [c EXCEPT !.fate = d.fate, !.when = d.when]
                      /\ run[h].at \in InTurn => Entitled(h)
    BY DEF HeardOnPurpose, InTurn, Entitled
  <2>7. Called(h) \subseteq calls BY DEF Called
  <2> QED BY <2>3, <2>4, <2>5, <2>6, <2>7, Zenon
<1> QED BY <1>1, GateHolds, PTL

-----------------------------------------------------------------------------
(* Sorting *)

LEMMA NatHasLeast ==
    ASSUME NEW T \in SUBSET Nat, T # {}
    PROVE  \E n \in T : \A m \in T : n <= m
<1> DEFINE less == {ss \in Nat \X Nat : ss[1] < ss[2]}
<1>1. IsWellFoundedOn(less, Nat) BY NatLessThanWellFounded DEF OpToRel
<1>2. \E x \in T : \A y \in T : ~(<<y, x>> \in less)
  <2> HIDE DEF less
  <2> QED BY <1>1, WFMin
<1>3. PICK n \in T : \A y \in T : ~(<<y, n>> \in less) BY <1>2
<1>4. ASSUME NEW m \in T PROVE n <= m
  <2>1. <<m, n>> \notin less /\ <<m, n>> \in Nat \X Nat BY <1>3
  <2>2. ~(m < n) BY <2>1
  <2> QED BY <2>2
<1> QED BY <1>4

(* Of the sets of a nonempty family of finite sets, one includes no other.   *)
LEMMA MinimalSet ==
    ASSUME NEW S, IsFiniteSet(S), NEW F \in SUBSET (SUBSET S), F # {}
    PROVE  \E T \in F : \A U \in SUBSET T : U # T => U \notin F
<1>1. \A T \in F : IsFiniteSet(T) /\ Cardinality(T) \in Nat
  BY FS_Subset, FS_CardinalityType
<1> DEFINE sizes == {Cardinality(T) : T \in F}
<1>2. \E n \in sizes : \A m \in sizes : n <= m
  <2>1. sizes \in SUBSET Nat /\ sizes # {} BY <1>1
  <2> QED BY <2>1, NatHasLeast
<1>3. PICK T \in F : \A U \in F : Cardinality(T) <= Cardinality(U)
  BY <1>2
<1>4. ASSUME NEW U \in SUBSET T, U # T, U \in F PROVE FALSE
  <2>1. Cardinality(U) <= Cardinality(T) /\ (Cardinality(T) = Cardinality(U) => T = U)
    BY FS_Subset, <1>1, <1>3
  <2>2. Cardinality(T) <= Cardinality(U) BY <1>3, <1>4
  <2> QED BY <2>1, <2>2, <1>1, <1>3, <1>4
<1> QED BY <1>3, <1>4

Numbers(n) == [1..n -> Int]

LEMMA BelowIsTransitive ==
    ASSUME NEW n \in Nat, NEW a \in Numbers(n), NEW b \in Numbers(n), NEW c \in Numbers(n),
           Below(a, b), Below(b, c)
    PROVE  Below(a, c)
<1>1. PICK i \in 1..n : a[i] < b[i] /\ \A j \in 1..(i - 1) : a[j] = b[j]
  BY DEF Below, Numbers
<1>2. PICK k \in 1..n : b[k] < c[k] /\ \A j \in 1..(k - 1) : b[j] = c[j]
  BY DEF Below, Numbers
<1>3. \A j \in 1..n : a[j] \in Int /\ b[j] \in Int /\ c[j] \in Int BY DEF Numbers
<1>4. CASE i < k
  <2>1. a[i] < c[i] BY <1>1, <1>2, <1>3, <1>4
  <2>2. \A j \in 1..(i - 1) : a[j] = c[j] BY <1>1, <1>2, <1>4
  <2> QED BY <2>1, <2>2 DEF Below, Numbers
<1>5. CASE i >= k
  <2>1. a[k] < c[k]
    <3>1. CASE i = k BY <1>1, <1>2, <1>3, <3>1
    <3>2. CASE i > k
      <4>1. a[k] = b[k] BY <1>1, <3>2
      <4> QED BY <4>1, <1>2
    <3> QED BY <1>5, <3>1, <3>2
  <2>2. \A j \in 1..(k - 1) : a[j] = c[j] BY <1>1, <1>2, <1>5
  <2> QED BY <2>1, <2>2 DEF Below, Numbers
<1> QED BY <1>4, <1>5

LEMMA BelowIsIrreflexive ==
    ASSUME NEW n \in Nat, NEW a \in Numbers(n) PROVE ~Below(a, a)
BY DEF Below, Numbers

(* Nothing is above the greatest of some elements.                           *)
LEMMA GreatestOf ==
    ASSUME NEW S, IsFiniteSet(S), S # {}, NEW n \in Nat, NEW key,
           \A x \in S : key[x] \in Numbers(n)
    PROVE  \E m \in S : \A x \in S : ~Below(key[m], key[x])
<1> DEFINE above(x) == {y \in S : Below(key[x], key[y])}
           F == {above(x) : x \in S}
<1>1. F \in SUBSET (SUBSET S) /\ F # {} OBVIOUS
<1>2. PICK T \in F : \A U \in SUBSET T : U # T => U \notin F
  <2> HIDE DEF F
  <2> QED BY <1>1, MinimalSet
<1>3. PICK m \in S : T = above(m) BY <1>2
<1>4. ASSUME NEW y \in S, Below(key[m], key[y]) PROVE FALSE
  <2>1. above(y) \subseteq above(m) BY <1>4, BelowIsTransitive
  <2>2. y \in above(m) /\ y \notin above(y) BY <1>4, BelowIsIrreflexive
  <2>3. above(y) \in F OBVIOUS
  <2> QED BY <1>2, <1>3, <2>1, <2>2, <2>3
<1> QED BY <1>4

Orders(s, S, key) ==
    /\ s \in [1..Cardinality(S) -> S]
    /\ ToSet(s) = S
    /\ \A i, j \in DOMAIN s : i < j => ~Below(key[s[j]], key[s[i]])

LEMMA OrderOfNothing ==
    ASSUME NEW key PROVE \E s : Orders(s, {}, key)
<1>1. Cardinality({}) = 0 BY FS_EmptySet
<1> DEFINE s == [i \in 1..Cardinality({}) |-> i]
<1>2. s \in [1..Cardinality({}) -> {}] /\ DOMAIN s = {} BY <1>1
<1>3. ToSet(s) = {} BY <1>2 DEF ToSet
<1>4. Orders(s, {}, key)
  <2> HIDE DEF s
  <2> QED BY <1>2, <1>3 DEF Orders
<1> QED BY <1>4

LEMMA OrderGrows ==
    ASSUME NEW S, IsFiniteSet(S), NEW m \in S, NEW key, \A x \in S : ~Below(key[m], key[x]),
           NEW s, Orders(s, S \ {m}, key)
    PROVE  \E t : Orders(t, S, key)
<1>1. IsFiniteSet(S \ {m}) /\ Cardinality(S \ {m}) = Cardinality(S) - 1
  BY FS_RemoveElement
<1>2. PICK n \in Nat : n = Cardinality(S) BY FS_CardinalityType
<1>3. PICK k \in Nat : k = Cardinality(S \ {m}) BY <1>1, FS_CardinalityType
<1>4. n = k + 1 BY <1>1, <1>2, <1>3
<1>5. /\ s \in [1..k -> S \ {m}] /\ ToSet(s) = S \ {m}
      /\ \A i, j \in 1..k : i < j => ~Below(key[s[j]], key[s[i]])
  BY <1>3 DEF Orders
<1> DEFINE t == [i \in 1..n |-> IF i = n THEN m ELSE s[i]]
<1>6. \A i \in 1..n : i # n => i \in 1..k BY <1>4
<1>7. n \in 1..n /\ \A i \in 1..k : i \in 1..n /\ i # n BY <1>4
<1>8. t \in [1..n -> S] BY <1>5, <1>6
<1>9. DOMAIN t = 1..n /\ t[n] = m /\ \A i \in 1..k : t[i] = s[i] BY <1>7
<1> HIDE DEF t
<1>10. ToSet(t) = S
  <2>1. \A x \in S : \E i \in 1..n : t[i] = x
    <3> SUFFICES ASSUME NEW x \in S PROVE \E i \in 1..n : t[i] = x OBVIOUS
    <3>1. CASE x = m BY <3>1, <1>7, <1>9
    <3>2. CASE x # m
      <4>1. x \in ToSet(s) BY <1>5, <3>2
      <4>2. PICK i \in 1..k : s[i] = x BY <4>1, <1>5 DEF ToSet
      <4> QED BY <4>2, <1>7, <1>9
    <3> QED BY <3>1, <3>2
  <2> QED BY <2>1, <1>8, <1>9 DEF ToSet
<1>11. ASSUME NEW i \in 1..n, NEW j \in 1..n, i < j PROVE ~Below(key[t[j]], key[t[i]])
  <2>1. CASE j = n BY <2>1, <1>8, <1>9
  <2>2. CASE j # n
    <3>1. i \in 1..k /\ j \in 1..k BY <2>2, <1>4, <1>11
    <3> QED BY <3>1, <1>5, <1>9, <1>11
  <2> QED BY <2>1, <2>2
<1>12. Orders(t, S, key) BY <1>2, <1>8, <1>9, <1>10, <1>11 DEF Orders
<1> QED BY <1>12

LEMMA SortedIs ==
    ASSUME NEW S, IsFiniteSet(S), NEW n \in Nat, NEW key, \A x \in S : key[x] \in Numbers(n)
    PROVE  Orders(Sorted(S, key), S, key)
<1> DEFINE F == {T \in SUBSET S : ~ \E s : Orders(s, T, key)}
<1>1. \E s : Orders(s, S, key)
  <2> SUFFICES ASSUME F # {} PROVE FALSE OBVIOUS
  <2>1. PICK T \in F : \A U \in SUBSET T : U # T => U \notin F
    <3>1. F \in SUBSET (SUBSET S) OBVIOUS
    <3> HIDE DEF F
    <3> QED BY <3>1, MinimalSet
  <2>2. T # {} BY OrderOfNothing
  <2>3. IsFiniteSet(T) BY FS_Subset
  <2>4. PICK m \in T : \A x \in T : ~Below(key[m], key[x])
    BY <2>2, <2>3, GreatestOf
  <2>5. PICK s : Orders(s, T \ {m}, key) BY <2>1
  <2>6. \E t : Orders(t, T, key) BY <2>3, <2>4, <2>5, OrderGrows
  <2> QED BY <2>6
<1>2. Sorted(S, key) = CHOOSE s \in [1..Cardinality(S) -> S] :
        ToSet(s) = S /\ \A i, j \in DOMAIN s : i < j => ~Below(key[s[j]], key[s[i]])
  BY DEF Sorted
<1>3. \E s \in [1..Cardinality(S) -> S] :
        ToSet(s) = S /\ \A i, j \in DOMAIN s : i < j => ~Below(key[s[j]], key[s[i]])
  BY <1>1 DEF Orders
<1> QED BY <1>2, <1>3 DEF Orders

-----------------------------------------------------------------------------
(* What is read of a task's people, links and mode *)

AssigneeRow(k, list, i) ==
    [task |-> k, person |-> list[i].person, rank |-> Given(list[i].rank, i - 1),
     strict |-> list[i].strict]

AssigneeRows(k, list) == {AssigneeRow(k, list, i) : i \in DOMAIN list}
Ranks(rows) == [a \in rows |-> <<a.rank, a.strict>>]
PersonsOf(list) == [i \in DOMAIN list |-> list[i].person]

DepRow(c, n, o, d) ==
    [task |-> <<n, c, o>>, on |-> <<n, c, d.on>>, link |-> DepFields(d).link,
     lag |-> DepFields(d).lag]

(* A list of different people, with numbers for their ranks.                 *)
Numbered(list) ==
    /\ list \in Seq(ToSet(list))
    /\ \A i \in DOMAIN list : list[i].strict \in Int /\ Given(list[i].rank, i - 1) \in Int
NobodyTwice(list) ==
    \A i, j \in DOMAIN list : list[i].person = list[j].person => i = j

LEMMA RowsOfTask ==
    ASSUME NEW k, NEW list, Numbered(list), NobodyTwice(list),
           NEW B, B = AssigneeRows(k, list)
    PROVE  /\ IsFiniteSet(B) /\ Cardinality(B) = Len(list)
           /\ \A a \in B : <<a.rank, a.strict>> \in Numbers(2)
<1>1. DOMAIN list = 1..Len(list) /\ Len(list) \in Nat BY DEF Numbered
<1> DEFINE f == [i \in 1..Len(list) |-> AssigneeRow(k, list, i)]
<1>2. f \in [1..Len(list) -> B] BY <1>1 DEF AssigneeRows
<1>3. \A a \in B : \E i \in 1..Len(list) : f[i] = a BY <1>1 DEF AssigneeRows
<1>4. \A i \in 1..Len(list) : f[i].person = list[i].person BY DEF AssigneeRow
<1>5. \A i, j \in 1..Len(list) : f[i] = f[j] => i = j
  <2> HIDE DEF f
  <2> QED BY <1>1, <1>4 DEF NobodyTwice
<1>6. f \in Bijection(1..Len(list), B)
  <2> HIDE DEF f
  <2> QED BY <1>2, <1>3, <1>5 DEF Bijection, Surjection, Injection, IsInjective
<1>7. IsFiniteSet(1..Len(list)) /\ Cardinality(1..Len(list)) = Len(list)
  <2>1. PICK n : n = Len(list) OBVIOUS
  <2>2. n \in Nat /\ 1 \in Int /\ n \in Int BY <1>1, <2>1
  <2>3. IsFiniteSet(1..n) /\ Cardinality(1..n) = IF 1 > n THEN 0 ELSE n - 1 + 1
    BY <2>2, FS_Interval
  <2>4. Cardinality(1..n) = n BY <2>2, <2>3
  <2> QED BY <2>1, <2>3, <2>4
<1>8. IsFiniteSet(B) /\ Cardinality(B) = Len(list)
  <2> HIDE DEF f
  <2>1. ExistsBijection(1..Len(list), B) BY <1>6 DEF ExistsBijection
  <2> QED BY <2>1, <1>7, FS_Bijection
<1>9. \A i \in DOMAIN list : <<AssigneeRow(k, list, i).rank,
                              AssigneeRow(k, list, i).strict>> \in Numbers(2)
  BY DEF AssigneeRow, Numbered, Numbers
<1> QED BY <1>8, <1>9 DEF AssigneeRows

LEMMA ListInOrder ==
    ASSUME NEW k, NEW list, Numbered(list), NobodyTwice(list),
           NEW B, B = AssigneeRows(k, list), NEW s, s = Sorted(B, Ranks(B)),
           NEW names, names = PersonsOf(s), NEW people, people = PersonsOf(list)
    PROVE  /\ ToSet(names) = ToSet(people)
           /\ \A i, j \in DOMAIN people :
                  Given(list[i].rank, i - 1) < Given(list[j].rank, j - 1) =>
                      \E m \in DOMAIN names :
                          /\ names[m] = people[i]
                          /\ people[j] \in ToSet(SubSeq(names, m + 1, Len(people)))
<1> PICK n : n = Len(list) OBVIOUS
<1>1. n \in Nat /\ DOMAIN list = 1..n BY DEF Numbered
<1>2. /\ IsFiniteSet(B) /\ Cardinality(B) = n
      /\ \A a \in B : <<a.rank, a.strict>> \in Numbers(2)
  <2>1. /\ IsFiniteSet(B) /\ Cardinality(B) = Len(list)
        /\ \A a \in B : <<a.rank, a.strict>> \in Numbers(2)
    BY RowsOfTask
  <2> QED BY <2>1
<1> PICK key : key = Ranks(B) OBVIOUS
<1>3. \A a \in B : key[a] = <<a.rank, a.strict>> BY DEF Ranks
<1>4. Orders(s, B, key)
  <2>1. s = Sorted(B, key) OBVIOUS
  <2>2. \A a \in B : key[a] \in Numbers(2) BY <1>2, <1>3
  <2> QED BY <1>2, <2>1, <2>2, SortedIs
<1>5. /\ s \in [1..n -> B] /\ ToSet(s) = B
      /\ \A i, j \in 1..n : i < j => ~Below(key[s[j]], key[s[i]])
  BY <1>2, <1>4 DEF Orders
<1>6. /\ names = [i \in 1..n |-> s[i].person] /\ people = [i \in 1..n |-> list[i].person]
      /\ DOMAIN names = 1..n /\ DOMAIN people = 1..n
  BY <1>1, <1>5 DEF PersonsOf
<1>7. \A i \in 1..n : \E m \in 1..n : s[m] = AssigneeRow(k, list, i)
  <2> SUFFICES ASSUME NEW i \in 1..n
               PROVE  \E m \in 1..n : s[m] = AssigneeRow(k, list, i)
    OBVIOUS
  <2>1. AssigneeRow(k, list, i) \in B BY <1>1 DEF AssigneeRows
  <2>2. AssigneeRow(k, list, i) \in ToSet(s) BY <1>5, <2>1
  <2> QED BY <2>2, <1>5 DEF ToSet
<1>8. \A m \in 1..n : \E i \in 1..n : s[m] = AssigneeRow(k, list, i)
  <2> SUFFICES ASSUME NEW m \in 1..n
               PROVE  \E i \in 1..n : s[m] = AssigneeRow(k, list, i)
    OBVIOUS
  <2>1. s[m] \in B BY <1>5
  <2> QED BY <1>1, <2>1 DEF AssigneeRows
<1>9. \A i \in 1..n : AssigneeRow(k, list, i).person = list[i].person
  BY DEF AssigneeRow
<1>10. ToSet(names) = ToSet(people)
  <2>1. ASSUME NEW m \in 1..n PROVE \E i \in 1..n : names[m] = people[i]
    <3>1. PICK i \in 1..n : s[m] = AssigneeRow(k, list, i) BY <1>8
    <3>2. s[m].person = list[i].person BY <3>1, <1>9
    <3>3. names[m] = people[i] BY <3>2, <1>6
    <3> QED BY <3>3
  <2>2. ASSUME NEW i \in 1..n PROVE \E m \in 1..n : people[i] = names[m]
    <3>1. PICK m \in 1..n : s[m] = AssigneeRow(k, list, i) BY <1>7
    <3>2. s[m].person = list[i].person BY <3>1, <1>9
    <3>3. people[i] = names[m] BY <3>2, <1>6
    <3> QED BY <3>3
  <2>3. ToSet(names) = {names[m] : m \in 1..n} /\ ToSet(people) = {people[i] : i \in 1..n}
    BY <1>6 DEF ToSet
  <2>4. ASSUME NEW x \in ToSet(names) PROVE x \in ToSet(people)
    <3>1. PICK m \in 1..n : x = names[m] BY <2>3
    <3>2. PICK i \in 1..n : names[m] = people[i] BY <2>1
    <3> QED BY <2>3, <3>1, <3>2
  <2>5. ASSUME NEW x \in ToSet(people) PROVE x \in ToSet(names)
    <3>1. PICK i \in 1..n : x = people[i] BY <2>3
    <3>2. PICK m \in 1..n : people[i] = names[m] BY <2>2
    <3> QED BY <2>3, <3>1, <3>2
  <2> QED BY <2>4, <2>5
<1>11. ASSUME NEW i \in 1..n, NEW j \in 1..n,
              Given(list[i].rank, i - 1) < Given(list[j].rank, j - 1)
       PROVE  \E m \in 1..n : names[m] = people[i]
                              /\ people[j] \in ToSet(SubSeq(names, m + 1, n))
  <2>1. PICK m \in 1..n : s[m] = AssigneeRow(k, list, i) BY <1>7
  <2>2. PICK q \in 1..n : s[q] = AssigneeRow(k, list, j) BY <1>7
  <2>3. names[m] = people[i] /\ names[q] = people[j] BY <2>1, <2>2, <1>6, <1>9
  <2>4. key[s[m]] = <<s[m].rank, s[m].strict>> /\ key[s[q]] = <<s[q].rank, s[q].strict>>
    BY <1>3, <1>5
  <2>5. /\ s[m].rank = Given(list[i].rank, i - 1) /\ s[q].rank = Given(list[j].rank, j - 1)
        /\ s[m].rank \in Int /\ s[q].rank \in Int
    <3>1. \A z \in 1..n : AssigneeRow(k, list, z).rank = Given(list[z].rank, z - 1)
      BY DEF AssigneeRow
    <3>2. \A z \in 1..n : Given(list[z].rank, z - 1) \in Int BY <1>1 DEF Numbered
    <3> QED BY <2>1, <2>2, <3>1, <3>2
  <2>6. s[m].rank < s[q].rank BY <2>5, <1>11
  <2>7. Below(key[s[m]], key[s[q]])
    <3>1. ASSUME NEW x \in Int, NEW u \in Int, NEW y, NEW v, x < u
          PROVE  Below(<<x, y>>, <<u, v>>)
      <4>1. <<x, y>>[1] = x /\ <<u, v>>[1] = u /\ DOMAIN <<x, y>> = 1..2 OBVIOUS
      <4>2. 1 \in 1..2 /\ \A z \in 1..(1 - 1) : FALSE OBVIOUS
      <4> QED BY <3>1, <4>1, <4>2 DEF Below
    <3>2. Below(<<s[m].rank, s[m].strict>>, <<s[q].rank, s[q].strict>>)
      BY <2>5, <2>6, <3>1
    <3> QED BY <2>4, <3>2
  <2>8. m < q
    <3>1. q < m => ~Below(key[s[m]], key[s[q]]) BY <1>5
    <3>2. m # q BY <2>5, <2>6
    <3>3. m \in Int /\ q \in Int /\ ~(q < m) BY <2>7, <3>1
    <3> QED BY <3>2, <3>3
  <2> PICK rest : rest = SubSeq(names, m + 1, n) OBVIOUS
  <2>9. rest \in Seq(ToSet(names)) /\ Len(rest) = (IF m + 1 <= n THEN n - (m + 1) + 1 ELSE 0)
        /\ \A x \in 1..(n - (m + 1) + 1) : rest[x] = names[m + 1 + x - 1]
    <3>1. \A x \in 1..n : names[x] \in ToSet(names) BY <1>6 DEF ToSet
    <3>2. m + 1 \in Int /\ n \in Int /\ \A x \in (m + 1)..n : x \in 1..n BY <1>1
    <3>3. \A x \in (m + 1)..n : names[x] \in ToSet(names) BY <3>1, <3>2
    <3> QED BY <3>2, <3>3, SubSeqProperties
  <2>10. q - m \in 1..(n - (m + 1) + 1) /\ m + 1 + (q - m) - 1 = q BY <2>8, <1>1
  <2>11. rest[q - m] = names[q] BY <2>9, <2>10
  <2>12. q - m \in DOMAIN rest BY <2>8, <2>9, <1>1
  <2>13. people[j] \in ToSet(rest) BY <2>3, <2>11, <2>12 DEF ToSet
  <2> QED BY <2>3, <2>13
<1>12. Len(people) = n BY <1>1, <1>6
<1>13. \A i, j \in DOMAIN people :
           Given(list[i].rank, i - 1) < Given(list[j].rank, j - 1) =>
               \E m \in DOMAIN names :
                   names[m] = people[i] /\ people[j] \in ToSet(SubSeq(names, m + 1, n))
  BY <1>6, <1>11, Zenon
<1> QED BY <1>10, <1>12, <1>13

KeyOf(c, n, o) == <<n, c, o>>

LEMMA RowTables ==
    ASSUME NEW entries, NEW c, NEW n, NEW rows, rows = TemplateRows(entries, c, n)
    PROVE  /\ rows.templates = {c}
           /\ DOMAIN rows.tasks = {KeyOf(c, n, o) : o \in DOMAIN entries}
           /\ \A o \in DOMAIN entries :
                  rows.tasks[KeyOf(c, n, o)]
                      = [code |-> c, ord |-> o, pair |-> PairMode(entries[o])]
           /\ \A a : a \in rows.assignees <=>
                  \E o \in DOMAIN entries :
                      a \in AssigneeRows(KeyOf(c, n, o), entries[o].people)
           /\ \A d : d \in rows.deps <=>
                  \E o \in DOMAIN entries : \E e \in entries[o].after : d = DepRow(c, n, o, e)
<1>1. rows.templates = {c} BY DEF TemplateRows, Empty
<1>2. rows.tasks = [k \in {<<n, c, o>> : o \in DOMAIN entries} |->
                       [code |-> c, ord |-> k[3], pair |-> PairMode(entries[k[3]])]]
  BY DEF TemplateRows, Empty
<1>3. \A o : <<n, c, o>>[3] = o OBVIOUS
<1>4. DOMAIN rows.tasks = {KeyOf(c, n, o) : o \in DOMAIN entries} BY <1>2 DEF KeyOf
<1>5. ASSUME NEW o \in DOMAIN entries
      PROVE  rows.tasks[KeyOf(c, n, o)] = [code |-> c, ord |-> o, pair |-> PairMode(entries[o])]
  <2>1. PICK k : k = <<n, c, o>> OBVIOUS
  <2>2. k[3] = o /\ k \in {<<n, c, p>> : p \in DOMAIN entries} BY <2>1
  <2>3. rows.tasks[k] = [code |-> c, ord |-> k[3], pair |-> PairMode(entries[k[3]])]
    BY <1>2, <2>2
  <2> QED BY <2>1, <2>2, <2>3 DEF KeyOf
<1>6. rows.assignees = UNION {AssigneeRows(KeyOf(c, n, o), entries[o].people) : o \in DOMAIN entries}
  <2>1. rows.assignees = UNION {
            {[task |-> <<n, c, o>>, person |-> entries[o].people[i].person,
              rank |-> Given(entries[o].people[i].rank, i - 1),
              strict |-> entries[o].people[i].strict] : i \in DOMAIN entries[o].people} :
            o \in DOMAIN entries}
    BY DEF TemplateRows, Empty
  <2> QED BY <2>1 DEF AssigneeRows, AssigneeRow, KeyOf
<1>7. rows.deps = UNION {{DepRow(c, n, o, e) : e \in entries[o].after} : o \in DOMAIN entries}
  BY DEF TemplateRows, Empty, DepRow
<1> QED BY <1>1, <1>4, <1>5, <1>6, <1>7

DepsFor(entries, o) == {DepFields(d) : d \in entries[o].after}
Executors(k, list) == PersonsOf(Sorted(AssigneeRows(k, list), Ranks(AssigneeRows(k, list))))

(* What a load has made sure of: nobody is listed twice for a task, and the  *)
(* links are to tasks of the template.                                      *)
Consistent(entries) ==
    \A o \in DOMAIN entries :
        /\ NobodyTwice(entries[o].people)
        /\ \A d \in entries[o].after : d.on \in DOMAIN entries

(* What is read of a task, from all or none of its rows.                     *)
SpecIs(specs, entries, c, n, rows, A, D, o) ==
    /\ DOMAIN specs = DOMAIN entries
    /\ specs[o].pair = PairMode(entries[o])
    /\ A = {} => ToSet(specs[o].allowed) = {}
    /\ A = rows.assignees => specs[o].allowed = Executors(KeyOf(c, n, o), entries[o].people)
    /\ D = {} => specs[o].after = {}
    /\ D = rows.deps => specs[o].after = DepsFor(entries, o)

LEMMA SpecOf ==
    ASSUME NEW entries, NEW c, NEW n, NEW rows, rows = TemplateRows(entries, c, n),
           NEW A \in {rows.assignees, {}}, NEW D \in {rows.deps, {}},
           NEW o \in DOMAIN entries, Consistent(entries),
           NEW specs, specs = TemplateSpecs(rows.tasks, A, D)
    PROVE  SpecIs(specs, entries, c, n, rows, A, D, o)
<1> PICK tasks : tasks = rows.tasks OBVIOUS
<1> PICK K : K = KeyOf(c, n, o) OBVIOUS
<1> PICK ch : ch = CHOOSE k \in DOMAIN tasks : tasks[k].ord = o OBVIOUS
<1> PICK mine : mine = {a \in A : a.task = K} OBVIOUS
<1> PICK b : b = Sorted(mine, Ranks(mine)) OBVIOUS
<1>1. /\ DOMAIN tasks = {KeyOf(c, n, p) : p \in DOMAIN entries}
      /\ \A p \in DOMAIN entries :
             tasks[KeyOf(c, n, p)] = [code |-> c, ord |-> p, pair |-> PairMode(entries[p])]
      /\ \A a : a \in rows.assignees <=>
             \E p \in DOMAIN entries : a \in AssigneeRows(KeyOf(c, n, p), entries[p].people)
      /\ \A d : d \in rows.deps <=>
             \E p \in DOMAIN entries : \E e \in entries[p].after : d = DepRow(c, n, p, e)
  BY RowTables
<1>2. \A p, q : KeyOf(c, n, p) = KeyOf(c, n, q) => p = q BY DEF KeyOf
<1>3. ASSUME NEW p \in DOMAIN entries
      PROVE  /\ KeyOf(c, n, p) \in DOMAIN tasks /\ tasks[KeyOf(c, n, p)].ord = p
             /\ tasks[KeyOf(c, n, p)].pair = PairMode(entries[p])
  <2>1. PICK row : row = [code |-> c, ord |-> p, pair |-> PairMode(entries[p])] OBVIOUS
  <2>2. tasks[KeyOf(c, n, p)] = row BY <1>1, <2>1, Zenon
  <2>3. row.ord = p /\ row.pair = PairMode(entries[p]) BY <2>1
  <2>4. KeyOf(c, n, p) \in DOMAIN tasks BY <1>1
  <2> QED BY <2>2, <2>3, <2>4
<1>4. {tasks[k].ord : k \in DOMAIN tasks} = DOMAIN entries
  <2>1. ASSUME NEW k \in DOMAIN tasks PROVE tasks[k].ord \in DOMAIN entries
    <3>1. PICK p \in DOMAIN entries : k = KeyOf(c, n, p) BY <1>1
    <3> QED BY <1>3, <3>1
  <2>2. ASSUME NEW p \in DOMAIN entries PROVE p \in {tasks[k].ord : k \in DOMAIN tasks}
    <3>1. \E k \in DOMAIN tasks : p = tasks[k].ord BY <1>3
    <3> QED BY <3>1, Zenon
  <2>3. ASSUME NEW p \in {tasks[k].ord : k \in DOMAIN tasks} PROVE p \in DOMAIN entries
    <3>1. PICK k \in DOMAIN tasks : p = tasks[k].ord BY Zenon
    <3> QED BY <2>1, <3>1
  <2> QED BY <2>2, <2>3
<1>5. ch = K
  <2>1. \E k \in DOMAIN tasks : tasks[k].ord = o BY <1>3
  <2>2. ch \in DOMAIN tasks /\ tasks[ch].ord = o BY <2>1
  <2>3. PICK p \in DOMAIN entries : ch = KeyOf(c, n, p) BY <1>1, <2>2
  <2> QED BY <1>3, <2>2, <2>3
<1>6. DOMAIN specs = {tasks[k].ord : k \in DOMAIN tasks}
      /\ specs[o] = [pair    |-> tasks[ch].pair,
                     allowed |-> PersonsOf(Sorted({a \in A : a.task = ch},
                                                  Ranks({a \in A : a.task = ch}))),
                     after   |-> {[on |-> tasks[d.on].ord, link |-> d.link, lag |-> d.lag] :
                                     d \in {e \in D : e.task = ch /\ e.on \in DOMAIN tasks}}]
  <2> DEFINE key(p) == CHOOSE k \in DOMAIN tasks : tasks[k].ord = p
             with(k) == {a \in A : a.task = k}
             bound(k) == Sorted(with(k), [a \in with(k) |-> <<a.rank, a.strict>>])
             spec(k) == [pair    |-> tasks[k].pair,
                         allowed |-> [i \in DOMAIN bound(k) |-> bound(k)[i].person],
                         after   |-> {[on |-> tasks[d.on].ord, link |-> d.link,
                                       lag |-> d.lag] :
                                        d \in {e \in D : e.task = k /\ e.on \in DOMAIN tasks}}]
  <2>1. specs = [p \in {tasks[k].ord : k \in DOMAIN tasks} |-> spec(key(p))]
    BY DEF TemplateSpecs
  <2>2. spec(ch) = [pair    |-> tasks[ch].pair,
                    allowed |-> PersonsOf(Sorted({a \in A : a.task = ch},
                                                 Ranks({a \in A : a.task = ch}))),
                    after   |-> {[on |-> tasks[d.on].ord, link |-> d.link, lag |-> d.lag] :
                                    d \in {e \in D : e.task = ch /\ e.on \in DOMAIN tasks}}]
    BY DEF PersonsOf, Ranks
  <2>3. key(o) = ch OBVIOUS
  <2>4. specs[o] = spec(ch)
    <3> HIDE DEF spec, key
    <3> QED BY <1>4, <2>1, <2>3
  <2>5. DOMAIN specs = {tasks[k].ord : k \in DOMAIN tasks}
    <3> HIDE DEF spec, key
    <3> QED BY <2>1
  <2> QED BY <2>2, <2>4, <2>5
<1>7. /\ DOMAIN specs = DOMAIN entries
      /\ specs[o].pair = tasks[K].pair
      /\ specs[o].allowed = PersonsOf(b)
      /\ specs[o].after = {[on |-> tasks[d.on].ord, link |-> d.link, lag |-> d.lag] :
                              d \in {e \in D : e.task = K /\ e.on \in DOMAIN tasks}}
  <2>1. PICK spec : spec = [pair    |-> tasks[ch].pair, allowed |-> PersonsOf(b),
                     after   |-> {[on |-> tasks[d.on].ord, link |-> d.link, lag |-> d.lag] :
                                     d \in {e \in D : e.task = ch /\ e.on \in DOMAIN tasks}}]
    OBVIOUS
  <2>2. specs[o] = spec BY <1>5, <1>6, <2>1
  <2> QED BY <1>4, <1>5, <1>6, <2>1, <2>2
<1>8. specs[o].pair = PairMode(entries[o]) BY <1>3, <1>7
<1>9. A = {} => ToSet(specs[o].allowed) = {}
  <2> SUFFICES ASSUME A = {} PROVE ToSet(PersonsOf(b)) = {} BY <1>7
  <2>1. IsFiniteSet({}) /\ 2 \in Nat /\ mine = {} BY FS_EmptySet
  <2>2. Orders(b, {}, Ranks({})) BY <2>1, SortedIs
  <2> QED BY <2>2 DEF Orders, PersonsOf, ToSet
<1>10. ASSUME A = rows.assignees
       PROVE  specs[o].allowed = Executors(KeyOf(c, n, o), entries[o].people)
  <2>1. \A p, k : \A a \in AssigneeRows(k, entries[p].people) : a.task = k
    BY DEF AssigneeRows, AssigneeRow
  <2>2. mine = AssigneeRows(K, entries[o].people)
    <3>1. \A a \in AssigneeRows(K, entries[o].people) : a \in A /\ a.task = K
      BY <1>1, <1>10, <2>1
    <3>2. ASSUME NEW a \in A, a.task = K PROVE a \in AssigneeRows(K, entries[o].people)
      <4>1. PICK p \in DOMAIN entries : a \in AssigneeRows(KeyOf(c, n, p), entries[p].people)
        BY <1>1, <1>10, <3>2
      <4>2. KeyOf(c, n, p) = K BY <2>1, <3>2, <4>1
      <4>3. p = o BY <1>2, <4>2
      <4> QED BY <4>1, <4>3
    <3> QED BY <3>1, <3>2
  <2> QED BY <1>7, <2>2 DEF Executors
<1>11. D = {} => specs[o].after = {} BY <1>7
<1>12. ASSUME D = rows.deps PROVE specs[o].after = DepsFor(entries, o)
  <2>1. \A p, e : /\ DepRow(c, n, p, e).task = KeyOf(c, n, p)
                  /\ DepRow(c, n, p, e).on = KeyOf(c, n, e.on)
                  /\ DepRow(c, n, p, e).link = DepFields(e).link
                  /\ DepRow(c, n, p, e).lag = DepFields(e).lag
    BY DEF DepRow, KeyOf
  <2>2. {e \in D : e.task = K /\ e.on \in DOMAIN tasks} = {DepRow(c, n, o, e) : e \in entries[o].after}
    BY <1>1, <1>2, <1>3, <1>12, <2>1 DEF Consistent
  <2>3. \A e \in entries[o].after :
            [on |-> tasks[DepRow(c, n, o, e).on].ord, link |-> DepRow(c, n, o, e).link,
             lag |-> DepRow(c, n, o, e).lag] = DepFields(e)
    BY <1>3, <2>1 DEF DepFields, Consistent
  <2>4. specs[o].after = {[on |-> tasks[d.on].ord, link |-> d.link, lag |-> d.lag] :
                              d \in {DepRow(c, n, o, e) : e \in entries[o].after}}
    BY <1>7, <2>2
  <2>5. specs[o].after = {[on |-> tasks[DepRow(c, n, o, e).on].ord,
                           link |-> DepRow(c, n, o, e).link,
                           lag |-> DepRow(c, n, o, e).lag] : e \in entries[o].after}
    BY <2>4
  <2> QED BY <2>3, <2>5 DEF DepsFor
<1> QED BY <1>7, <1>8, <1>9, <1>10, <1>11, <1>12 DEF SpecIs

LEMMA RightlyRead ==
    ASSUME NEW entries, Consistent(entries), \A o \in DOMAIN entries : Numbered(entries[o].people),
           NEW c, NEW n, NEW rows, rows = TemplateRows(entries, c, n),
           NEW A \in {rows.assignees, {}}, NEW D \in {rows.deps, {}}, NEW during,
           during = 0 => A = rows.assignees /\ D = rows.deps,
           D # {} => A = rows.assignees
    PROVE  ReadFrom(entries, TemplateSpecs(rows.tasks, A, D), during)
<1> PICK specs : specs = TemplateSpecs(rows.tasks, A, D) OBVIOUS
<1> DEFINE people(o) == [i \in DOMAIN entries[o].people |-> entries[o].people[i].person]
           linked == \E o \in DOMAIN specs : specs[o].after # {}
<1>1. ASSUME NEW o \in DOMAIN entries
      PROVE  SpecIs(specs, entries, c, n, rows, A, D, o)
  <2> HIDE DEF people, linked
  <2> QED BY SpecOf
<1>2. DOMAIN specs = DOMAIN entries
  <2>1. DOMAIN specs = {rows.tasks[k].ord : k \in DOMAIN rows.tasks} BY DEF TemplateSpecs
  <2>2. CASE DOMAIN entries = {}
    <3>1. DOMAIN rows.tasks = {} BY <2>2, RowTables
    <3> QED BY <2>1, <2>2, <3>1
  <2>3. CASE DOMAIN entries # {} BY <2>3, <1>1 DEF SpecIs
  <2> QED BY <2>2, <2>3
<1>3. linked => A = rows.assignees
  <2> SUFFICES ASSUME NEW o \in DOMAIN specs, specs[o].after # {} PROVE D # {} OBVIOUS
  <2> QED BY <1>1, <1>2 DEF SpecIs
<1>4. ASSUME NEW o \in DOMAIN entries, A = rows.assignees
      PROVE  /\ ToSet(specs[o].allowed) = ToSet(people(o))
             /\ \A i, j \in DOMAIN people(o) :
                    Given(entries[o].people[i].rank, i - 1)
                          < Given(entries[o].people[j].rank, j - 1) =>
                        \E m \in DOMAIN specs[o].allowed :
                            /\ specs[o].allowed[m] = people(o)[i]
                            /\ people(o)[j] \in ToSet(SubSeq(
                                   specs[o].allowed, m + 1, Len(people(o))))
  <2> PICK list : list = entries[o].people OBVIOUS
  <2> PICK k : k = KeyOf(c, n, o) OBVIOUS
  <2> PICK B : B = AssigneeRows(k, list) OBVIOUS
  <2> PICK s : s = Sorted(B, Ranks(B)) OBVIOUS
  <2> PICK names : names = PersonsOf(s) OBVIOUS
  <2>1. specs[o].allowed = names BY <1>1, <1>4 DEF Executors, SpecIs
  <2>2. people(o) = PersonsOf(list) BY DEF PersonsOf
  <2>3. Numbered(list) /\ NobodyTwice(list) BY DEF Consistent
  <2> HIDE DEF people
  <2>4. /\ ToSet(names) = ToSet(people(o))
        /\ \A i, j \in DOMAIN people(o) :
               Given(list[i].rank, i - 1) < Given(list[j].rank, j - 1) =>
                   \E m \in DOMAIN names :
                       /\ names[m] = people(o)[i]
                       /\ people(o)[j] \in ToSet(SubSeq(names, m + 1, Len(people(o))))
    BY <2>2, <2>3, ListInOrder
  <2> QED BY <2>1, <2>4
<1>5. ASSUME NEW o \in DOMAIN entries
      PROVE  /\ specs[o].pair = PairMode(entries[o])
             /\ ToSet(specs[o].allowed) \in {ToSet(people(o)), {}}
             /\ specs[o].after \in {DepsFor(entries, o), {}}
             /\ during = 0 => specs[o].after = DepsFor(entries, o)
  <2>1. ToSet(specs[o].allowed) \in {ToSet(people(o)), {}}
    <3> HIDE DEF people
    <3> QED BY <1>1, <1>4 DEF SpecIs
  <2> QED BY <1>1, <2>1 DEF SpecIs
<1> HIDE DEF people, linked
<1>6. /\ DOMAIN specs = DOMAIN entries
      /\ \A o \in DOMAIN entries :
             /\ specs[o].pair = PairMode(entries[o])
             /\ ToSet(specs[o].allowed) \in {ToSet(people(o)), {}}
             /\ specs[o].after \in {DepsFor(entries, o), {}}
             /\ during = 0 \/ linked =>
                    /\ ToSet(specs[o].allowed) = ToSet(people(o))
                    /\ \A i, j \in DOMAIN people(o) :
                           Given(entries[o].people[i].rank, i - 1)
                                 < Given(entries[o].people[j].rank, j - 1) =>
                               \E m \in DOMAIN specs[o].allowed :
                                   /\ specs[o].allowed[m] = people(o)[i]
                                   /\ people(o)[j] \in ToSet(SubSeq(
                                          specs[o].allowed, m + 1, Len(people(o))))
             /\ during = 0 => specs[o].after = DepsFor(entries, o)
  BY <1>2, <1>3, <1>4, <1>5
<1>7. ReadFrom(entries, specs, during)
  <2> USE DEF people, linked
  <2> QED BY <1>6 DEF ReadFrom, DepsFor
<1> QED BY <1>7

-----------------------------------------------------------------------------
(* Tables with the templates of one file set                                 *)

AllCodes == ToSet(Codes)
RowsOf(files, c, n) == TemplateRows(files.templates[c], c, n)

(* The templates cs of a file set, as its load number n writes them.         *)
Filled(t, files, cs, n) ==
    /\ t.templates = cs
    /\ DOMAIN t.tasks = UNION {DOMAIN RowsOf(files, c, n).tasks : c \in cs}
    /\ \A c \in cs : \A k \in DOMAIN RowsOf(files, c, n).tasks :
           t.tasks[k] = RowsOf(files, c, n).tasks[k]
    /\ t.assignees = UNION {RowsOf(files, c, n).assignees : c \in cs}
    /\ t.deps = UNION {RowsOf(files, c, n).deps : c \in cs}

LEMMA KeysOfRows ==
    ASSUME NEW files, NEW c, NEW n, NEW rows, rows = RowsOf(files, c, n)
    PROVE  /\ rows.templates = {c}
           /\ \A k \in DOMAIN rows.tasks : k[1] = n /\ k[2] = c /\ rows.tasks[k].code = c
           /\ \A a \in rows.assignees : a.task \in DOMAIN rows.tasks
           /\ \A d \in rows.deps : d.task \in DOMAIN rows.tasks
<1> PICK entries : entries = files.templates[c] OBVIOUS
<1>1. rows = TemplateRows(entries, c, n) BY DEF RowsOf
<1>2. /\ rows.templates = {c}
      /\ DOMAIN rows.tasks = {KeyOf(c, n, o) : o \in DOMAIN entries}
      /\ \A o \in DOMAIN entries :
             rows.tasks[KeyOf(c, n, o)] = [code |-> c, ord |-> o, pair |-> PairMode(entries[o])]
      /\ \A a : a \in rows.assignees <=>
             \E o \in DOMAIN entries : a \in AssigneeRows(KeyOf(c, n, o), entries[o].people)
      /\ \A d : d \in rows.deps <=>
             \E o \in DOMAIN entries : \E e \in entries[o].after : d = DepRow(c, n, o, e)
  BY <1>1, RowTables
<1>3. ASSUME NEW k \in DOMAIN rows.tasks
      PROVE  k[1] = n /\ k[2] = c /\ rows.tasks[k].code = c
  <2>1. PICK o \in DOMAIN entries : k = KeyOf(c, n, o) BY <1>2
  <2>2. KeyOf(c, n, o)[1] = n /\ KeyOf(c, n, o)[2] = c BY DEF KeyOf
  <2>3. PICK row : row = [code |-> c, ord |-> o, pair |-> PairMode(entries[o])] OBVIOUS
  <2>4. rows.tasks[KeyOf(c, n, o)] = row BY <1>2, <2>3, Zenon
  <2> QED BY <2>1, <2>2, <2>3, <2>4
<1>4. ASSUME NEW a \in rows.assignees PROVE a.task \in DOMAIN rows.tasks
  <2>1. PICK o \in DOMAIN entries : a \in AssigneeRows(KeyOf(c, n, o), entries[o].people)
    BY <1>2
  <2>2. a.task = KeyOf(c, n, o) BY <2>1 DEF AssigneeRows, AssigneeRow
  <2> QED BY <1>2, <2>2
<1>5. ASSUME NEW d \in rows.deps PROVE d.task \in DOMAIN rows.tasks
  <2>1. PICK o \in DOMAIN entries : \E e \in entries[o].after : d = DepRow(c, n, o, e)
    BY <1>2
  <2>2. d.task = KeyOf(c, n, o) BY <2>1 DEF DepRow, KeyOf
  <2> QED BY <1>2, <2>2
<1> QED BY <1>2, <1>3, <1>4, <1>5

(* A template more.                                                          *)
LEMMA FilledMore ==
    ASSUME NEW t, NEW files, NEW cs, NEW n, Filled(t, files, cs, n), NEW c, NEW u,
           u = Together(t, RowsOf(files, c, n))
    PROVE  Filled(u, files, cs \cup {c}, n)
<1> PICK rows : rows = RowsOf(files, c, n) OBVIOUS
<1>1. /\ u.templates = t.templates \cup rows.templates
      /\ u.tasks = Over(t.tasks, rows.tasks)
      /\ u.assignees = t.assignees \cup rows.assignees /\ u.deps = t.deps \cup rows.deps
  BY DEF Together
<1>2. rows.templates = {c} BY KeysOfRows
<1>3. /\ DOMAIN u.tasks = DOMAIN t.tasks \cup DOMAIN rows.tasks
      /\ \A k \in DOMAIN t.tasks : u.tasks[k] = t.tasks[k]
      /\ \A k \in DOMAIN rows.tasks \ DOMAIN t.tasks : u.tasks[k] = rows.tasks[k]
  <2>1. PICK f : f = t.tasks OBVIOUS
  <2>2. PICK g : g = rows.tasks OBVIOUS
  <2>3. u.tasks = Over(f, g) BY <1>1, <2>1, <2>2
  <2>4. /\ DOMAIN Over(f, g) = DOMAIN f \cup DOMAIN g
        /\ \A k \in DOMAIN f : Over(f, g)[k] = f[k]
        /\ \A k \in DOMAIN g \ DOMAIN f : Over(f, g)[k] = g[k]
    BY DEF Over
  <2> QED BY <2>1, <2>2, <2>3, <2>4
<1>4. DOMAIN u.tasks = UNION {DOMAIN RowsOf(files, d, n).tasks : d \in cs \cup {c}}
  BY <1>3 DEF Filled
<1>5. ASSUME NEW d \in cs \cup {c}, NEW k \in DOMAIN RowsOf(files, d, n).tasks
      PROVE  u.tasks[k] = RowsOf(files, d, n).tasks[k]
  <2>1. CASE d \in cs
    <3>1. k \in DOMAIN t.tasks BY <2>1, <1>5 DEF Filled
    <3> QED BY <2>1, <3>1, <1>3, <1>5 DEF Filled
  <2>2. CASE d \notin cs
    <3>1. d = c BY <2>2
    <3>2. k \notin DOMAIN t.tasks
      <4> SUFFICES ASSUME NEW e \in cs, k \in DOMAIN RowsOf(files, e, n).tasks PROVE FALSE
        BY DEF Filled
      <4>1. k[2] = e BY KeysOfRows
      <4>2. k[2] = d BY <1>5, KeysOfRows
      <4> QED BY <2>2, <4>1, <4>2
    <3> QED BY <3>1, <3>2, <1>3, <1>5
  <2> QED BY <2>1, <2>2
<1>6. u.assignees = UNION {RowsOf(files, d, n).assignees : d \in cs \cup {c}}
  BY <1>1 DEF Filled
<1>7. u.deps = UNION {RowsOf(files, d, n).deps : d \in cs \cup {c}} BY <1>1 DEF Filled
<1> QED BY <1>1, <1>2, <1>4, <1>5, <1>6, <1>7 DEF Filled

(* What is read of a template from such tables.                              *)
LEMMA FilledReads ==
    ASSUME NEW files, NEW n, Filled(db, files, AllCodes, n), NEW c \in AllCodes,
           NEW rows, rows = RowsOf(files, c, n)
    PROVE  /\ Restrict(db.tasks, TaskKeys(c)) = rows.tasks
           /\ AssigneesOf(DOMAIN rows.tasks) = rows.assignees
           /\ DepsOf(DOMAIN rows.tasks) = rows.deps
<1>1. ASSUME NEW k \in DOMAIN db.tasks
      PROVE  k \in DOMAIN rows.tasks <=> db.tasks[k].code = c
  <2>1. PICK d \in AllCodes : k \in DOMAIN RowsOf(files, d, n).tasks BY <1>1 DEF Filled
  <2>2. k[2] = d /\ RowsOf(files, d, n).tasks[k].code = d BY <2>1, KeysOfRows
  <2>3. db.tasks[k].code = d BY <2>1, <2>2 DEF Filled
  <2>4. k \in DOMAIN rows.tasks => k[2] = c BY KeysOfRows
  <2> QED BY <2>1, <2>2, <2>3, <2>4
<1>2. DOMAIN rows.tasks \subseteq DOMAIN db.tasks BY DEF Filled
<1>3. TaskKeys(c) = DOMAIN rows.tasks BY <1>1, <1>2 DEF TaskKeys
<1>4. Restrict(db.tasks, TaskKeys(c)) = rows.tasks
  <2>1. rows.tasks = [k \in DOMAIN rows.tasks |-> rows.tasks[k]]
    BY DEF RowsOf, TemplateRows, Empty
  <2>2. \A k \in DOMAIN rows.tasks : db.tasks[k] = rows.tasks[k] BY DEF Filled
  <2> QED BY <1>3, <2>1, <2>2 DEF Restrict
<1>5. ASSUME NEW d \in AllCodes, NEW k \in DOMAIN RowsOf(files, d, n).tasks,
             k \in DOMAIN rows.tasks
      PROVE  d = c
  <2>1. k[2] = d BY <1>5, KeysOfRows
  <2>2. k[2] = c BY <1>5, KeysOfRows
  <2> QED BY <2>1, <2>2
<1>6. AssigneesOf(DOMAIN rows.tasks) = rows.assignees
  <2>1. ASSUME NEW a \in db.assignees, a.task \in DOMAIN rows.tasks PROVE a \in rows.assignees
    <3>1. PICK d \in AllCodes : a \in RowsOf(files, d, n).assignees BY <2>1 DEF Filled
    <3>2. a.task \in DOMAIN RowsOf(files, d, n).tasks BY <3>1, KeysOfRows
    <3> QED BY <1>5, <2>1, <3>1, <3>2
  <2>2. ASSUME NEW a \in rows.assignees PROVE a \in db.assignees /\ a.task \in DOMAIN rows.tasks
    <3>1. a \in db.assignees BY <2>2 DEF Filled
    <3> QED BY <2>2, <3>1, KeysOfRows
  <2> QED BY <2>1, <2>2 DEF AssigneesOf
<1>7. DepsOf(DOMAIN rows.tasks) = rows.deps
  <2>1. ASSUME NEW a \in db.deps, a.task \in DOMAIN rows.tasks PROVE a \in rows.deps
    <3>1. PICK d \in AllCodes : a \in RowsOf(files, d, n).deps BY <2>1 DEF Filled
    <3>2. a.task \in DOMAIN RowsOf(files, d, n).tasks BY <3>1, KeysOfRows
    <3> QED BY <1>5, <2>1, <3>1, <3>2
  <2>2. ASSUME NEW a \in rows.deps PROVE a \in db.deps /\ a.task \in DOMAIN rows.tasks
    <3>1. a \in db.deps BY <2>2 DEF Filled
    <3> QED BY <2>2, <3>1, KeysOfRows
  <2> QED BY <2>1, <2>2 DEF DepsOf
<1> QED BY <1>4, <1>6, <1>7

-----------------------------------------------------------------------------
(* The load that runs, the tables, and what is being read of them            *)

(* The number of the last load that has ended.                               *)
Ended == IF seed.at = "none" THEN seed.n ELSE seed.n - 1

AllConsistent(files, cs) == \A c \in cs : Consistent(files.templates[c])

(* A load has added some templates of its files, and has deleted the tasks    *)
(* of the same templates.                                                    *)
LoadFills ==
    /\ seed.n > 0 /\ seed.files \in Files /\ seed.codes \in Seq(AllCodes)
    /\ seed.at = "commit" => seed.codes = <<>>
    /\ seed.add.templates \cup ToSet(seed.codes) = AllCodes
    /\ Filled(seed.add, seed.files, seed.add.templates, seed.n)
    /\ AllConsistent(seed.files, seed.add.templates)
    /\ \A k \in DOMAIN db.tasks : db.tasks[k].code \in seed.add.templates => k \in seed.gone

LastFilled(n) == Filled(db, loaded[Len(loaded)], AllCodes, n)

(* The tables hold the templates of the last load that committed.            *)
TablesFilled ==
    /\ seed.n \in Nat /\ loaded \in Seq(Files)
    /\ \A i \in DOMAIN loaded : AllConsistent(loaded[i], AllCodes)
    /\ loaded = <<>> => db.templates = {} /\ DOMAIN db.tasks = {}
    /\ loaded # <<>> => \E n \in 0..Ended : LastFilled(n)
    /\ seed.at # "none" => LoadFills

LEMMA FirstTables == Init => TablesFilled
<1> SUFFICES ASSUME Init PROVE TablesFilled OBVIOUS
<1>1. /\ seed.at = "none" /\ seed.n = 0 /\ loaded = <<>>
      /\ db.templates = {} /\ db.tasks = <<>>
  BY DEF Init, SeedInit, NoLoad, Empty
<1>2. DOMAIN db.tasks = {} BY <1>1, NobodyListed
<1>3. <<>> \in Seq(Files) /\ DOMAIN loaded = {} BY <1>1
<1> QED BY <1>1, <1>2, <1>3 DEF TablesFilled

(* Filled speaks of four of the tables.                                      *)
SameTemplates(t, u) ==
    /\ t.templates = u.templates /\ t.tasks = u.tasks
    /\ t.assignees = u.assignees /\ t.deps = u.deps

LEMMA FilledSame ==
    ASSUME NEW t, NEW u, SameTemplates(t, u), NEW files, NEW cs, NEW n, Filled(t, files, cs, n)
    PROVE  Filled(u, files, cs, n)
BY DEF SameTemplates, Filled

(* A step that leaves the tables of templates and what has committed.        *)
LEMMA TablesStay ==
    ASSUME TablesFilled, loaded' = loaded, SameTemplates(db, db'), seed'.n \in Nat,
           Ended \in Int, Ended' \in Int, Ended <= Ended', seed'.at # "none" => LoadFills'
    PROVE  TablesFilled'
<1>1. \A n : LastFilled(n) => LastFilled(n)' BY FilledSame DEF LastFilled
<1>2. \A n \in 0..Ended : n \in 0..Ended' OBVIOUS
<1> QED BY <1>1, <1>2 DEF TablesFilled, SameTemplates

LEMMA TeamFills ==
    ASSUME TablesFilled, NEW files \in Files, LoadTeam(files)
    PROVE  TablesFilled'
<1> PICK new : new = DOMAIN files.team \ DOMAIN db.people OBVIOUS
<1> PICK row : row = [p \in new |-> [label |-> files.team[p], tg |-> FALSE]] OBVIOUS
<1> PICK add : add = [Empty EXCEPT !.people = row] OBVIOUS
<1>1. /\ seed.at = "none" /\ db' = db /\ loaded' = loaded
      /\ seed' = [at |-> "templates", n |-> seed.n + 1, files |-> files, codes |-> Codes,
                   map |-> [p \in DOMAIN db.people \cup new |->
                               IF p \in new THEN files.team[p] ELSE db.people[p].label],
                   gone |-> {}, add |-> add]
  BY DEF LoadTeam
<1>2. /\ seed'.at = "templates" /\ seed'.n = seed.n + 1 /\ seed'.files = files
      /\ seed'.codes = Codes /\ seed'.gone = {} /\ seed'.add = add
  BY <1>1
<1>3. /\ add.templates = {} /\ add.tasks = <<>> /\ add.assignees = {} /\ add.deps = {}
  BY DEF Empty
<1>4. Filled(add, files, {}, seed.n + 1) BY <1>3, NobodyListed DEF Filled
<1>5. seed.n \in Nat BY DEF TablesFilled
<1>6. AllConsistent(files, {}) BY DEF AllConsistent
<1>7. Codes \in Seq(AllCodes) BY SeedAssumption DEF AllCodes
<1>8. LoadFills'
  <2>1. AllCodes' = AllCodes /\ add.templates \cup ToSet(Codes) = AllCodes
    BY <1>3 DEF AllCodes
  <2>2. seed'.n > 0 BY <1>2, <1>5
  <2>3. \A k \in DOMAIN db.tasks : db.tasks[k].code \notin add.templates BY <1>3
  <2>4. AllConsistent(files, add.templates) /\ Filled(add, files, add.templates, seed.n + 1)
    BY <1>3, <1>4, <1>6
  <2> QED BY <1>1, <1>2, <1>7, <2>1, <2>2, <2>3, <2>4 DEF LoadFills
<1>9. Ended = seed.n /\ Ended' = seed.n BY <1>1, <1>2, <1>5 DEF Ended
<1> QED BY <1>1, <1>2, <1>5, <1>8, <1>9, TablesStay DEF SameTemplates

LEMMA TemplateFills ==
    ASSUME TablesFilled, LoadOK, LoadTemplate
    PROVE  TablesFilled'
<1> PICK code : code = Head(seed.codes) OBVIOUS
<1> PICK entries : entries = seed.files.templates[code] OBVIOUS
<1> PICK rows : rows = RowsOf(seed.files, code, seed.n) OBVIOUS
<1> PICK add : add = Together(seed.add, rows) OBVIOUS
<1> PICK cs : cs = seed.add.templates OBVIOUS
<1>1. /\ seed.at = "templates" /\ seed.codes # <<>> /\ Loadable(entries)
      /\ seed' = [seed EXCEPT !.codes = Tail(@), !.gone = @ \cup TaskKeys(code), !.add = add]
      /\ db' = db /\ loaded' = loaded
  BY DEF LoadTemplate, RowsOf
<1>2. /\ seed'.at = seed.at /\ seed'.n = seed.n /\ seed'.files = seed.files
      /\ seed'.codes = Tail(seed.codes) /\ seed'.add = add
      /\ seed'.gone = seed.gone \cup TaskKeys(code)
  BY <1>1 DEF LoadOK
<1>3. LoadFills /\ seed.n \in Nat BY <1>1 DEF TablesFilled
<1>4. Filled(add, seed.files, cs \cup {code}, seed.n) BY <1>3, FilledMore DEF LoadFills
<1>5. add.templates = cs \cup {code} BY <1>4 DEF Filled
<1>6. Tail(seed.codes) \in Seq(AllCodes) /\ ToSet(seed.codes) = {code} \cup ToSet(Tail(seed.codes))
  <2>1. seed.codes \in Seq(AllCodes) BY <1>3 DEF LoadFills
  <2> PICK s : s = seed.codes OBVIOUS
  <2> PICK t : t = Tail(s) OBVIOUS
  <2>2. /\ s \in Seq(AllCodes) /\ s # <<>> BY <1>1, <2>1
  <2>3. /\ t \in Seq(AllCodes) /\ Len(t) = Len(s) - 1
        /\ \A i \in 1..Len(t) : t[i] = s[i + 1]
    BY <2>2, HeadTailProperties
  <2>4. /\ DOMAIN s = 1..Len(s) /\ DOMAIN t = 1..Len(t) /\ Len(s) \in Nat /\ Len(t) \in Nat
    BY <2>2, <2>3
  <2>5. s[1] = code BY <2>2
  <2>6. \A i \in 1..Len(s) : i = 1 \/ (i - 1 \in 1..Len(t) /\ t[i - 1] = s[i])
    BY <2>3, <2>4
  <2>7. 1 \in 1..Len(s) /\ \A i \in 1..Len(t) : i + 1 \in 1..Len(s) BY <2>3, <2>4
  <2>8. ASSUME NEW x \in ToSet(s) PROVE x \in {code} \cup ToSet(t)
    <3>1. PICK i \in 1..Len(s) : x = s[i] BY <2>4, <2>8 DEF ToSet
    <3>2. CASE i = 1 BY <3>1, <3>2, <2>5
    <3>3. CASE i - 1 \in 1..Len(t) /\ t[i - 1] = s[i] BY <3>1, <3>3, <2>4 DEF ToSet
    <3> QED BY <2>6, <3>2, <3>3
  <2>9. ASSUME NEW x \in {code} \cup ToSet(t) PROVE x \in ToSet(s)
    BY <2>3, <2>4, <2>5, <2>7, <2>9 DEF ToSet
  <2> QED BY <2>3, <2>8, <2>9
<1>7. AllConsistent(seed.files, cs \cup {code})
  <2>1. Consistent(entries) BY <1>1 DEF Loadable, Consistent, NobodyTwice
  <2> QED BY <1>3, <2>1 DEF LoadFills, AllConsistent
<1>8. \A k \in DOMAIN db.tasks : db.tasks[k].code \in cs \cup {code} => k \in seed'.gone
  BY <1>2, <1>3 DEF LoadFills, TaskKeys
<1>9. LoadFills'
  <2>1. add.templates \cup ToSet(Tail(seed.codes)) = AllCodes
    BY <1>3, <1>5, <1>6 DEF LoadFills
  <2> QED BY <1>1, <1>2, <1>3, <1>4, <1>5, <1>6, <1>7, <1>8, <2>1 DEF LoadFills, AllCodes
<1>10. Ended' = Ended /\ Ended \in Int BY <1>2, <1>3 DEF Ended
<1> QED BY <1>1, <1>2, <1>3, <1>9, <1>10, TablesStay DEF SameTemplates

LEMMA CapabilityFills ==
    ASSUME TablesFilled, LoadOK, LoadCapability
    PROVE  TablesFilled'
<1> PICK add : add = [seed.add EXCEPT !.roleSkills = RoleSkillsOf(seed.files) \ db.roleSkills,
                           !.personRoles = PersonRolesOf(seed.files) \ db.personRoles]
  OBVIOUS
<1>1. /\ seed.at = "templates" /\ seed.codes = <<>> /\ db' = db /\ loaded' = loaded
      /\ seed' = [seed EXCEPT !.at = "commit",
                    !.add.roleSkills = RoleSkillsOf(seed.files) \ db.roleSkills,
                    !.add.personRoles = PersonRolesOf(seed.files) \ db.personRoles]
  BY DEF LoadCapability
<1>2. /\ seed'.at = "commit" /\ seed'.n = seed.n /\ seed'.files = seed.files
      /\ seed'.codes = seed.codes /\ seed'.gone = seed.gone /\ seed'.add = add
  BY <1>1 DEF LoadOK
<1>3. LoadFills /\ seed.n \in Nat BY <1>1 DEF TablesFilled
<1>4. SameTemplates(seed.add, add) BY DEF SameTemplates, LoadOK, RowsOK, Columns
<1>5. Filled(add, seed.files, seed.add.templates, seed.n)
  BY <1>3, <1>4, FilledSame DEF LoadFills
<1>6. add.templates = seed.add.templates BY <1>4 DEF SameTemplates
<1>7. LoadFills'
  BY <1>1, <1>2, <1>3, <1>5, <1>6 DEF LoadFills
<1>8. Ended' = Ended /\ Ended \in Int BY <1>1, <1>2, <1>3 DEF Ended
<1> QED BY <1>1, <1>2, <1>3, <1>7, <1>8, TablesStay DEF SameTemplates

(* What a load commits are its own templates and nothing else.               *)
LEMMA CommitFills ==
    ASSUME TablesFilled, SeedInv, LoadOK, Commit
    PROVE  /\ TablesFilled' /\ Ended' = seed.n /\ Ended = seed.n - 1
           /\ loaded' = Append(loaded, seed.files) /\ Filled(db', seed.files, AllCodes, seed.n)
<1> PICK t : t = Kept OBVIOUS
<1> PICK add : add = seed.add OBVIOUS
<1>1. /\ seed.at = "commit" /\ db' = Together(t, add) /\ loaded' = Append(loaded, seed.files)
      /\ seed' = NoLoad(seed.n)
  BY DEF Commit
<1>2. seed'.at = "none" /\ seed'.n = seed.n BY <1>1 DEF NoLoad
<1>3. LoadFills /\ seed.n \in Nat /\ loaded \in Seq(Files) BY <1>1 DEF TablesFilled
<1>4. /\ add.templates = AllCodes /\ Filled(add, seed.files, AllCodes, seed.n)
      /\ AllConsistent(seed.files, AllCodes)
      /\ \A k \in DOMAIN db.tasks : db.tasks[k].code \in AllCodes => k \in seed.gone
  <2>1. ToSet(seed.codes) = {} BY <1>1, <1>3 DEF LoadFills, ToSet
  <2> QED BY <1>3, <2>1 DEF LoadFills
<1>5. db.templates \subseteq AllCodes /\ \A k \in DOMAIN db.tasks : k \in seed.gone
  <2>1. CASE loaded = <<>> BY <2>1 DEF TablesFilled
  <2>2. CASE loaded # <<>>
    <3>1. PICK n \in 0..Ended : LastFilled(n) BY <2>2 DEF TablesFilled
    <3> PICK files : files = loaded[Len(loaded)] OBVIOUS
    <3>2. Filled(db, files, AllCodes, n) BY <3>1 DEF LastFilled
    <3>3. ASSUME NEW k \in DOMAIN db.tasks PROVE db.tasks[k].code \in AllCodes
      <4>1. PICK c \in AllCodes : k \in DOMAIN RowsOf(files, c, n).tasks
        BY <3>2 DEF Filled
      <4>2. db.tasks[k] = RowsOf(files, c, n).tasks[k] BY <3>2, <4>1 DEF Filled
      <4> QED BY <4>1, <4>2, KeysOfRows
    <3> QED BY <1>4, <3>2, <3>3 DEF Filled
  <2> QED BY <2>1, <2>2
<1>6. /\ t.templates = db.templates /\ t.tasks = Restrict(db.tasks, DOMAIN db.tasks \ seed.gone)
      /\ t.assignees = {a \in db.assignees : a.task \notin seed.gone}
      /\ t.deps = {d \in db.deps : d.task \notin seed.gone}
  BY DEF Kept, SeedInv, RowsOK, Columns
<1>7. DOMAIN t.tasks = {} /\ t.assignees = {} /\ t.deps = {}
  BY <1>5, <1>6 DEF Restrict, SeedInv, RowsOK
<1>8. /\ db'.templates = AllCodes
      /\ DOMAIN db'.tasks = DOMAIN add.tasks
      /\ \A k \in DOMAIN add.tasks : db'.tasks[k] = add.tasks[k]
      /\ db'.assignees = add.assignees /\ db'.deps = add.deps
  <2>1. /\ db'.templates = t.templates \cup add.templates
        /\ db'.tasks = Over(t.tasks, add.tasks)
        /\ db'.assignees = t.assignees \cup add.assignees
        /\ db'.deps = t.deps \cup add.deps
    BY <1>1 DEF Together
  <2>2. /\ DOMAIN Over(t.tasks, add.tasks) = DOMAIN add.tasks
        /\ \A k \in DOMAIN add.tasks : Over(t.tasks, add.tasks)[k] = add.tasks[k]
    BY <1>7 DEF Over
  <2>3. t.templates \cup add.templates = AllCodes BY <1>4, <1>5, <1>6
  <2>4. /\ t.assignees \cup add.assignees = add.assignees
        /\ t.deps \cup add.deps = add.deps
    BY <1>7
  <2> QED BY <2>1, <2>2, <2>3, <2>4
<1>9. Filled(db', seed.files, AllCodes, seed.n)
  <2>1. \A c \in AllCodes : \A k \in DOMAIN RowsOf(seed.files, c, seed.n).tasks :
            k \in DOMAIN add.tasks
    BY <1>4 DEF Filled
  <2> QED BY <1>4, <1>8, <2>1 DEF Filled
<1>10. /\ loaded' \in Seq(Files) /\ Len(loaded') = Len(loaded) + 1 /\ Len(loaded) \in Nat
       /\ \A i \in DOMAIN loaded : loaded'[i] = loaded[i]
       /\ loaded'[Len(loaded')] = seed.files /\ loaded' # <<>>
       /\ DOMAIN loaded' = 1..Len(loaded')
       /\ DOMAIN loaded = 1..Len(loaded)
  BY <1>1, <1>3 DEF LoadFills
<1>11. Ended' = seed.n /\ Ended = seed.n - 1 BY <1>1, <1>2 DEF Ended
<1>15. AllCodes' = AllCodes BY DEF AllCodes
<1> PICK n : n = seed.n OBVIOUS
<1>12. LastFilled(n)' BY <1>9, <1>10, <1>15 DEF LastFilled
<1>13. \A i \in DOMAIN loaded' : AllConsistent(loaded'[i], AllCodes)
  <2> SUFFICES ASSUME NEW i \in DOMAIN loaded' PROVE AllConsistent(loaded'[i], AllCodes)
    OBVIOUS
  <2>1. CASE i = Len(loaded') BY <2>1, <1>4, <1>10
  <2>2. CASE i # Len(loaded')
    <3>1. i \in DOMAIN loaded BY <2>2, <1>10
    <3> QED BY <3>1, <1>10 DEF TablesFilled
  <2> QED BY <2>1, <2>2
<1>14. TablesFilled'
  <2>1. n \in 0..Ended' BY <1>3, <1>11
  <2>2. \E m \in 0..Ended' : LastFilled(m)' BY <1>12, <2>1
  <2> QED BY <1>2, <1>3, <1>10, <1>13, <1>15, <2>2 DEF TablesFilled
<1> QED BY <1>1, <1>9, <1>11, <1>14

LEMMA ByHandFills ==
    ASSUME TablesFilled, SeedInv, NEW p, NEW role,
           LinkTelegram(p) \/ Relabel(p, role) \/ GrantRole(p, role)
    PROVE  TablesFilled' /\ SameTemplates(db, db')
<1>1. seed' = seed /\ loaded' = loaded BY DEF LinkTelegram, Relabel, GrantRole
<1>2. SameTemplates(db, db')
  BY DEF LinkTelegram, Relabel, GrantRole, SameTemplates, SeedInv, RowsOK, Columns
<1>3. seed.n \in Nat /\ (seed.at # "none" => LoadFills) BY DEF TablesFilled
<1>4. LoadFills => LoadFills' BY <1>1, <1>2 DEF LoadFills, SameTemplates
<1>5. Ended' = Ended /\ Ended \in Int BY <1>1, <1>3 DEF Ended
<1> QED BY <1>1, <1>2, <1>3, <1>4, <1>5, TablesStay

LEMMA RollbackFills ==
    ASSUME TablesFilled, Rollback
    PROVE  TablesFilled'
<1>1. /\ seed'.at = "none" /\ seed'.n = seed.n /\ db' = db /\ loaded' = loaded
      /\ seed.at # "none"
  BY DEF Rollback, NoLoad
<1>2. seed.n \in Nat BY DEF TablesFilled
<1>3. Ended' = seed.n /\ Ended = seed.n - 1 BY <1>1 DEF Ended
<1> QED BY <1>1, <1>2, <1>3, TablesStay DEF SameTemplates

-----------------------------------------------------------------------------
(* What is being read of the tables                                          *)

ReadingAt == {"tasks", "assignees", "deps", "read"}

(* The rows of a task can be read in full, or they are gone.                 *)
IsWhole(rows, then) ==
    /\ then = Len(loaded)
    /\ AssigneesOf(DOMAIN rows.tasks) = rows.assignees /\ DepsOf(DOMAIN rows.tasks) = rows.deps
IsGone(rows, then) ==
    /\ then < Len(loaded)
    /\ AssigneesOf(DOMAIN rows.tasks) = {} /\ DepsOf(DOMAIN rows.tasks) = {}

Holds(r, m) ==
    LET rows == RowsOf(loaded[r.then], r.code, m)
    IN  /\ r.rows = rows.tasks
        /\ IsWhole(rows, r.then) \/ IsGone(rows, r.then)
        /\ r.at = "deps" =>
               \/ r.assignees = rows.assignees
               \/ r.assignees = {} /\ r.then < Len(loaded)

(* The tasks that were read are those of one load, that has ended.           *)
Reading(h) ==
    LET r == run[h]
    IN  /\ r.at \in ReadingAt => "code" \in DOMAIN r /\ r.code \in AllCodes /\ loaded # <<>>
        /\ r.at \in {"assignees", "deps", "read"} => "then" \in DOMAIN r /\ r.then \in DOMAIN loaded
        /\ r.at \in {"assignees", "deps"} =>
               "rows" \in DOMAIN r /\ \E m \in 0..Ended : Holds(r, m)
        /\ r.at = "read" => ReadFrom(loaded[r.then].templates[r.code], r.specs, r.during)

LEMMA ReadingStays ==
    ASSUME NEW h, Reading(h), run'[h] = run[h], loaded' = loaded, SameTemplates(db, db'),
           Ended \in Int, Ended' \in Int, Ended <= Ended'
    PROVE  Reading(h)'
<1>1. \A keys : AssigneesOf(keys)' = AssigneesOf(keys) /\ DepsOf(keys)' = DepsOf(keys)
  BY DEF AssigneesOf, DepsOf, SameTemplates
<1>2. \A rows, then : IsWhole(rows, then)' = IsWhole(rows, then)
                      /\ IsGone(rows, then)' = IsGone(rows, then)
  BY <1>1 DEF IsWhole, IsGone
<1> PICK r : r = run[h] OBVIOUS
<1>3. \A m : Holds(r, m) => Holds(r, m)' BY <1>2 DEF Holds
<1>4. \A m \in 0..Ended : m \in 0..Ended' OBVIOUS
<1>5. AllCodes' = AllCodes BY DEF AllCodes
<1>6. (\E m \in 0..Ended : Holds(r, m)) => \E m \in 0..Ended' : Holds(r, m)' BY <1>3, <1>4
<1> QED BY <1>5, <1>6 DEF Reading

LEMMA ReadingCommits ==
    ASSUME NEW h, Reading(h), run'[h] = run[h], TablesFilled, SeedInv, LoadOK, Commit
    PROVE  Reading(h)'
<1> PICK r : r = run[h] OBVIOUS
<1>1. /\ TablesFilled' /\ Ended' = seed.n /\ Ended = seed.n - 1
      /\ loaded' = Append(loaded, seed.files) /\ Filled(db', seed.files, AllCodes, seed.n)
  BY CommitFills
<1>2. /\ Len(loaded') = Len(loaded) + 1 /\ Len(loaded) \in Nat /\ loaded' # <<>>
      /\ DOMAIN loaded = 1..Len(loaded) /\ DOMAIN loaded' = 1..(Len(loaded) + 1)
      /\ \A i \in DOMAIN loaded : loaded'[i] = loaded[i]
      /\ seed.n \in Nat
  <2>1. seed.n \in Nat /\ seed.files \in Files /\ loaded \in Seq(Files)
    BY DEF TablesFilled, Commit, LoadFills
  <2> QED BY <1>1, <2>1
<1>3. ASSUME NEW m \in 0..Ended, Holds(r, m), r.then \in DOMAIN loaded
      PROVE  m \in 0..Ended' /\ Holds(r, m)'
  <2> PICK rows : rows = RowsOf(loaded[r.then], r.code, m) OBVIOUS
  <2>1. m # seed.n /\ m \in 0..Ended' BY <1>1, <1>2
  <2>2. AssigneesOf(DOMAIN rows.tasks)' = {} /\ DepsOf(DOMAIN rows.tasks)' = {}
    <3>1. ASSUME NEW d, NEW k \in DOMAIN RowsOf(seed.files, d, seed.n).tasks
          PROVE  k \notin DOMAIN rows.tasks
      <4>1. k[1] = seed.n BY <3>1, KeysOfRows
      <4>2. k \in DOMAIN rows.tasks => k[1] = m BY KeysOfRows
      <4> QED BY <2>1, <4>1, <4>2
    <3>2. ASSUME NEW a \in db'.assignees PROVE a.task \notin DOMAIN rows.tasks
      <4>1. PICK d \in AllCodes : a \in RowsOf(seed.files, d, seed.n).assignees
        BY <1>1, <3>2 DEF Filled
      <4>2. a.task \in DOMAIN RowsOf(seed.files, d, seed.n).tasks BY <4>1, KeysOfRows
      <4> QED BY <3>1, <4>2
    <3>3. ASSUME NEW a \in db'.deps PROVE a.task \notin DOMAIN rows.tasks
      <4>1. PICK d \in AllCodes : a \in RowsOf(seed.files, d, seed.n).deps
        BY <1>1, <3>3 DEF Filled
      <4>2. a.task \in DOMAIN RowsOf(seed.files, d, seed.n).tasks BY <4>1, KeysOfRows
      <4> QED BY <3>1, <4>2
    <3> QED BY <3>2, <3>3 DEF AssigneesOf, DepsOf
  <2>3. r.then < Len(loaded') /\ loaded'[r.then] = loaded[r.then] BY <1>2, <1>3
  <2>4. IsGone(rows, r.then)' BY <2>2, <2>3 DEF IsGone
  <2>5. rows = RowsOf(loaded'[r.then], r.code, m) BY <2>3
  <2> QED BY <1>3, <2>1, <2>3, <2>4, <2>5 DEF Holds
<1>4. AllCodes' = AllCodes BY DEF AllCodes
<1>5. r.then \in DOMAIN loaded /\ (\E m \in 0..Ended : Holds(r, m)) =>
          \E m \in 0..Ended' : Holds(r, m)'
  BY <1>3
<1> QED BY <1>2, <1>4, <1>5 DEF Reading

LEMMA TasksSelected ==
    ASSUME GateInv, TablesFilled, NEW h \in Handlers, Reading(h), SelectTasks(h)
    PROVE  Reading(h)'
<1> PICK r : r = run[h] OBVIOUS
<1>1. /\ h \in DOMAIN run /\ r.at = "tasks" /\ db' = db /\ loaded' = loaded /\ seed' = seed
      /\ "code" \in DOMAIN r /\ r.code \in AllCodes /\ loaded # <<>>
  BY GateAt DEF SelectTasks, At, tables, Reading, ReadingAt
<1>10. PICK s : s = [at |-> "assignees", rows |-> Restrict(db.tasks, TaskKeys(r.code)),
                  then |-> Len(loaded)]
  OBVIOUS
<1>2. run'[h] = Over(s, r) BY <1>1, <1>10 DEF SelectTasks
<1>3. /\ DOMAIN s = {"at", "rows", "then"} /\ s.at = "assignees"
      /\ s.rows = Restrict(db.tasks, TaskKeys(r.code)) /\ s.then = Len(loaded)
  BY <1>10
<1> PICK q : q = run'[h] OBVIOUS
<1>4. /\ q.at = "assignees" /\ q.rows = Restrict(db.tasks, TaskKeys(r.code))
      /\ q.then = Len(loaded) /\ q.code = r.code /\ {"code", "rows", "then"} \subseteq DOMAIN q
  <2>1. /\ DOMAIN Over(s, r) = DOMAIN s \cup DOMAIN r
        /\ \A x \in DOMAIN s : Over(s, r)[x] = s[x]
        /\ \A x \in DOMAIN r \ DOMAIN s : Over(s, r)[x] = r[x]
    BY DEF Over
  <2> QED BY <1>1, <1>2, <1>3, <2>1
<1>5. PICK n \in 0..Ended : LastFilled(n) BY <1>1 DEF TablesFilled
<1> PICK files : files = loaded[Len(loaded)] OBVIOUS
<1> PICK rows : rows = RowsOf(files, r.code, n) OBVIOUS
<1>6. /\ Restrict(db.tasks, TaskKeys(r.code)) = rows.tasks
      /\ AssigneesOf(DOMAIN rows.tasks) = rows.assignees
      /\ DepsOf(DOMAIN rows.tasks) = rows.deps
  BY <1>1, <1>5, FilledReads DEF LastFilled
<1>7. Holds(q, n)' 
  <2>1. IsWhole(rows, Len(loaded))' BY <1>1, <1>6 DEF IsWhole, AssigneesOf, DepsOf
  <2> QED BY <1>1, <1>4, <1>6, <2>1 DEF Holds
<1>8. Ended' = Ended /\ AllCodes' = AllCodes BY <1>1 DEF Ended, AllCodes
<1>9. Len(loaded) \in DOMAIN loaded BY <1>1 DEF TablesFilled
<1> QED BY <1>1, <1>4, <1>5, <1>7, <1>8, <1>9 DEF Reading

LEMMA AssigneesSelected ==
    ASSUME GateInv, NEW h \in Handlers, Reading(h), SelectAssignees(h)
    PROVE  Reading(h)'
<1> PICK r : r = run[h] OBVIOUS
<1>1. /\ h \in DOMAIN run /\ r.at = "assignees" /\ db' = db /\ loaded' = loaded /\ seed' = seed
      /\ {"code", "then", "rows"} \subseteq DOMAIN r /\ r.code \in AllCodes /\ loaded # <<>>
      /\ r.then \in DOMAIN loaded
  BY GateAt DEF SelectAssignees, At, tables, Reading, ReadingAt
<1>11. PICK s : s = [at |-> "deps", assignees |-> AssigneesOf(DOMAIN r.rows)] OBVIOUS
<1>2. run'[h] = Over(s, r) BY <1>1, <1>11 DEF SelectAssignees
<1>3. /\ DOMAIN s = {"at", "assignees"} /\ s.at = "deps"
      /\ s.assignees = AssigneesOf(DOMAIN r.rows)
  BY <1>11
<1> PICK q : q = run'[h] OBVIOUS
<1>4. /\ q.at = "deps" /\ q.assignees = AssigneesOf(DOMAIN r.rows)
      /\ q.rows = r.rows /\ q.then = r.then /\ q.code = r.code
      /\ {"code", "rows", "then"} \subseteq DOMAIN q
  <2>1. /\ DOMAIN Over(s, r) = DOMAIN s \cup DOMAIN r
        /\ \A x \in DOMAIN s : Over(s, r)[x] = s[x]
        /\ \A x \in DOMAIN r \ DOMAIN s : Over(s, r)[x] = r[x]
    BY DEF Over
  <2> QED BY <1>1, <1>2, <1>3, <2>1
<1>5. PICK m \in 0..Ended : Holds(r, m) BY <1>1 DEF Reading
<1> PICK rows : rows = RowsOf(loaded[r.then], r.code, m) OBVIOUS
<1>6. r.rows = rows.tasks /\ (IsWhole(rows, r.then) \/ IsGone(rows, r.then))
  BY <1>5 DEF Holds
<1>7. (IsWhole(rows, r.then) \/ IsGone(rows, r.then))'
  BY <1>1, <1>6 DEF IsWhole, IsGone, AssigneesOf, DepsOf
<1>8. q.assignees = rows.assignees \/ (q.assignees = {} /\ r.then < Len(loaded))
  <2>1. q.assignees = AssigneesOf(DOMAIN rows.tasks) BY <1>4, <1>6
  <2>2. CASE IsWhole(rows, r.then) BY <2>1, <2>2 DEF IsWhole
  <2>3. CASE IsGone(rows, r.then) BY <2>1, <2>3 DEF IsGone
  <2> QED BY <1>6, <2>2, <2>3
<1>9. Holds(q, m)' BY <1>1, <1>4, <1>6, <1>7, <1>8 DEF Holds
<1>10. Ended' = Ended /\ AllCodes' = AllCodes BY <1>1 DEF Ended, AllCodes
<1> QED BY <1>1, <1>4, <1>5, <1>9, <1>10 DEF Reading

LEMMA DependenciesSelected ==
    ASSUME GateInv, TablesFilled, NEW h \in Handlers, Reading(h), SelectDependencies(h)
    PROVE  Reading(h)'
<1> PICK r : r = run[h] OBVIOUS
<1>1. /\ h \in DOMAIN run /\ r.at = "deps" /\ db' = db /\ loaded' = loaded /\ seed' = seed
      /\ {"code", "then", "rows"} \subseteq DOMAIN r /\ r.code \in AllCodes /\ loaded # <<>>
      /\ r.then \in DOMAIN loaded
  BY GateAt DEF SelectDependencies, At, tables, Reading, ReadingAt
<1>2. PICK m \in 0..Ended : Holds(r, m) BY <1>1 DEF Reading
<1> PICK entries : entries = loaded[r.then].templates[r.code] OBVIOUS
<1> PICK rows : rows = RowsOf(loaded[r.then], r.code, m) OBVIOUS
<1> PICK A : A = r.assignees OBVIOUS
<1> PICK D : D = DepsOf(DOMAIN rows.tasks) OBVIOUS
<1> PICK during : during = Len(loaded) - r.then OBVIOUS
<1> PICK specs : specs = TemplateSpecs(rows.tasks, A, D) OBVIOUS
<1>3. /\ r.rows = rows.tasks /\ (IsWhole(rows, r.then) \/ IsGone(rows, r.then))
      /\ A = rows.assignees \/ (A = {} /\ r.then < Len(loaded))
  BY <1>1, <1>2 DEF Holds
<1>14. PICK s : s = [at |-> "read", specs |-> specs, during |-> during] OBVIOUS
<1>4. run'[h] = Over(s, r) BY <1>1, <1>3, <1>14 DEF SelectDependencies
<1>5. DOMAIN s = {"at", "specs", "during"} /\ s.at = "read" /\ s.specs = specs /\ s.during = during
  BY <1>14
<1> PICK q : q = run'[h] OBVIOUS
<1>6. /\ q.at = "read" /\ q.specs = specs /\ q.during = during /\ q.then = r.then
      /\ q.code = r.code /\ {"code", "then"} \subseteq DOMAIN q
  <2>1. /\ DOMAIN Over(s, r) = DOMAIN s \cup DOMAIN r
        /\ \A x \in DOMAIN s : Over(s, r)[x] = s[x]
        /\ \A x \in DOMAIN r \ DOMAIN s : Over(s, r)[x] = r[x]
    BY DEF Over
  <2> QED BY <1>1, <1>4, <1>5, <2>1
<1>7. loaded \in Seq(Files) /\ Len(loaded) \in Nat /\ r.then \in 1..Len(loaded)
  BY <1>1 DEF TablesFilled
<1>8. rows = TemplateRows(entries, r.code, m) BY DEF RowsOf
<1>9. Consistent(entries) BY <1>1 DEF TablesFilled, AllConsistent
<1>10. \A o \in DOMAIN entries : Numbered(entries[o].people)
  <2> SUFFICES ASSUME NEW o \in DOMAIN entries PROVE Numbered(entries[o].people) OBVIOUS
  <2>6. PICK people : people = entries[o].people OBVIOUS
  <2>1. loaded[r.then] \in Files BY <1>7
  <2>2. PICK i \in DOMAIN Codes : Codes[i] = r.code BY <1>1 DEF AllCodes, ToSet
  <2>3. /\ people \in Seq(ToSet(people))
        /\ \A a \in ToSet(people) : a.strict \in Int /\ (a.rank # None => a.rank \in Int)
    BY <2>1, <2>2, <2>6, SeedAssumption
  <2>4. \A j \in DOMAIN people : j \in Int /\ j - 1 \in Int /\ people[j] \in ToSet(people)
    <3>1. DOMAIN people = 1..Len(people) BY <2>3
    <3> QED BY <3>1 DEF ToSet
  <2>5. ASSUME NEW j \in DOMAIN people
        PROVE  people[j].strict \in Int /\ Given(people[j].rank, j - 1) \in Int
    <3>1. people[j].strict \in Int /\ (people[j].rank # None => people[j].rank \in Int)
      BY <2>3, <2>4
    <3>2. j - 1 \in Int BY <2>4
    <3> QED BY <3>1, <3>2 DEF Given
  <2>7. Numbered(people) BY <2>3, <2>5 DEF Numbered
  <2> QED BY <2>6, <2>7
<1>11. /\ A \in {rows.assignees, {}} /\ D \in {rows.deps, {}}
       /\ during = 0 => A = rows.assignees /\ D = rows.deps
       /\ D # {} => A = rows.assignees
  BY <1>3, <1>7 DEF IsWhole, IsGone
<1>12. ReadFrom(entries, specs, during) BY <1>8, <1>9, <1>10, <1>11, RightlyRead
<1>13. AllCodes' = AllCodes BY DEF AllCodes
<1> QED BY <1>1, <1>6, <1>12, <1>13 DEF Reading

LEMMA TemplateSelected ==
    ASSUME GateInv, TablesFilled, NEW h \in Handlers, NEW code, SelectTemplate(h, code)
    PROVE  Reading(h)'
<1> PICK r : r = run[h] OBVIOUS
<1>1. h \in DOMAIN run /\ "at" \in DOMAIN r /\ loaded' = loaded
  BY GateAt DEF SelectTemplate, At, tables, Basic
<1>2. CASE code \in db.templates
  <2>1. PICK s : s = [at |-> "tasks", code |-> code] OBVIOUS
  <2>2. run'[h] = Over(s, r) BY <1>1, <1>2, <2>1 DEF SelectTemplate
  <2>3. DOMAIN s = {"at", "code"} /\ s.at = "tasks" /\ s.code = code BY <2>1
  <2>4. /\ DOMAIN Over(s, r) = DOMAIN s \cup DOMAIN r
        /\ \A x \in DOMAIN s : Over(s, r)[x] = s[x]
    BY DEF Over
  <2> PICK q : q = run'[h] OBVIOUS
  <2>5. q.at = "tasks" /\ q.code = code /\ "code" \in DOMAIN q BY <2>2, <2>3, <2>4
  <2>6. loaded # <<>> BY <1>2 DEF TablesFilled
  <2>7. code \in AllCodes
    <3>1. PICK n \in 0..Ended : LastFilled(n) BY <2>6 DEF TablesFilled
    <3> QED BY <1>2, <3>1 DEF LastFilled, Filled
  <2>8. AllCodes' = AllCodes BY DEF AllCodes
  <2> QED BY <1>1, <2>5, <2>6, <2>7, <2>8 DEF Reading
<1>3. CASE code \notin db.templates
  <2>1. run'[h] = [r EXCEPT !.at = "reply"] BY <1>1, <1>3 DEF SelectTemplate
  <2>2. run'[h].at = "reply" BY <1>1, <2>1
  <2> QED BY <2>2 DEF Reading, ReadingAt
<1> QED BY <1>2, <1>3

LEMMA HandlerAlone ==
    ASSUME GateInv, NEW h \in Handlers, OtherThan(h)
    PROVE  /\ Alone(h) /\ UNCHANGED tables
           /\ \/ run'[h].at \notin ReadingAt
              \/ \E i \in DOMAIN Codes : SelectTemplate(h, Codes[i])
              \/ SelectTasks(h) \/ SelectAssignees(h) \/ SelectDependencies(h)
<1> DEFINE Goal == Alone(h) /\ run'[h].at \notin ReadingAt
<1>0. UNCHANGED tables BY KeepsTables
<1>1. ASSUME End(h) PROVE Goal
  BY <1>1 DEF End, Idle, Alone, ReadingAt, GateInv, Frame
<1>2. ASSUME run[h].at # "idle",
             NEW at \in {"gate", "clear", "wipe", "stash", "rearm", "pending"}, To(h, at)
      PROVE  Goal
  <2>1. h \in DOMAIN run /\ "at" \in DOMAIN run[h] BY <1>2, GateAt DEF Basic
  <2>2. run'[h].at = at BY <1>2, <2>1 DEF To
  <2> QED BY <1>2, <2>1, <2>2 DEF To, Alone, ReadingAt, GateInv, Frame
<1>3. ASSUME NEW s, "at" \in DOMAIN s, s.at \in {"actor", "route", "gate", "speech"},
             run' = [run EXCEPT ![h] = Over(s, @)]
      PROVE  Goal
  <2>1. \A r : Over(s, r).at = s.at BY <1>3 DEF Over
  <2> QED BY <1>3, <2>1 DEF Alone, ReadingAt, GateInv, Frame
<1>4. CASE ResolveActor(h) \/ Throttle(h) \/ HearEdit(h) \/ HearVoice(h)
  <2>1. CASE ResolveActor(h)
    <3>1. PICK s : s = [at |-> "route", rights |-> IsKnown(run[h].user) \/ run[h].user \in Admins
                                                  \/ run[h].chat = TeamChat]
      OBVIOUS
    <3>2. run' = [run EXCEPT ![h] = Over(s, @)] BY <2>1, <3>1 DEF ResolveActor
    <3>3. "at" \in DOMAIN s /\ s.at = "route" BY <3>1
    <3> QED BY <1>0, <1>3, <3>2, <3>3
  <2>2. CASE Throttle(h)
    <3>1. PICK s : s = [at |-> "actor", since |-> clock] OBVIOUS
    <3> QED BY <1>0, <1>1, <1>3, <2>2, <3>1 DEF Throttle
  <2>3. CASE HearEdit(h)
    <3>1. PICK s : s = [at |-> "gate", last |-> fsm[Key(h)].pending] OBVIOUS
    <3>2. run' = [run EXCEPT ![h] = Over(s, @)] BY <2>3, <3>1 DEF HearEdit
    <3>3. "at" \in DOMAIN s /\ s.at = "gate" BY <3>1
    <3> QED BY <1>0, <1>3, <3>2, <3>3
  <2>4. CASE HearVoice(h)
    <3>1. PICK s : s = [at |-> "speech", listened |-> clock] OBVIOUS
    <3> QED BY <1>0, <1>1, <1>3, <2>4, <3>1 DEF HearVoice
  <2> QED BY <1>4, <2>1, <2>2, <2>3, <2>4
<1>5. CASE HearAnswer(h) \/ HearText(h) \/ HearTask(h) \/ HearPress(h) \/ Transcribe(h)
  <2>1. run[h].at # "idle"
    BY <1>5 DEF HearAnswer, HearText, HearTask, HearPress, Transcribe, Routed, At
  <2>2. End(h) \/ To(h, "gate") \/ To(h, "wipe") \/ To(h, "pending")
    BY <1>5 DEF HearAnswer, HearText, HearTask, HearPress, Transcribe
  <2>3. Goal BY <1>1, <1>2, <2>1, <2>2
  <2> QED BY <1>0, <2>3
<1>6. CASE \/ Refuse(h) \/ ConfirmPending(h) \/ ClearState(h) \/ ClearData(h) \/ Reply(h)
           \/ ReplyEdit(h) \/ Stash(h) \/ Rearm(h) \/ KeepPending(h) \/ Fail(h)
  <2>1. End(h) \/ run[h].at # "idle"
    BY <1>6 DEF Refuse, ConfirmPending, ClearState, ClearData, Reply, ReplyEdit, Stash, Rearm,
                KeepPending, Fail, At
  <2>2. End(h) \/ To(h, "clear") \/ To(h, "wipe") \/ To(h, "stash") \/ To(h, "rearm")
               \/ To(h, "pending")
    BY <1>6 DEF Refuse, ConfirmPending, ClearState, ClearData, Reply, ReplyEdit, Stash, Rearm,
                KeepPending, Fail
  <2>3. Goal BY <1>1, <1>2, <2>1, <2>2
  <2> QED BY <1>0, <2>3
<1>7. CASE Turns(h)
  <2>1. Alone(h) BY <1>7, TurnOnward DEF Onward
  <2>2. UNCHANGED tables
    BY <1>7 DEF Turns, Remember, SelectTemplate, SelectTasks, SelectAssignees,
                SelectDependencies, PlanRead, FindAssignees
  <2>3. h \in DOMAIN run /\ "at" \in DOMAIN run[h]
    <3>1. run[h].at # "idle" BY <1>7, TurnOnward DEF InTurn
    <3> QED BY <3>1, GateAt DEF Basic
  <2>4. CASE Remember(h)
    <3>1. PICK s : s = [at |-> CASE run[h].message.wish = "plan" -> "template"
                                 [] run[h].message.wish = "who" /\ run[h].kind # "edit" ->
                                        "suggest"
                                 [] OTHER -> "reply",
                        recent |-> history[run[h].chat], proposed |-> FALSE]
      OBVIOUS
    <3>2. run' = [run EXCEPT ![h] = Over(s, @)] BY <2>4, <3>1 DEF Remember
    <3>3. "at" \in DOMAIN s /\ s.at \in {"template", "suggest", "reply"} BY <3>1
    <3>4. \A r : Over(s, r).at = s.at BY <3>3 DEF Over
    <3> QED BY <2>1, <2>2, <2>3, <3>2, <3>3, <3>4 DEF ReadingAt
  <2>5. CASE PlanRead(h)
    <3>1. PICK b \in BOOLEAN : run' = [run EXCEPT ![h].at = "reply", ![h].proposed = b]
      BY <2>5 DEF PlanRead
    <3>2. run'[h] = [run[h] EXCEPT !.at = "reply", !.proposed = b] BY <2>3, <3>1
    <3>3. run'[h].at = "reply" BY <2>3, <3>2
    <3> QED BY <2>1, <2>2, <3>3 DEF ReadingAt
  <2>6. ASSUME NEW ask, FindAssignees(h, ask) PROVE run'[h].at \notin ReadingAt
    <3>1. PICK s : s = [at |-> "reply", shown |-> Shown(ask.need, ask.bound)] OBVIOUS
    <3>2. run' = [run EXCEPT ![h] = Over(s, @)] BY <2>6, <3>1 DEF FindAssignees
    <3>3. "at" \in DOMAIN s /\ s.at = "reply" BY <3>1
    <3>4. \A r : Over(s, r).at = s.at BY <3>3 DEF Over
    <3> QED BY <2>3, <3>2, <3>3, <3>4 DEF ReadingAt
  <2> QED BY <1>7, <2>1, <2>2, <2>4, <2>5, <2>6 DEF Turns
<1> QED BY <1>4, <1>5, <1>6, <1>7 DEF OtherThan, Turns

ReadInv == TablesFilled /\ \A h \in Handlers : Reading(h)

LEMMA TablesSame ==
    ASSUME TablesFilled, UNCHANGED tables
    PROVE  TablesFilled' /\ SameTemplates(db, db') /\ Ended' = Ended /\ Ended \in Int
<1>1. db' = db /\ seed' = seed /\ loaded' = loaded BY DEF tables
<1>2. Ended' = Ended /\ Ended \in Int BY <1>1 DEF Ended, TablesFilled
<1>3. LoadFills => LoadFills' BY <1>1 DEF LoadFills, AllCodes
<1>4. SameTemplates(db, db') BY <1>1 DEF SameTemplates
<1> QED BY <1>1, <1>2, <1>3, <1>4, TablesStay DEF TablesFilled

LEMMA ReadGoesOn == IInv /\ ReadInv /\ [Next]_vars => ReadInv'
<1> SUFFICES ASSUME IInv, ReadInv, [Next]_vars PROVE ReadInv' OBVIOUS
<1>1. GateInv /\ SeedInv /\ TablesFilled BY DEF IInv, ReadInv
<1>2. \A h : run'[h].at \notin ReadingAt => Reading(h)' BY DEF Reading, ReadingAt
<1>3. ASSUME UNCHANGED tables,
             \A h \in Handlers : run'[h] = run[h] \/ run'[h].at \notin ReadingAt \/ Reading(h)'
      PROVE  ReadInv'
  <2>1. TablesFilled' /\ SameTemplates(db, db') /\ Ended' = Ended /\ Ended \in Int
    BY <1>1, <1>3, TablesSame
  <2>2. loaded' = loaded /\ Ended' \in Int /\ Ended <= Ended' BY <1>3, <2>1 DEF tables
  <2>3. \A h \in Handlers : run'[h] = run[h] => Reading(h)'
    BY <2>1, <2>2, ReadingStays DEF ReadInv
  <2> QED BY <1>2, <1>3, <2>1, <2>3 DEF ReadInv
<1>4. ASSUME NEW h \in Handlers, OtherThan(h) PROVE ReadInv'
  <2>1. /\ Alone(h) /\ UNCHANGED tables
        /\ \/ run'[h].at \notin ReadingAt
           \/ \E i \in DOMAIN Codes : SelectTemplate(h, Codes[i])
           \/ SelectTasks(h) \/ SelectAssignees(h) \/ SelectDependencies(h)
    BY <1>1, <1>4, HandlerAlone
  <2>2. Reading(h) BY DEF ReadInv
  <2>3. Reading(h)'
    BY <1>1, <1>2, <2>1, <2>2, TemplateSelected, TasksSelected, AssigneesSelected,
       DependenciesSelected
  <2> QED BY <1>3, <2>1, <2>3 DEF Alone
<1>5. ASSUME NEW h \in Handlers, NEW u, NEW c, NEW m, Receive(h, u, c, m) PROVE ReadInv'
  <2>1. UNCHANGED tables BY <1>5 DEF Receive
  <2>2. PICK r : r = [at |-> "throttle", user |-> u, chat |-> c, message |-> m,
                      kind |-> Kind(u, c, m)]
    OBVIOUS
  <2>3. run' = [run EXCEPT ![h] = r] BY <1>5, <2>2 DEF Receive
  <2>4. r.at \notin ReadingAt BY <2>2 DEF ReadingAt
  <2>5. \A g \in Handlers : run'[g] = run[g] \/ run'[g] = r BY <1>1, <2>3 DEF GateInv, Frame
  <2> QED BY <1>3, <2>1, <2>4, <2>5
<1>6. CASE Restart
  <2>1. UNCHANGED tables BY <1>6 DEF Restart
  <2>2. \A g \in Handlers : run'[g].at \notin ReadingAt
    BY <1>6 DEF Restart, Idle, ReadingAt
  <2> QED BY <1>3, <2>1, <2>2
<1>7. ASSUME UNCHANGED tables, run' = run PROVE ReadInv' BY <1>3, <1>7
<1>8. CASE SeedNext
  <2>1. run' = run BY <1>8 DEF SeedNext
  <2>2. ASSUME TablesFilled', SameTemplates(db, db'), loaded' = loaded, Ended <= Ended'
        PROVE  ReadInv'
    <3>1. Ended \in Int /\ Ended' \in Int BY <1>1, <2>2 DEF TablesFilled, Ended
    <3>2. \A h \in Handlers : Reading(h)' BY <2>1, <2>2, <3>1, ReadingStays DEF ReadInv
    <3> QED BY <2>2, <3>2 DEF ReadInv
  <2>3. ASSUME UNCHANGED <<db, loaded>>, TablesFilled', Ended <= Ended' PROVE ReadInv'
    BY <2>2, <2>3 DEF SameTemplates
  <2>4. seed.n \in Nat /\ (seed.at # "none" => LoadOK) BY <1>1 DEF TablesFilled, SeedInv
  <2>5. ASSUME NEW files \in Files, LoadTeam(files) PROVE ReadInv'
    <3>1. UNCHANGED <<db, loaded>> /\ TablesFilled' BY <1>1, <2>5, TeamFills DEF LoadTeam
    <3>2. seed'.at = "templates" /\ seed'.n = seed.n + 1 /\ seed.at = "none"
      BY <2>5 DEF LoadTeam
    <3>3. Ended <= Ended' BY <2>4, <3>2 DEF Ended
    <3> QED BY <2>3, <3>1, <3>3
  <2>6. CASE LoadTemplate \/ LoadCapability
    <3>1. LoadOK BY <2>4, <2>6 DEF LoadTemplate, LoadCapability
    <3>2. UNCHANGED <<db, loaded>> /\ TablesFilled'
      BY <1>1, <2>6, <3>1, TemplateFills, CapabilityFills DEF LoadTemplate, LoadCapability
    <3>3. seed.at = "templates" /\ seed'.at \in {"templates", "commit"} /\ seed'.n = seed.n
      BY <2>6, <3>1 DEF LoadTemplate, LoadCapability, LoadOK
    <3>4. Ended <= Ended' BY <2>4, <3>3 DEF Ended
    <3> QED BY <2>3, <3>2, <3>4
  <2>7. CASE Commit
    <3>1. LoadOK BY <2>4, <2>7 DEF Commit
    <3>2. TablesFilled' BY <1>1, <2>7, <3>1, CommitFills
    <3>3. \A h \in Handlers : Reading(h)'
      BY <1>1, <2>1, <2>7, <3>1, ReadingCommits DEF ReadInv
    <3> QED BY <3>2, <3>3 DEF ReadInv
  <2>8. CASE Rollback
    <3>1. UNCHANGED <<db, loaded>> /\ TablesFilled'
      BY <1>1, <2>8, RollbackFills DEF Rollback
    <3>2. seed'.at = "none" /\ seed'.n = seed.n /\ seed.at # "none"
      BY <2>8 DEF Rollback, NoLoad
    <3>3. Ended <= Ended' BY <2>4, <3>2 DEF Ended
    <3> QED BY <2>3, <3>1, <3>3
  <2>9. ASSUME NEW p, NEW role, LinkTelegram(p) \/ Relabel(p, role) \/ GrantRole(p, role)
        PROVE  ReadInv'
    <3>1. TablesFilled' /\ SameTemplates(db, db') BY <1>1, <2>9, ByHandFills
    <3>2. seed' = seed /\ loaded' = loaded BY <2>9 DEF LinkTelegram, Relabel, GrantRole
    <3>3. Ended <= Ended' BY <2>4, <3>2 DEF Ended
    <3> QED BY <2>2, <3>1, <3>2, <3>3
  <2>10. ASSUME NEW p, LinkTelegram(p) PROVE ReadInv' BY <2>9, <2>10
  <2> QED BY <1>8, <2>5, <2>6, <2>7, <2>8, <2>9, <2>10 DEF SeedNext, SeedStep
<1>9. CASE UNCHANGED vars BY <1>7, <1>9 DEF vars, tables
<1>10. ASSUME NEW h \in Handlers, NEW u, NEW c, NEW b, Press(h, u, c, b) PROVE ReadInv'
  <2>1. UNCHANGED tables BY <1>10 DEF Press
  <2>2. PICK r : r = [at |-> "actor", user |-> u, chat |-> c, since |-> clock, kind |-> "press",
                      message |-> [form |-> "press", addressed |-> TRUE, wish |-> b]]
    OBVIOUS
  <2>3. run' = [run EXCEPT ![h] = r] BY <1>10, <2>2 DEF Press
  <2>4. r.at \notin ReadingAt BY <2>2 DEF ReadingAt
  <2>5. \A g \in Handlers : run'[g] = run[g] \/ run'[g] = r BY <1>1, <2>3 DEF GateInv, Frame
  <2> QED BY <1>3, <2>1, <2>4, <2>5
<1>11. CASE Tick BY <1>7, <1>11 DEF Tick
<1> QED BY <1>4, <1>5, <1>6, <1>8, <1>9, <1>10, <1>11 DEF Next

(* A plan is made from the template of one file set, the last one loaded     *)
(* when its tasks were read: the people and the links read after them        *)
(* (repo.py, get_project_template) are those of the same load, or missing if  *)
(* another load (load_seed.py) has committed meanwhile; what is missing is    *)
(* all people or all links of a task, and there is no link without them.     *)
THEOREM TemplatesAreOfOneFile == Spec => []TemplateOfOneFile
<1>1. Init => ReadInv
  <2> SUFFICES ASSUME Init PROVE \A h \in Handlers : Reading(h) BY FirstTables DEF ReadInv
  <2>1. \A h \in Handlers : run[h].at = "idle" BY DEF Init, Idle
  <2> QED BY <2>1 DEF Reading, ReadingAt
<1>2. IInv /\ ReadInv /\ [Next]_vars => ReadInv' BY ReadGoesOn
<1>3. ReadInv => TemplateOfOneFile BY DEF ReadInv, Reading, TemplateOfOneFile, At
<1> QED BY <1>1, <1>2, <1>3, GateHolds, PTL DEF Spec

-----------------------------------------------------------------------------
(* Who covers most                                                           *)

(* What comes first has the least of the first numbers.                      *)
LEMMA FirstIsLeast ==
    ASSUME NEW S, IsFiniteSet(S), NEW n \in Nat \ {0}, NEW key,
           \A x \in S : key[x] \in Numbers(n), NEW s, s = Sorted(S, key)
    PROVE  /\ s # <<>> => s[1] \in S /\ \A x \in S : key[s[1]][1] <= key[x][1]
           /\ s = <<>> => S = {}
<1>1. Orders(s, S, key) BY SortedIs
<1>2. PICK m \in Nat : m = Cardinality(S) BY FS_CardinalityType
<1>3. /\ s \in [1..m -> S] /\ ToSet(s) = S
      /\ \A i, j \in 1..m : i < j => ~Below(key[s[j]], key[s[i]])
  BY <1>1, <1>2 DEF Orders
<1>4. s = <<>> => S = {} BY <1>3, NobodyListed DEF ToSet
<1>5. ASSUME m # 0 PROVE s[1] \in S /\ \A x \in S : key[s[1]][1] <= key[x][1]
  <2>1. 1 \in 1..m /\ s[1] \in S BY <1>2, <1>3, <1>5
  <2>2. ASSUME NEW x \in S PROVE key[s[1]][1] <= key[x][1]
    <3>1. PICK j \in 1..m : s[j] = x BY <1>3 DEF ToSet
    <3>2. key[s[1]][1] \in Int /\ key[x][1] \in Int /\ 1 \in DOMAIN key[x]
      BY <2>1 DEF Numbers
    <3>3. CASE j = 1 BY <3>1, <3>2, <3>3
    <3>4. CASE j # 1
      <4>1. ~Below(key[x], key[s[1]])
        <5>1. 1 < j BY <3>4
        <5> QED BY <1>3, <2>1, <3>1, <5>1
      <4> QED BY <3>2, <4>1 DEF Below
    <3> QED BY <3>3, <3>4
  <2> QED BY <2>1, <2>2
<1>6. m = 0 => s = <<>>
  <2> SUFFICES ASSUME m = 0 PROVE s = <<>> OBVIOUS
  <2>1. s \in [1..0 -> S] BY <1>3
  <2> QED BY <2>1
<1> QED BY <1>4, <1>5, <1>6

House == DOMAIN db.people \ Outside

(* The best suggestion for a need covers as much of it as anybody.           *)
MostCovered(need) ==
    /\ Best(need) \in Nat
    /\ Best(need) = 0 \/ \E p \in House : Best(need) = Coverage(p, need)
    /\ \A p \in House : Coverage(p, need) <= Best(need)

Named == DOMAIN db.people \subseteq ToSet(Persons)

LEMMA PersonsAreFew == IsFiniteSet(ToSet(Persons))
<1>1. Persons \in Seq(ToSet(Persons)) BY SeedAssumption
<1>2. DOMAIN Persons = 1..Len(Persons) /\ Len(Persons) \in Nat BY <1>1
<1>3. IsFiniteSet(1..Len(Persons)) BY <1>2, FS_Interval
<1>4. Persons \in [1..Len(Persons) -> ToSet(Persons)] BY <1>1, <1>2
<1>5. \A p \in ToSet(Persons) : \E i \in 1..Len(Persons) : Persons[i] = p
  BY <1>2 DEF ToSet
<1>6. Persons \in Surjection(1..Len(Persons), ToSet(Persons))
  BY <1>4, <1>5 DEF Surjection
<1> QED BY <1>3, <1>6, FS_Surjection

LEMMA CoverageIs ==
    ASSUME NEW need, IsFiniteSet(need), NEW p
    PROVE  Coverage(p, need) \in Nat
<1>1. IsFiniteSet(need \cap SkillsOf(p)) BY FS_Subset
<1> QED BY <1>1, FS_CardinalityType DEF Coverage

LEMMA BestCovers ==
    ASSUME Named, NEW need, IsFiniteSet(need)
    PROVE  MostCovered(need)
<1> DEFINE load(p) == IF p \in DOMAIN Hours THEN Hours[p] ELSE 0
           place(p) == CHOOSE i \in DOMAIN Persons : Persons[i] = p
           key == [p \in House |-> <<Cardinality(need) - Coverage(p, need), load(p), place(p)>>]
<1>1. Candidates({}) = House BY DEF Candidates, House
<1>2. Suggestions(need, {}) = Sorted(House, key) BY <1>1 DEF Suggestions
<1>3. House \subseteq ToSet(Persons) /\ IsFiniteSet(House)
  BY PersonsAreFew, FS_Subset DEF Named, House
<1>4. \A p \in House : load(p) \in Int BY SeedAssumption
<1>5. ASSUME NEW p \in House PROVE place(p) \in Int
  <2>1. \E i \in DOMAIN Persons : Persons[i] = p BY <1>3 DEF ToSet
  <2>2. place(p) \in DOMAIN Persons BY <2>1
  <2>3. DOMAIN Persons = 1..Len(Persons) /\ Len(Persons) \in Nat BY SeedAssumption
  <2> QED BY <2>2, <2>3
<1>6. Cardinality(need) \in Nat /\ \A p : Coverage(p, need) \in Nat
  BY CoverageIs, FS_CardinalityType
<1>7. \A p \in House : key[p] \in Numbers(3) /\ key[p][1] = Cardinality(need) - Coverage(p, need)
  <2> HIDE DEF load, place
  <2>1. \A p \in House : key[p] = <<Cardinality(need) - Coverage(p, need), load(p), place(p)>>
    OBVIOUS
  <2> HIDE DEF key
  <2>2. ASSUME NEW a \in Int, NEW b \in Int, NEW c \in Int
        PROVE  <<a, b, c>> \in Numbers(3)
    BY DEF Numbers
  <2>3. ASSUME NEW p \in House PROVE key[p] \in Numbers(3)
    <3>1. /\ Cardinality(need) - Coverage(p, need) \in Int
          /\ load(p) \in Int /\ place(p) \in Int
      BY <1>4, <1>5, <1>6
    <3> QED BY <2>1, <2>2, <3>1
  <2> QED BY <2>1, <2>3
<1>8. PICK s : s = Sorted(House, key) OBVIOUS
<1> HIDE DEF key
<1>9. /\ s # <<>> => s[1] \in House /\ \A x \in House : key[s[1]][1] <= key[x][1]
      /\ s = <<>> => House = {}
  <2>1. \A x \in House : key[x] \in Numbers(3) BY <1>7
  <2>2. 3 \in Nat \ {0} OBVIOUS
  <2> QED BY <1>3, <1>8, <2>1, <2>2, FirstIsLeast
<1>10. Best(need) = IF s = <<>> THEN 0 ELSE Coverage(s[1], need) BY <1>2, <1>8 DEF Best
<1>11. CASE s = <<>> BY <1>9, <1>10, <1>11 DEF MostCovered
<1>12. CASE s # <<>>
  <2>1. s[1] \in House /\ Best(need) = Coverage(s[1], need) BY <1>9, <1>10, <1>12
  <2>2. ASSUME NEW x \in House PROVE Coverage(x, need) <= Coverage(s[1], need)
    <3>1. key[s[1]][1] <= key[x][1] BY <1>9, <1>12
    <3>2. Cardinality(need) - Coverage(s[1], need) <= Cardinality(need) - Coverage(x, need)
      BY <1>7, <2>1, <3>1
    <3> QED BY <1>6, <3>2
  <2> QED BY <1>6, <2>1, <2>2 DEF MostCovered
<1> QED BY <1>11, <1>12

(* Nothing is forgotten of who there is, of roles and of their skills.       *)
Learned(t, u) ==
    /\ DOMAIN t.people \subseteq DOMAIN u.people
    /\ t.roleSkills \subseteq u.roleSkills
    /\ t.personRoles \subseteq u.personRoles

LEMMA MoreIsCovered ==
    ASSUME Learned(db, db'), NEW need, IsFiniteSet(need), MostCovered(need), MostCovered(need)'
    PROVE  Best(need)' >= Best(need)
<1>1. /\ Best(need) \in Nat /\ Best(need)' \in Nat
      /\ Best(need) = 0 \/ \E p \in House : Best(need) = Coverage(p, need)
      /\ \A p \in House' : Coverage(p, need)' <= Best(need)'
  BY DEF MostCovered
<1>2. CASE Best(need) = 0 BY <1>1, <1>2
<1>3. ASSUME NEW p \in House, Best(need) = Coverage(p, need) PROVE Best(need)' >= Best(need)
  <2>1. p \in House' BY <1>3 DEF Learned, House
  <2>2. SkillsOf(p) \subseteq SkillsOf(p)' BY DEF Learned, SkillsOf
  <2>3. PICK A : A = need \cap SkillsOf(p) OBVIOUS
  <2>4. PICK B : B = need \cap SkillsOf(p)' OBVIOUS
  <2>5. A \subseteq B /\ IsFiniteSet(B) /\ IsFiniteSet(A) BY <2>2, <2>3, <2>4, FS_Subset
  <2>6. Cardinality(A) <= Cardinality(B) /\ Cardinality(A) \in Nat /\ Cardinality(B) \in Nat
    BY <2>5, FS_Subset, FS_CardinalityType
  <2>7. Coverage(p, need) = Cardinality(A) /\ Coverage(p, need)' = Cardinality(B)
    BY <2>3, <2>4 DEF Coverage
  <2>8. Coverage(p, need)' <= Best(need)' BY <1>1, <2>1
  <2> QED BY <1>1, <1>3, <2>6, <2>7, <2>8
<1> QED BY <1>1, <1>2, <1>3

(* Whoever there is, or is being added, has one of the names.                *)
NamedInv ==
    /\ Named
    /\ seed.at # "none" => DOMAIN seed.add.people \subseteq ToSet(Persons)

LEMMA NamesLoaded ==
    ASSUME SeedInv, NamedInv, SeedStep \/ \E files \in Files : LoadTeam(files)
    PROVE  NamedInv' /\ Learned(db, db')
<1>1. ASSUME db' = db, seed'.at # "none" => DOMAIN seed'.add.people \subseteq ToSet(Persons)
      PROVE  NamedInv' /\ Learned(db, db')
  BY <1>1 DEF NamedInv, Named, Learned
<1>2. ASSUME NEW files \in Files, LoadTeam(files) PROVE NamedInv' /\ Learned(db, db')
  <2>1. PICK row : row = [p \in DOMAIN files.team \ DOMAIN db.people |->
                             [label |-> files.team[p], tg |-> FALSE]]
    OBVIOUS
  <2>2. seed'.add = [Empty EXCEPT !.people = row] /\ db' = db BY <1>2, <2>1 DEF LoadTeam
  <2>3. seed'.add.people = row BY <2>2 DEF Empty
  <2>4. DOMAIN row \subseteq ToSet(Persons) BY <2>1, SeedAssumption
  <2> QED BY <1>1, <2>2, <2>3, <2>4
<1>3. CASE LoadTemplate
  <2>1. LoadOK /\ seed.at # "none" /\ db' = db BY <1>3 DEF LoadTemplate, SeedInv
  <2>2. PICK rows : rows = TemplateRows(seed.files.templates[Head(seed.codes)],
                                        Head(seed.codes), seed.n)
    OBVIOUS
  <2>3. seed' = [seed EXCEPT !.codes = Tail(@), !.gone = @ \cup TaskKeys(Head(seed.codes)),
                             !.add = Together(@, rows)]
    BY <1>3, <2>2 DEF LoadTemplate
  <2>4. seed'.add = Together(seed.add, rows) BY <2>1, <2>3 DEF LoadOK
  <2>5. seed'.add.people = Over(seed.add.people, rows.people) BY <2>4 DEF Together
  <2>6. rows.people = <<>> BY <2>2 DEF TemplateRows, Empty
  <2>7. DOMAIN seed'.add.people = DOMAIN seed.add.people
    <3>1. DOMAIN rows.people = {} BY <2>6, NobodyListed
    <3> QED BY <2>5, <3>1 DEF Over
  <2> QED BY <1>1, <2>1, <2>7 DEF NamedInv
<1>4. CASE LoadCapability
  <2>1. LoadOK /\ seed.at # "none" /\ db' = db BY <1>4 DEF LoadCapability, SeedInv
  <2>2. PICK rs : rs = RoleSkillsOf(seed.files) \ db.roleSkills OBVIOUS
  <2>3. PICK pr : pr = PersonRolesOf(seed.files) \ db.personRoles OBVIOUS
  <2>4. seed' = [seed EXCEPT !.at = "commit", !.add.roleSkills = rs, !.add.personRoles = pr]
    BY <1>4, <2>2, <2>3 DEF LoadCapability
  <2>5. seed'.add.people = seed.add.people BY <2>1, <2>4 DEF LoadOK, RowsOK, Columns
  <2> QED BY <1>1, <2>1, <2>5 DEF NamedInv
<1>5. CASE Rollback BY <1>1, <1>5 DEF Rollback, NoLoad
<1>6. CASE Commit
  <2>1. LoadOK /\ seed.at # "none" BY <1>6 DEF Commit, SeedInv
  <2>2. PICK t : t = Kept OBVIOUS
  <2>3. db' = Together(t, seed.add) /\ seed'.at = "none" BY <1>6, <2>2 DEF Commit, NoLoad
  <2>4. /\ t.people = db.people /\ t.roleSkills = db.roleSkills
        /\ t.personRoles = db.personRoles
    BY <2>2 DEF Kept, SeedInv, RowsOK, Columns
  <2>5. /\ db'.people = Over(db.people, seed.add.people)
        /\ db'.roleSkills = db.roleSkills \cup seed.add.roleSkills
        /\ db'.personRoles = db.personRoles \cup seed.add.personRoles
    BY <2>3, <2>4 DEF Together
  <2>6. DOMAIN db'.people = DOMAIN db.people \cup DOMAIN seed.add.people BY <2>5 DEF Over
  <2> QED BY <2>1, <2>3, <2>5, <2>6 DEF NamedInv, Named, Learned
<1> QED BY <1>2, <1>3, <1>4, <1>5, <1>6 DEF SeedStep

LEMMA NamesByHand ==
    ASSUME SeedInv, NamedInv, NEW p, NEW role,
           LinkTelegram(p) \/ Relabel(p, role) \/ GrantRole(p, role)
    PROVE  NamedInv' /\ Learned(db, db')
<1>1. p \in DOMAIN db.people /\ seed' = seed /\ DOMAIN db = Columns
  BY DEF LinkTelegram, Relabel, GrantRole, SeedInv, RowsOK
<1>2. /\ DOMAIN db'.people = DOMAIN db.people /\ db'.roleSkills = db.roleSkills
      /\ db.personRoles \subseteq db'.personRoles
  BY <1>1 DEF LinkTelegram, Relabel, GrantRole, Columns
<1> QED BY <1>1, <1>2 DEF NamedInv, Named, Learned

LEMMA NamesGoOn == IInv /\ NamedInv /\ [Next]_vars => NamedInv' /\ Learned(db, db')
<1> SUFFICES ASSUME IInv, NamedInv, [Next]_vars PROVE NamedInv' /\ Learned(db, db') OBVIOUS
<1>1. SeedInv BY DEF IInv
<1>2. ASSUME UNCHANGED tables PROVE NamedInv' /\ Learned(db, db')
  BY <1>2 DEF tables, NamedInv, Named, Learned
<1>3. CASE SeedNext
  <2>1. ASSUME NEW p, LinkTelegram(p) PROVE NamedInv' /\ Learned(db, db')
    BY <1>1, <2>1, NamesByHand
  <2> QED BY <1>1, <1>3, <2>1, NamesLoaded, NamesByHand DEF SeedNext
<1>4. ASSUME NEW h \in Handlers, OtherThan(h) PROVE UNCHANGED tables BY <1>4, KeepsTables
<1>5. ASSUME NEW h, NEW u, NEW c, NEW m, Receive(h, u, c, m) PROVE UNCHANGED tables
  BY <1>5 DEF Receive
<1>6. ASSUME NEW h, NEW u, NEW c, NEW b, Press(h, u, c, b) PROVE UNCHANGED tables
  BY <1>6 DEF Press
<1>7. Tick \/ Restart => UNCHANGED tables BY DEF Tick, Restart
<1>8. UNCHANGED vars => UNCHANGED tables BY DEF vars, tables
<1> QED BY <1>2, <1>3, <1>4, <1>5, <1>6, <1>7, <1>8 DEF Next

(* Whatever is loaded again, interrupted or edited by hand, nobody loses a   *)
(* skill, and the best suggestion for a need never covers less of it than it  *)
(* did (load_seed.py adds to the capability map and takes nothing from it;   *)
(* capability.py, suggest_assignees).                                       *)
THEOREM LearnedStays == Spec => LearnedIsKept
<1> DEFINE Most == \A ask \in Needs : MostCovered(ask.need)
<1>1. Init => NamedInv
  <2> SUFFICES ASSUME Init PROVE NamedInv OBVIOUS
  <2>1. db = Empty /\ seed.at = "none" BY DEF Init, SeedInit, NoLoad
  <2>2. DOMAIN db.people = {} BY <2>1, NobodyListed DEF Empty
  <2> QED BY <2>1, <2>2 DEF NamedInv, Named
<1>2. IInv /\ NamedInv /\ [Next]_vars => NamedInv' /\ Learned(db, db') BY NamesGoOn
<1>3. NamedInv => Most BY BestCovers, GateAssumption DEF NamedInv
<1>4. Most /\ Most' /\ Learned(db, db') => \A ask \in Needs : Best(ask.need)' >= Best(ask.need)
  BY MoreIsCovered, GateAssumption
<1>5. Learned(db, db') => \A p \in DOMAIN db.people :
          p \in DOMAIN db'.people /\ SkillsOf(p) \subseteq SkillsOf(p)'
  BY DEF Learned, SkillsOf
<1> HIDE DEF Most
<1> QED BY <1>1, <1>2, <1>3, <1>4, <1>5, GateHolds, PTL DEF Spec, LearnedIsKept
=============================================================================
