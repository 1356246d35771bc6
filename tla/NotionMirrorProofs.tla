------------------------- MODULE NotionMirrorProofs -------------------------
(***************************************************************************)
(* The mirror implements its contract, OneWayMirror, for any handlers,      *)
(* plans and boards, any number of faults and any edits of the board:       *)
(* Notion shows only what the database says, or would say if the projects   *)
(* of one title were one, and takes nothing back.                           *)
(*                                                                          *)
(* The argument needs no account of what Notion answers.  A handler writes  *)
(* the database before it calls Notion, so what it is about to show is      *)
(* true when it begins and, as nothing is unwritten, when it is shown.      *)
(***************************************************************************)
EXTENDS NotionMirror, SequenceTheorems, FiniteSetTheorems, TLAPS

Card == [project : Projects, ticked : SUBSET {NameOf[t] : t \in Tasks}]

Sets ==
    /\ made \subseteq Projects
    /\ wanted \subseteq Tasks
    /\ done \subseteq Tasks
    /\ DOMAIN run = Handlers
    /\ DOMAIN page = Projects

Board ==
    /\ rows \in Seq(Elements(rows))
    /\ cards \in Seq(Card)

(* The page of a project is a card that was made for it. *)
Pages ==
    \A p \in Projects :
        page[p] # None => page[p] \in DOMAIN cards /\ cards[page[p]].project = p

Busy == {"fetch", "answered", "post", "rejected"}

(* What a handler is about to show is in the database. *)
Job(h) ==
    LET r == run[h]
    IN  /\ "at" \in DOMAIN r
        /\ r.at \in {"names", "next"} \cup Busy =>
               "todo" \in DOMAIN r /\ r.todo \in Seq(wanted)
        /\ r.at \in Busy => r.todo # <<>>
        /\ r.at \in {"resolve", "resolved", "card", "link"} => r.project \in made
        /\ r.at = "link" => r.card \in DOMAIN cards /\ cards[r.card].project = r.project
        /\ r.at \in {"lookup", "children", "tick"} => r.task \in done
        /\ r.at \in {"children", "tick"} =>
               r.card \in DOMAIN cards /\ cards[r.card].project \in Same(r.task)

MirrorInv == Sets /\ Board /\ Pages /\ \A h \in Handlers : Job(h)

(* Nothing is unwritten and no card becomes that of another project. *)
Grows ==
    /\ wanted \subseteq wanted'
    /\ made \subseteq made'
    /\ done \subseteq done'
    /\ \A i \in DOMAIN cards : i \in DOMAIN cards' /\ cards'[i].project = cards[i].project

-----------------------------------------------------------------------------
(* Sequences and sets *)

LEMMA SeqGrows == ASSUME NEW S, NEW T, S \subseteq T, NEW s \in Seq(S) PROVE s \in Seq(T)
  OBVIOUS

LEMMA AppendElements ==
    ASSUME NEW s, s \in Seq(Elements(s)), NEW e
    PROVE  /\ Elements(Append(s, e)) = Elements(s) \cup {e}
           /\ Append(s, e) \in Seq(Elements(Append(s, e)))
<1> DEFINE S == Elements(s) \cup {e}
<1>1. s \in Seq(S) BY SeqGrows
<1>2. /\ Append(s, e) \in Seq(S)
      /\ Len(Append(s, e)) = Len(s) + 1
      /\ \A i \in 1..Len(s) : Append(s, e)[i] = s[i]
      /\ Append(s, e)[Len(s) + 1] = e
  BY <1>1, AppendProperties
<1>3. DOMAIN s = 1..Len(s) /\ DOMAIN Append(s, e) = 1..(Len(s) + 1) /\ Len(s) \in Nat
  BY <1>1, <1>2
<1>4. Elements(Append(s, e)) = S
  <2>1. ASSUME NEW x \in Elements(Append(s, e)) PROVE x \in S
    <3>1. PICK i \in 1..(Len(s) + 1) : x = Append(s, e)[i] BY <2>1, <1>3 DEF Elements
    <3>2. CASE i = Len(s) + 1 BY <3>1, <3>2, <1>2
    <3>3. CASE i # Len(s) + 1
      <4>1. i \in 1..Len(s) BY <3>3, <1>3
      <4> QED BY <4>1, <3>1, <1>2, <1>3 DEF Elements
    <3> QED BY <3>2, <3>3
  <2>2. ASSUME NEW x \in Elements(s) PROVE x \in Elements(Append(s, e))
    <3>1. PICK i \in 1..Len(s) : x = s[i] BY <2>2, <1>3 DEF Elements
    <3>2. i \in 1..(Len(s) + 1) BY <1>3
    <3> QED BY <3>1, <3>2, <1>2, <1>3 DEF Elements
  <2>3. e \in Elements(Append(s, e))
    <3>1. Len(s) + 1 \in 1..(Len(s) + 1) BY <1>3
    <3> QED BY <3>1, <1>2, <1>3 DEF Elements
  <2> QED BY <2>1, <2>2, <2>3
<1> QED BY <1>2, <1>4

-----------------------------------------------------------------------------
(* What the jobs hold *)

(* The job of a handler that takes no step holds. *)
LEMMA Waiting ==
    ASSUME NEW h \in Handlers, Job(h), Grows, run'[h] = run[h]
    PROVE  Job(h)'
<1>1. run[h].todo \in Seq(wanted) => run[h].todo \in Seq(wanted')
  BY SeqGrows DEF Grows
<1>2. \A t : Same(t) \subseteq Same(t)' BY DEF Same, Grows
<1> QED BY <1>1, <1>2 DEF Job, Grows

(* One handler steps and the others wait. *)
LEMMA OneSteps ==
    ASSUME MirrorInv, Grows, NEW h \in Handlers, Job(h)',
           \A g \in Handlers \ {h} : run'[g] = run[g]
    PROVE  \A g \in Handlers : Job(g)'
<1> SUFFICES ASSUME NEW g \in Handlers, g # h PROVE Job(g)' OBVIOUS
<1> QED BY Waiting DEF MirrorInv

(* The next turn of a push. *)
LEMMA TurnHolds ==
    ASSUME MirrorInv, Grows, NEW h \in Handlers, run[h].at \in Busy, NEW ok, NEW failed,
           run'[h] = Turn(run[h], ok, failed)
    PROVE  Job(h)'
<1>1. run[h].todo \in Seq(wanted) /\ run[h].todo # <<>> BY DEF MirrorInv, Job
<1>2. /\ run'[h].at = "next" /\ run'[h].todo = Tail(run[h].todo)
      /\ "at" \in DOMAIN run'[h] /\ "todo" \in DOMAIN run'[h]
  BY DEF Turn, Pushing
<1>3. run'[h].todo \in Seq(wanted') BY <1>1, <1>2, SeqGrows, HeadTailProperties DEF Grows
<1> QED BY <1>2, <1>3 DEF Job, Busy

(* A push that fails touches the jobs of the others, not what they show. *)
LEMMA Failing ==
    ASSUME MirrorInv, Grows, NEW h \in Handlers, Fails(h), run[h].at \in Busy
    PROVE  /\ \A g \in Handlers : Job(g)'
           /\ DOMAIN run' = Handlers
<1>1. DOMAIN run' = Handlers BY DEF Fails
<1>2. Job(h)' BY TurnHolds DEF Fails
<1>3. ASSUME NEW g \in Handlers, g # h PROVE Job(g)'
  <2>1. Job(g) BY DEF MirrorInv
  <2>2. CASE run'[g] = run[g] BY <2>1, <2>2, Waiting
  <2>3. CASE run[g].at \in {"post", "rejected"}
    <3>1. run'[g] = [run[g] EXCEPT !.alone = FALSE] BY <1>3, <2>3 DEF Fails
    <3>2. /\ "at" \in DOMAIN run'[g] /\ run'[g].at = run[g].at
          /\ "todo" \in DOMAIN run'[g] /\ run'[g].todo = run[g].todo
      BY <2>1, <2>3, <3>1 DEF Job, Busy
    <3>3. run[g].todo \in Seq(wanted') BY <2>1, <2>3, SeqGrows DEF Job, Grows, Busy
    <3> QED BY <2>1, <2>3, <3>2, <3>3 DEF Job
  <2> QED BY <1>3, <2>2, <2>3 DEF Fails
<1> QED BY <1>1, <1>2, <1>3

-----------------------------------------------------------------------------
(* What is shown *)

Mirrors == MirrorInv' /\ [Contract!Next]_<<Truth \cup Mistaken, Surface>>

(* Writes to the database, and what only the handlers know. *)
LEMMA NothingShown ==
    ASSUME MirrorInv, Sets', Grows, UNCHANGED <<page, rows, cards>>,
           \A g \in Handlers : Job(g)'
    PROVE  Mirrors
<1>1. MirrorInv' BY DEF MirrorInv, Board, Pages, Elements
<1>2. UNCHANGED Surface BY DEF Surface
<1>3. Truth \subseteq Truth' BY DEF Truth, Grows
<1>4. Mistaken \subseteq Mistaken' BY DEF Mistaken, Same, Grows
<1> QED BY <1>1, <1>2, <1>3, <1>4 DEF Mirrors, Contract!Next, Contract!Write

(* The parts of the surface. *)
RowsShown == {<<"row", rows[i].task>> : i \in DOMAIN rows}
CardsShown == {<<"card", cards[i].project>> : i \in DOMAIN cards}
TicksShown == UNION {{<<"tick", cards[i].project, n>> : n \in cards[i].ticked} :
                        i \in DOMAIN cards}

LEMMA ThreeParts == Surface = RowsShown \cup CardsShown \cup TicksShown
  BY DEF Surface, RowsShown, CardsShown, TicksShown

LEMMA ShowsOne ==
    ASSUME NEW item, item \in Truth \cup Mistaken, UNCHANGED <<wanted, made, done>>,
           Surface' = Surface \cup {item}
    PROVE  [Contract!Next]_<<Truth \cup Mistaken, Surface>>
<1>1. UNCHANGED <<Truth, Mistaken>> BY DEF Truth, Mistaken, Same
<1> QED BY <1>1 DEF Contract!Next, Contract!Show

LEMMA RowShown ==
    ASSUME MirrorInv, NEW h \in Handlers, run[h].at = "post", NEW error, AddRow(h, error),
           UNCHANGED <<db, cards>>, DOMAIN run' = Handlers, \A g \in Handlers : Job(g)'
    PROVE  Mirrors
<1> DEFINE t == Head(run[h].todo)
<1>1. t \in wanted
  <2>1. Job(h) BY DEF MirrorInv
  <2> QED BY <2>1, HeadTailProperties DEF Job, Busy
<1>2. PICK e : rows' = Append(rows, e) /\ e.task = t
  BY DEF AddRow, Pushed
<1>3. rows \in Seq(Elements(rows)) BY DEF MirrorInv, Board
<1>4. Elements(rows') = Elements(rows) \cup {e} /\ rows' \in Seq(Elements(rows'))
  BY <1>2, <1>3, AppendElements
<1>5. RowsShown' = RowsShown \cup {<<"row", t>>}
  <2>1. RowsShown = {<<"row", r.task>> : r \in Elements(rows)} BY DEF RowsShown, Elements
  <2>2. RowsShown' = {<<"row", r.task>> : r \in Elements(rows')} BY DEF RowsShown, Elements
  <2> QED BY <2>1, <2>2, <1>4, <1>2
<1>6. Surface' = Surface \cup {<<"row", t>>}
  <2>1. UNCHANGED <<CardsShown, TicksShown>> BY DEF CardsShown, TicksShown
  <2>2. Surface' = RowsShown' \cup CardsShown' \cup TicksShown'
    BY DEF Surface, RowsShown, CardsShown, TicksShown
  <2> QED BY <2>1, <2>2, <1>5, ThreeParts
<1>7. <<"row", t>> \in Truth BY <1>1 DEF Truth
<1>8. [Contract!Next]_<<Truth \cup Mistaken, Surface>>
  BY <1>6, <1>7, ShowsOne DEF db
<1>9. MirrorInv'
  BY <1>4 DEF MirrorInv, Sets, Board, Pages, db
<1> QED BY <1>8, <1>9 DEF Mirrors

LEMMA CardShown ==
    ASSUME MirrorInv, NEW h \in Handlers, run[h].at = "card", AddCard(h),
           UNCHANGED <<db, rows>>
    PROVE  /\ Grows
           /\ Len(cards') \in DOMAIN cards'
           /\ cards'[Len(cards')].project = run[h].project
           /\ (DOMAIN run' = Handlers /\ \A g \in Handlers : Job(g)') => Mirrors
<1> DEFINE p == run[h].project
           e == [project |-> p, ticked |-> {}]
           n == Len(cards)
<1>1. p \in made /\ p \in Projects BY DEF MirrorInv, Job, Sets
<1>2. cards \in Seq(Card) /\ e \in Card BY <1>1 DEF MirrorInv, Board, Card
<1>3. cards' = Append(cards, e) BY DEF AddCard
<1>4. /\ cards' \in Seq(Card) /\ Len(cards') = n + 1 /\ n \in Nat
      /\ \A i \in 1..n : cards'[i] = cards[i]
      /\ cards'[n + 1] = e
  BY <1>2, <1>3, AppendProperties
<1>5. DOMAIN cards = 1..n /\ DOMAIN cards' = 1..(n + 1) BY <1>2, <1>4
<1>6. Grows BY <1>4, <1>5 DEF Grows, db
<1>7. n + 1 \in DOMAIN cards' /\ n + 1 \notin DOMAIN cards BY <1>4, <1>5
<1>8. DOMAIN cards' = DOMAIN cards \cup {n + 1} BY <1>4, <1>5
<1>9. CardsShown' = CardsShown \cup {<<"card", p>>}
  BY <1>4, <1>5, <1>8 DEF CardsShown
<1>10. TicksShown' = TicksShown
  <2>1. \A i \in DOMAIN cards : cards'[i] = cards[i] BY <1>4, <1>5
  <2>2. cards'[n + 1].ticked = {} BY <1>4
  <2>3. TicksShown' = UNION {{<<"tick", cards'[i].project, m>> : m \in cards'[i].ticked} :
                                i \in DOMAIN cards'}
    BY DEF TicksShown
  <2>4. ASSUME NEW x PROVE x \in TicksShown <=> x \in TicksShown'
    BY <2>1, <2>2, <2>3, <1>8 DEF TicksShown
  <2> QED BY <2>4, <2>3 DEF TicksShown
<1>11. Surface' = Surface \cup {<<"card", p>>}
  <2>1. RowsShown' = RowsShown BY DEF RowsShown
  <2>2. Surface' = RowsShown' \cup CardsShown' \cup TicksShown'
    BY DEF Surface, RowsShown, CardsShown, TicksShown
  <2> QED BY <2>1, <2>2, <1>9, <1>10, ThreeParts
<1>12. [Contract!Next]_<<Truth \cup Mistaken, Surface>>
  <2>1. <<"card", p>> \in Truth BY <1>1 DEF Truth
  <2> QED BY <2>1, <1>11, ShowsOne DEF db
<1>13. Sets /\ DOMAIN run' = Handlers => Sets' BY DEF Sets, db
<1>14. Board' BY <1>4 DEF MirrorInv, Board, Elements
<1>15. Pages' BY <1>4, <1>5, <1>8 DEF MirrorInv, Pages, db
<1> QED BY <1>4, <1>6, <1>7, <1>12, <1>13, <1>14, <1>15 DEF MirrorInv, Mirrors

LEMMA TickShown ==
    ASSUME MirrorInv, NEW h \in Handlers, run[h].at = "tick", Tick(h),
           UNCHANGED <<db, rows>>
    PROVE  /\ Grows
           /\ (DOMAIN run' = Handlers /\ \A g \in Handlers : Job(g)') => Mirrors
<1> DEFINE c == run[h].card
           t == run[h].task
           p == cards[c].project
<1>1. t \in done /\ t \in Tasks /\ c \in DOMAIN cards /\ p \in Same(t)
  BY DEF MirrorInv, Job, Sets
<1>2. cards \in Seq(Card) BY DEF MirrorInv, Board
<1>3. cards' = [cards EXCEPT ![c].ticked = @ \cup {NameOf[t]}] BY DEF Tick
<1>4. /\ DOMAIN cards' = DOMAIN cards
      /\ \A i \in DOMAIN cards : i # c => cards'[i] = cards[i]
      /\ cards'[c] = [project |-> cards[c].project,
                       ticked  |-> cards[c].ticked \cup {NameOf[t]}]
      /\ cards' \in Seq(Card)
  <2>1. cards[c] \in Card BY <1>1, <1>2
  <2>2. cards'[c] = [cards[c] EXCEPT !.ticked = @ \cup {NameOf[t]}] BY <1>1, <1>3
  <2>3. cards'[c] = [project |-> cards[c].project,
                     ticked  |-> cards[c].ticked \cup {NameOf[t]}]
    BY <2>1, <2>2 DEF Card
  <2>4. cards'[c] \in Card BY <2>1, <2>3, <1>1 DEF Card
  <2>5. cards' \in Seq(Card) BY <1>1, <1>2, <1>3, <2>4
  <2> QED BY <1>1, <1>2, <1>3, <2>3, <2>5
<1>5. \A i \in DOMAIN cards : cards'[i].project = cards[i].project BY <1>4
<1>6. Grows BY <1>4, <1>5 DEF Grows, db
<1>7. CardsShown' = CardsShown BY <1>4, <1>5 DEF CardsShown
<1>8. TicksShown' = TicksShown \cup {<<"tick", p, NameOf[t]>>}
  <2>1. TicksShown' = UNION {{<<"tick", cards'[i].project, m>> : m \in cards'[i].ticked} :
                                i \in DOMAIN cards}
    BY <1>4 DEF TicksShown
  <2>2. ASSUME NEW x \in TicksShown' PROVE x \in TicksShown \cup {<<"tick", p, NameOf[t]>>}
    <3>1. PICK i \in DOMAIN cards : \E m \in cards'[i].ticked :
              x = <<"tick", cards'[i].project, m>>
      BY <2>1, <2>2
    <3>2. CASE i = c BY <3>1, <3>2, <1>4 DEF TicksShown
    <3>3. CASE i # c BY <3>1, <3>3, <1>4 DEF TicksShown
    <3> QED BY <3>2, <3>3
  <2>3. ASSUME NEW x \in TicksShown PROVE x \in TicksShown'
    <3>1. PICK i \in DOMAIN cards : \E m \in cards[i].ticked :
              x = <<"tick", cards[i].project, m>>
      BY <2>3 DEF TicksShown
    <3>2. cards[i].ticked \subseteq cards'[i].ticked BY <1>4
    <3> QED BY <3>1, <3>2, <2>1, <1>5
  <2>4. <<"tick", p, NameOf[t]>> \in TicksShown' BY <2>1, <1>1, <1>4
  <2> QED BY <2>2, <2>3, <2>4
<1>9. Surface' = Surface \cup {<<"tick", p, NameOf[t]>>}
  <2>1. RowsShown' = RowsShown BY DEF RowsShown
  <2>2. Surface' = RowsShown' \cup CardsShown' \cup TicksShown'
    BY DEF Surface, RowsShown, CardsShown, TicksShown
  <2> QED BY <2>1, <2>2, <1>7, <1>8, ThreeParts
<1>10. [Contract!Next]_<<Truth \cup Mistaken, Surface>>
  <2>1. <<"tick", p, NameOf[t]>> \in Truth \cup Mistaken
    <3>1. CASE p = ProjectOf[t] BY <1>1, <3>1 DEF Truth
    <3>2. CASE p # ProjectOf[t]
      <4>1. <<"tick", p, NameOf[t]>> \in {<<"tick", q, NameOf[t]>> : q \in Same(t) \ {ProjectOf[t]}}
        BY <1>1, <3>2
      <4> HIDE DEF t, p
      <4> QED BY <1>1, <4>1 DEF Mistaken
    <3> QED BY <3>1, <3>2
  <2> QED BY <2>1, <1>9, ShowsOne DEF db
<1>11. Sets /\ DOMAIN run' = Handlers => Sets' BY DEF Sets, db
<1>12. Board' BY <1>4 DEF MirrorInv, Board, Elements
<1>13. Pages' BY <1>4, <1>5 DEF MirrorInv, Pages, db
<1> QED BY <1>6, <1>10, <1>11, <1>12, <1>13 DEF MirrorInv, Mirrors

-----------------------------------------------------------------------------
(* The steps *)

(* A step of h that shows nothing and leaves the database as it is. *)
LEMMA JobOnly ==
    ASSUME MirrorInv, NEW h \in Handlers, UNCHANGED <<db, rows, cards>>,
           DOMAIN run' = Handlers, \A g \in Handlers \ {h} : run'[g] = run[g], Job(h)'
    PROVE  Mirrors
<1>1. Grows /\ Sets' BY DEF Grows, db, MirrorInv, Sets
<1>2. \A g \in Handlers : Job(g)' BY <1>1, OneSteps
<1> QED BY <1>1, <1>2, NothingShown DEF db

PushStep(h) ==
    \/ ReadNames(h) \/ PushTask(h) \/ AskSchema(h) \/ KeepSchema(h)
    \/ PostRow(h) \/ PostError(h) \/ PostLost(h) \/ Retry(h)
    \/ PushedAll(h) \/ BreakOff(h) \/ Reply(h)

CardStep(h) ==
    \/ ResolveParent(h) \/ KeepParent(h) \/ CreateCard(h) \/ CardLost(h)
    \/ SetProjectNotionPage(h)

TickStep(h) == FindCard(h) \/ FindTodo(h) \/ TickTodo(h) \/ Marked(h)

Begin(h) ==
    \/ \E p \in Projects : AddProject(h, p) \/ CommitPlan(h, p)
    \/ \E t \in Tasks : CaptureTask(h, t) \/ MarkTaskDone(h, t)

LEMMA Pushes == ASSUME MirrorInv, NEW h \in Handlers, PushStep(h) PROVE Mirrors
<1> DEFINE Here == run[h].at
<1>1. Job(h) /\ DOMAIN run = Handlers BY DEF MirrorInv, Sets
<1>2. ASSUME UNCHANGED <<db, rows, cards>>, Here \in Busy, Fails(h)
      PROVE  Mirrors
  <2>1. Grows BY <1>2 DEF Grows, db
  <2>2. (\A g \in Handlers : Job(g)') /\ DOMAIN run' = Handlers BY <1>2, <2>1, Failing
  <2> QED BY <1>2, <2>1, <2>2, NothingShown DEF MirrorInv, Sets, db
<1>3. ASSUME UNCHANGED db, Here = "post", NEW error, AddRow(h, error), UNCHANGED cards,
             Succeeds(h) \/ Fails(h)
      PROVE  Mirrors
  <2>1. Grows BY <1>3 DEF Grows, db
  <2>2. CASE Fails(h)
    BY <1>3, <2>1, <2>2, Failing, RowShown DEF Busy
  <2>3. CASE Succeeds(h)
    <3>1. /\ DOMAIN run' = Handlers /\ \A g \in Handlers \ {h} : run'[g] = run[g]
          /\ run'[h] = Turn(run[h], run[h].ok + 1, run[h].failed)
      BY <1>1, <2>3 DEF Succeeds
    <3>2. Job(h)' BY <1>3, <2>1, <3>1, TurnHolds DEF Busy
    <3>3. \A g \in Handlers : Job(g)' BY <2>1, <3>1, <3>2, OneSteps
    <3> QED BY <1>3, <3>1, <3>3, RowShown
  <2> QED BY <1>3, <2>2, <2>3
<1>12. ASSUME NEW clean, Rejected(h, clean), Here = "post", UNCHANGED db
       PROVE  /\ Job(h)' /\ DOMAIN run' = Handlers
              /\ \A g \in Handlers \ {h} : run'[g] = run[g]
  BY <1>1, <1>12 DEF Rejected, Job, Busy, db
<1>4. CASE ReadNames(h)
  <2>1. Job(h)' BY <1>1, <1>4 DEF ReadNames, Job, Busy, db, Fault
  <2> QED BY <1>1, <1>4, <2>1, JobOnly DEF ReadNames, notion
<1>5. CASE PushTask(h)
  <2>1. Job(h)' BY <1>1, <1>5 DEF PushTask, Job, Busy, db
  <2> QED BY <1>1, <1>5, <2>1, JobOnly DEF PushTask, notion
<1>6. CASE AskSchema(h)
  <2>1. CASE Fails(h) BY <1>2, <1>6, <2>1 DEF AskSchema, Busy, notion
  <2>2. CASE ~Fails(h)
    <3>1. Job(h)' BY <1>1, <1>6, <2>2 DEF AskSchema, Job, Busy, db
    <3> QED BY <1>1, <1>6, <2>2, <3>1, JobOnly DEF AskSchema, notion
  <2> QED BY <2>1, <2>2
<1>13. CASE KeepSchema(h)
  <2>1. Job(h)' BY <1>1, <1>13 DEF KeepSchema, Job, Busy, db
  <2> QED BY <1>1, <1>13, <2>1, JobOnly DEF KeepSchema, notion
<1>7. CASE PostRow(h)
  <2>1. Here = "post" /\ UNCHANGED <<db, cards>> BY <1>7 DEF PostRow
  <2>2. CASE AddRow(h, FALSE) /\ Succeeds(h) BY <1>3, <2>1, <2>2
  <2>3. CASE Rejected(h, run[h].clean) /\ UNCHANGED rows BY <1>12, <2>1, <2>3, JobOnly
  <2> QED BY <1>7, <2>2, <2>3 DEF PostRow
<1>14. CASE PostError(h)
  <2>1. Here = "post" /\ UNCHANGED <<db, cards>> /\ Rejected(h, FALSE) BY <1>14 DEF PostError
  <2>2. CASE UNCHANGED rows BY <1>12, <2>1, <2>2, JobOnly
  <2>3. CASE AddRow(h, TRUE)
    <3>1. Grows BY <2>1 DEF Grows, db
    <3>2. \A g \in Handlers : Job(g)' BY <1>12, <2>1, <3>1, OneSteps
    <3> QED BY <1>12, <2>1, <2>3, <3>2, RowShown
  <2> QED BY <1>14, <2>2, <2>3 DEF PostError
<1>8. CASE PostLost(h)
  <2>1. Here = "post" /\ UNCHANGED <<db, cards>> /\ Fails(h) BY <1>8 DEF PostLost
  <2>2. CASE AddRow(h, FALSE) BY <1>3, <2>1, <2>2
  <2>3. CASE UNCHANGED rows BY <1>2, <2>1, <2>3 DEF Busy
  <2> QED BY <1>8, <2>2, <2>3 DEF PostLost
<1>9. CASE Retry(h)
  <2>1. CASE Fails(h) BY <1>2, <1>9, <2>1 DEF Retry, Busy, notion
  <2>2. CASE ~Fails(h)
    <3>1. PICK rest, clean : run' = [run EXCEPT ![h].at = "post", ![h].rest = rest,
                                         ![h].first = FALSE, ![h].clean = clean]
      BY <1>9, <2>2 DEF Retry
    <3>2. Here = "rejected" /\ UNCHANGED <<db, rows, cards>> BY <1>9 DEF Retry, notion
    <3>3. Job(h)' BY <1>1, <3>1, <3>2 DEF Job, Busy, db
    <3> QED BY <1>1, <3>1, <3>2, <3>3, JobOnly
  <2> QED BY <2>1, <2>2
<1>10. CASE PushedAll(h) \/ BreakOff(h)
  <2>1. run' = [run EXCEPT ![h].at = "pushed"] /\ UNCHANGED <<db, rows, cards>>
    BY <1>10 DEF PushedAll, BreakOff, notion
  <2>2. Job(h)' BY <1>1, <2>1 DEF Job, Busy, db
  <2> QED BY <1>1, <2>1, <2>2, JobOnly
<1>11. CASE Reply(h)
  <2>1. Job(h)' BY <1>1, <1>11 DEF Reply, Ends, Idle, Job, Busy
  <2> QED BY <1>1, <1>11, <2>1, JobOnly DEF Reply, Ends, notion
<1> QED BY <1>4, <1>5, <1>6, <1>7, <1>8, <1>9, <1>10, <1>11, <1>13, <1>14 DEF PushStep

LEMMA Ending == ASSUME Sets, NEW h \in Handlers, Ends(h)
                PROVE  /\ DOMAIN run' = Handlers /\ Job(h)'
                       /\ \A g \in Handlers \ {h} : run'[g] = run[g]
  BY DEF Sets, Ends, Idle, Job, Busy

LEMMA Cards == ASSUME MirrorInv, NEW h \in Handlers, CardStep(h) PROVE Mirrors
<1>1. Job(h) /\ Sets BY DEF MirrorInv
<1>2. ASSUME UNCHANGED <<db, rows, cards>>, Ends(h) PROVE Mirrors
  BY <1>1, <1>2, Ending, JobOnly
<1>3. CASE ResolveParent(h)
  <2>1. UNCHANGED <<db, rows, cards>> BY <1>3 DEF ResolveParent, notion
  <2>2. CASE Ends(h) BY <1>2, <2>1, <2>2
  <2>3. ASSUME NEW at \in {"card", "resolved"}, NEW into,
               run' = [run EXCEPT ![h].at = at, ![h].into = into]
        PROVE  Mirrors
    <3>1. Job(h)' BY <1>1, <1>3, <2>1, <2>3 DEF ResolveParent, Job, Busy, db, Sets
    <3> QED BY <1>1, <2>1, <2>3, <3>1, JobOnly DEF Sets
  <2> QED BY <1>3, <2>2, <2>3 DEF ResolveParent
<1>7. CASE KeepParent(h)
  <2>1. Job(h)' BY <1>1, <1>7 DEF KeepParent, Job, Busy, db, Sets
  <2> QED BY <1>1, <1>7, <2>1, JobOnly DEF KeepParent, notion, Sets
<1>4. CASE CreateCard(h)
  <2>1. CASE Ends(h) /\ UNCHANGED cards BY <1>2, <1>4, <2>1 DEF CreateCard
  <2>2. CASE AddCard(h) /\ run' = [run EXCEPT ![h] = [at |-> "link",
                                       project |-> run[h].project, card |-> Len(cards')]]
    <3>1. /\ run[h].at = "card" /\ UNCHANGED <<db, rows>>
      BY <1>4 DEF CreateCard
    <3>2. Grows /\ Len(cards') \in DOMAIN cards'
            /\ cards'[Len(cards')].project = run[h].project
      BY <2>2, <3>1, CardShown
    <3>3. run'[h] = [at |-> "link", project |-> run[h].project, card |-> Len(cards')]
      BY <1>1, <2>2 DEF Sets
    <3>4. Job(h)'
      <4>1. run[h].project \in made' BY <1>1, <3>1 DEF Job, db
      <4> QED BY <3>2, <3>3, <4>1 DEF Job, Busy
    <3>5. DOMAIN run' = Handlers /\ \A g \in Handlers \ {h} : run'[g] = run[g]
      BY <1>1, <2>2 DEF Sets
    <3>6. \A g \in Handlers : Job(g)' BY <3>2, <3>4, <3>5, OneSteps
    <3> QED BY <2>2, <3>1, <3>5, <3>6, CardShown
  <2> QED BY <1>4, <2>1, <2>2 DEF CreateCard
<1>5. CASE CardLost(h)
  <2>1. run[h].at = "card" /\ UNCHANGED <<db, rows>> /\ Ends(h) BY <1>5 DEF CardLost
  <2>2. CASE UNCHANGED cards BY <1>2, <2>1, <2>2
  <2>3. CASE AddCard(h)
    <3>1. Grows BY <2>1, <2>3, CardShown
    <3>2. \A g \in Handlers : Job(g)' BY <1>1, <2>1, <3>1, Ending, OneSteps
    <3> QED BY <1>1, <2>1, <2>3, <3>2, Ending, CardShown
  <2> QED BY <1>5, <2>2, <2>3 DEF CardLost
<1>6. CASE SetProjectNotionPage(h)
  <2>1. /\ UNCHANGED <<made, wanted, done, rows, cards>> /\ Ends(h)
        /\ run[h].at = "link"
        /\ UNCHANGED page \/ page' = [page EXCEPT ![run[h].project] = run[h].card]
    BY <1>6 DEF SetProjectNotionPage, notion
  <2>2. CASE UNCHANGED page BY <1>2, <2>1, <2>2 DEF db
  <2>3. CASE page' = [page EXCEPT ![run[h].project] = run[h].card]
    <3>1. Grows BY <2>1 DEF Grows
    <3>2. (\A g \in Handlers : Job(g)') /\ DOMAIN run' = Handlers
      BY <1>1, <2>1, <3>1, Ending, OneSteps
    <3>3. Sets' BY <1>1, <2>1, <2>3, <3>2 DEF Sets
    <3>4. Pages' BY <1>1, <2>1, <2>3 DEF MirrorInv, Pages, Sets, Job
    <3>5. Board' BY <2>1 DEF MirrorInv, Board, Elements
    <3>6. UNCHANGED <<Truth, Mistaken, Surface>> BY <2>1 DEF Truth, Mistaken, Same, Surface
    <3> QED BY <3>2, <3>3, <3>4, <3>5, <3>6 DEF MirrorInv, Mirrors
  <2> QED BY <2>1, <2>2, <2>3
<1> QED BY <1>3, <1>4, <1>5, <1>6, <1>7 DEF CardStep

LEMMA Ticks == ASSUME MirrorInv, NEW h \in Handlers, TickStep(h) PROVE Mirrors
<1>1. Job(h) /\ Sets /\ Pages BY DEF MirrorInv
<1>2. ASSUME UNCHANGED <<db, rows, cards>>,
             \E at \in {"tick", "marked"} : run' = [run EXCEPT ![h].at = at],
             run[h].at = "children" \/ run'[h].at = "marked"
      PROVE  Mirrors
  <2>1. Job(h)' BY <1>1, <1>2 DEF Job, Sets, db, Busy, Same
  <2> QED BY <1>1, <1>2, <2>1, JobOnly DEF Sets
<1>3. CASE FindCard(h)
  <2>1. UNCHANGED <<db, rows, cards>> /\ run[h].at = "lookup" BY <1>3 DEF FindCard, notion
  <2>2. CASE run' = [run EXCEPT ![h].at = "marked"]
    BY <1>1, <1>2, <2>1, <2>2 DEF Job, Sets
  <2>3. ASSUME NEW p \in Same(run[h].task), page[p] # None,
               run' = [run EXCEPT ![h] = [at |-> "children", task |-> run[h].task,
                                          then |-> run[h].then, card |-> page[p]]]
        PROVE  Mirrors
    <3>1. p \in made /\ p \in Projects /\ TitleOf[p] = TitleOf[ProjectOf[run[h].task]]
      BY <1>1 DEF Same, Sets
    <3>2. page[p] \in DOMAIN cards /\ cards[page[p]].project = p
      BY <1>1, <2>3, <3>1 DEF Pages
    <3>3. run'[h] = [at |-> "children", task |-> run[h].task,
                     then |-> run[h].then, card |-> page[p]]
      BY <1>1, <2>3 DEF Sets
    <3>4. Job(h)' BY <1>1, <2>1, <3>1, <3>2, <3>3 DEF Job, db, Busy, Same
    <3> QED BY <1>1, <2>1, <2>3, <3>4, JobOnly DEF Sets
  <2>4. ASSUME NEW p \in Same(run[h].task), page[p] = None,
               run' = [run EXCEPT ![h] = [@ EXCEPT !.at = "marked"]]
        PROVE  Mirrors
    BY <1>1, <1>2, <2>1, <2>4 DEF Job, Sets
  <2> QED BY <1>3, <2>2, <2>3, <2>4 DEF FindCard
<1>4. CASE FindTodo(h)
  <2>1. UNCHANGED <<db, rows, cards>> /\ run[h].at = "children" BY <1>4 DEF FindTodo, notion
  <2>2. \E at \in {"tick", "marked"} : run' = [run EXCEPT ![h].at = at]
    BY <1>4 DEF FindTodo
  <2> QED BY <1>2, <2>1, <2>2
<1>5. CASE TickTodo(h)
  <2>1. /\ UNCHANGED <<db, rows>> /\ run[h].at = "tick"
        /\ run' = [run EXCEPT ![h].at = "marked"]
    BY <1>5 DEF TickTodo
  <2>2. run'[h].at = "marked" BY <1>1, <2>1 DEF Job, Sets
  <2>3. CASE UNCHANGED cards BY <1>2, <2>1, <2>2, <2>3
  <2>4. CASE Tick(h)
    <3>1. Grows BY <2>1, <2>4, TickShown
    <3>2. Job(h)' BY <1>1, <2>1, <2>2 DEF Job, Sets, Busy
    <3>3. DOMAIN run' = Handlers /\ \A g \in Handlers \ {h} : run'[g] = run[g]
      BY <1>1, <2>1 DEF Sets
    <3>4. \A g \in Handlers : Job(g)' BY <3>1, <3>2, <3>3, OneSteps
    <3> QED BY <2>1, <2>4, <3>3, <3>4, TickShown
  <2> QED BY <1>5, <2>3, <2>4 DEF TickTodo
<1>6. CASE Marked(h)
  <2>1. UNCHANGED <<db, rows, cards>> /\ Ends(h) BY <1>6 DEF Marked, notion
  <2> QED BY <1>1, <2>1, Ending, JobOnly
<1> QED BY <1>3, <1>4, <1>5, <1>6 DEF TickStep

(* The database is written when a job begins. *)
LEMMA Begins == ASSUME MirrorInv, NEW h \in Handlers, Begin(h) PROVE Mirrors
<1>1. Sets BY DEF MirrorInv
<1>2. ASSUME UNCHANGED <<page, rows, cards>>, Grows, Sets', Job(h)',
             \A g \in Handlers \ {h} : run'[g] = run[g]
      PROVE  Mirrors
  BY <1>2, OneSteps, NothingShown
<1>3. ASSUME NEW p \in Projects, AddProject(h, p) PROVE Mirrors
  <2>1. /\ made' = made \cup {p} /\ UNCHANGED <<wanted, done, page, rows, cards>>
        /\ run' = [run EXCEPT ![h] = [at |-> "resolve", project |-> p, into |-> None]]
    BY <1>3 DEF AddProject, notion
  <2>2. Grows /\ Sets' BY <1>1, <2>1 DEF Grows, Sets
  <2>3. Job(h)' BY <1>1, <2>1 DEF Job, Sets, Busy
  <2> QED BY <1>1, <1>2, <2>1, <2>2, <2>3 DEF Sets
<1>4. ASSUME NEW p \in Projects, CommitPlan(h, p) PROVE Mirrors
  <2>1. /\ wanted' = wanted \cup Elements(PlanOf[p])
        /\ UNCHANGED <<made, done, page, rows, cards>>
        /\ run' = [run EXCEPT ![h] = [Pushing("commit", PlanOf[p]) EXCEPT !.at = "names",
                                                                       !.total = 0]]
    BY <1>4 DEF CommitPlan, notion
  <2>2. PlanOf[p] \in Seq(Tasks) BY MirrorAssumption
  <2>3. Elements(PlanOf[p]) \subseteq Tasks /\ PlanOf[p] \in Seq(Elements(PlanOf[p]))
    BY <2>2 DEF Elements
  <2>4. Grows /\ Sets' BY <1>1, <2>1, <2>3 DEF Grows, Sets
  <2>5. /\ run'[h].at = "names" /\ run'[h].todo = PlanOf[p]
        /\ "at" \in DOMAIN run'[h] /\ "todo" \in DOMAIN run'[h]
    BY <1>1, <2>1 DEF Sets, Pushing
  <2>6. PlanOf[p] \in Seq(wanted') BY <2>1, <2>3, SeqGrows
  <2>7. Job(h)' BY <2>5, <2>6 DEF Job, Busy
  <2> QED BY <1>1, <1>2, <2>1, <2>4, <2>7 DEF Sets
<1>5. ASSUME NEW t \in Tasks, CaptureTask(h, t) PROVE Mirrors
  <2>1. /\ wanted' = wanted \cup {t} /\ made' = made \cup {ProjectOf[t]}
        /\ UNCHANGED <<done, page, rows, cards>>
        /\ run' = [run EXCEPT ![h] = Pushing("capture", <<t>>)]
    BY <1>5 DEF CaptureTask, notion
  <2>2. ProjectOf[t] \in Projects BY MirrorAssumption
  <2>3. Grows /\ Sets' BY <1>1, <2>1, <2>2 DEF Grows, Sets
  <2>4. /\ run'[h].at = "next" /\ run'[h].todo = <<t>>
        /\ "at" \in DOMAIN run'[h] /\ "todo" \in DOMAIN run'[h]
    BY <1>1, <2>1 DEF Sets, Pushing
  <2>5. <<t>> \in Seq(wanted') BY <2>1
  <2>6. Job(h)' BY <2>4, <2>5 DEF Job
  <2> QED BY <1>1, <1>2, <2>1, <2>3, <2>6 DEF Sets
<1>6. ASSUME NEW t \in Tasks, MarkTaskDone(h, t) PROVE Mirrors
  <2>1. /\ done' = done \cup {t} /\ UNCHANGED <<wanted, made, page, rows, cards>>
        /\ run' = [run EXCEPT ![h] = [at |-> "lookup", task |-> t,
                                       then |-> page[ProjectOf[t]]]]
    BY <1>6 DEF MarkTaskDone, notion
  <2>2. Grows /\ Sets' BY <1>1, <2>1 DEF Grows, Sets
  <2>3. Job(h)' BY <1>1, <2>1 DEF Job, Sets, Busy
  <2> QED BY <1>1, <1>2, <2>1, <2>2, <2>3 DEF Sets
<1> QED BY <1>3, <1>4, <1>5, <1>6 DEF Begin

LEMMA Elsewhere ==
    ASSUME MirrorInv, EditBoard \/ Crash \/ UNCHANGED vars
    PROVE  Mirrors
<1>1. UNCHANGED <<db, rows, cards>> BY DEF EditBoard, Crash, vars, db, notion
<1>2. Grows /\ Sets' /\ \A g \in Handlers : Job(g)'
  <2>1. CASE Crash
    <3>1. run' = [h \in Handlers |-> Idle] BY <2>1 DEF Crash
    <3> QED BY <1>1, <3>1 DEF MirrorInv, Grows, Sets, Job, Idle, db, Busy
  <2>2. CASE UNCHANGED run
    <3>1. Grows BY <1>1 DEF Grows, db
    <3> QED BY <1>1, <2>2, <3>1, Waiting DEF MirrorInv, Sets, db
  <2> QED BY <2>1, <2>2 DEF EditBoard, vars
<1> QED BY <1>1, <1>2, NothingShown DEF db

LEMMA Starts == Init => MirrorInv /\ Contract!Init
<1> SUFFICES ASSUME Init PROVE MirrorInv /\ Contract!Init OBVIOUS
<1>1. Sets /\ Pages /\ \A h \in Handlers : Job(h)
  BY DEF Init, Sets, Pages, Job, Idle, Busy
<1>2. Board BY DEF Init, Board, Elements
<1>3. Truth \cup Mistaken = {} /\ Surface = {} BY DEF Init, Truth, Mistaken, Surface
<1> QED BY <1>1, <1>2, <1>3 DEF MirrorInv, Contract!Init

LEMMA Steps == MirrorInv /\ [Next]_vars => Mirrors
<1> SUFFICES ASSUME MirrorInv, [Next]_vars PROVE Mirrors OBVIOUS
<1>1. CASE EditBoard \/ Crash \/ UNCHANGED vars BY <1>1, Elsewhere
<1>2. ASSUME NEW h \in Handlers, Step(h) PROVE Mirrors
  BY <1>2, Pushes, Cards, Ticks DEF Step, PushStep, CardStep, TickStep
<1>3. ASSUME NEW h \in Handlers, Begin(h) PROVE Mirrors BY <1>3, Begins
<1> QED BY <1>1, <1>2, <1>3 DEF Next, Begin

(* A project's page, once it is set, is a card that was made for it; every   *)
(* handler about to show something shows what is stored (confirm_plan and    *)
(* capture_task push, and mark_task_done ticks, after the commit).           *)
THEOREM MirrorHolds == Spec => []MirrorInv
<1>1. MirrorInv /\ [Next]_vars => MirrorInv' BY Steps DEF Mirrors
<1> QED BY <1>1, Starts, PTL DEF Spec

(* NotionMirror implements OneWayMirror: whatever Notion answers or loses,   *)
(* whoever edits the board and whenever the process ends, the task board,    *)
(* the cards and their checklists only gain what the database already says,  *)
(* save that a box may be ticked for a task of that name of another stored   *)
(* project with the same title (mark_task_done.py:58).                       *)
THEOREM MirrorIsOneWay == Spec => MirrorsOneWay
<1>1. MirrorInv /\ [Next]_vars => [Contract!Next]_<<Truth \cup Mistaken, Surface>> BY Steps DEF Mirrors
<1> QED BY <1>1, Starts, MirrorHolds, PTL DEF Spec, MirrorsOneWay, Contract!Spec

-----------------------------------------------------------------------------
(***************************************************************************)
(* What the pushes keep, for any handlers, plans, boards, faults and edits  *)
(* of the board: the rows are as many and as full as the board lets them    *)
(* be, the failures a confirmation counts cover what is missing, and a      *)
(* schema that is out of date costs one push.                               *)
(*                                                                          *)
(* The pushes interleave, and a failure of one forgets the schema of all.   *)
(* What saves them: a schema goes back to an older edition only when an     *)
(* answer is kept late, which is counted; the attempts of a push that went  *)
(* without such a change and without errors are all of one edition, and an  *)
(* attempt that was refused for its edition stays refused.                  *)
(***************************************************************************)

PushLabels == {"names", "next", "pushed"} \cup Busy

Editions == Nat \cup {None}
Fills == UNION {{ColumnsOf[t], Strict(t), Safe(t)} : t \in Tasks}
Attempts == [edition : Editions, filled : Fills]
Failures == [task : Tasks, alone : BOOLEAN, stale : BOOLEAN, edition : Editions, late : Nat]

PushRun == [at      : PushLabels,
            kind    : {"commit", "capture"},
            todo    : Seq(Tasks),
            total   : Nat,
            ok      : Nat,
            edition : Editions,
            rest    : Seq(Attempts),
            first   : BOOLEAN,
            alone   : BOOLEAN,
            clean   : BOOLEAN,
            failed  : SUBSET Failures]

(* No attempt was made yet. *)
Fresh == {"names", "next", "fetch", "answered"}

Kinds ==
    /\ columns \in Nat /\ faults \in Nat /\ late \in Nat
    /\ schema = None \/ (schema \in Nat /\ schema <= columns)
    /\ \A h \in Handlers :
           /\ run[h].at \in PushLabels => run[h] \in PushRun
           /\ run[h].at \in Busy => run[h].todo # <<>>
           /\ run[h].at \in Fresh => run[h].first /\ run[h].alone /\ run[h].clean

(* Failures for an old schema are of ever newer editions, as long as no      *)
(* answer is kept late.                                                      *)
Apart(F) ==
    \A f, g \in F :
        f.stale /\ g.stale /\ f.edition = g.edition /\ f.late = g.late => f = g

Newer(h) ==
    LET r == run[h] IN
    r.at \in PushLabels =>
        /\ \A f \in r.failed : f.stale =>
               /\ f.edition \in Nat /\ f.edition < columns /\ f.late \in Nat /\ f.late <= late
               /\ f.late = late =>
                      /\ schema # None => f.edition < schema
                      /\ r.at \in Busy /\ r.edition # None => f.edition < r.edition
        /\ Apart(r.failed)
        /\ r.at \in Busy /\ r.edition # None => r.edition <= columns
        /\ r.at \in {"answered", "post", "rejected"} => r.edition # None

(* The board takes no row of t with these columns.                          *)
Barred(t, fill) == fill \cap (mood.never \cup (mood.noNew \cap New[t])) # {}

(* An attempt with these columns was refused, for them or for its edition.  *)
Tried(h, fill) == run[h].edition < columns \/ Barred(Pushed(h), fill)

(* Where a clean push stands on its ladder of attempts.                     *)
OnLadder(h, rest, at) ==
    LET t      == Pushed(h)
        strict == Attempt(run[h].edition, Strict(t))
        safe   == Attempt(run[h].edition, Safe(t))
    IN  /\ Tried(h, ColumnsOf[t])
        /\ \/ rest = <<>> /\ at = "rejected" /\ Tried(h, Strict(t)) /\ Tried(h, Safe(t))
           \/ rest = <<safe>> /\ Tried(h, Strict(t))
           \/ rest = <<strict>> /\ (Tried(h, Safe(t)) \/ Safe(t) = Strict(t))
           \/ rest = <<strict, safe>>

Climbing(h) ==
    LET r == run[h]
        t == Pushed(h)
    IN  r.at \in {"post", "rejected"} =>
            /\ r.at = "post" => r.rest # <<>>
            /\ r.first => \/ r.at = "post" /\ r.rest = <<Attempt(r.edition, ColumnsOf[t])>>
                          \/ r.at = "rejected" /\ (r.clean => Tried(h, ColumnsOf[t]))
            /\ ~r.first /\ r.clean => OnLadder(h, r.rest, r.at)
            /\ faults = 0 /\ columns = 0 => r.clean
            /\ faults = 0 /\ r.alone => schema # None

(* A push that failed alone, without any trouble, was barred.               *)
Explained(h) ==
    run[h].at \in PushLabels /\ faults = 0 /\ columns = 0 =>
        \A f \in run[h].failed : f.alone =>
            \A fill \in {ColumnsOf[f.task], Strict(f.task), Safe(f.task)} : Barred(f.task, fill)

(* What is shown of a row is what the ladder let through.                   *)
AsFull(row) ==
    row.clean => \A fill \in {ColumnsOf[row.task], Strict(row.task)} :
        fill \subseteq row.filled \/ Barred(row.task, fill)

Full == \A i \in DOMAIN rows : AsFull(rows[i])

(* A task is pushed once: by one handler, which has it once to do.  Until    *)
(* its push is over, its rows are those that were answered with an error.    *)
Distinct(seq) == \A i, j \in DOMAIN seq : seq[i] = seq[j] => i = j

Claims(h) == IF run[h].at \in PushLabels \ {"pushed"} THEN Elements(run[h].todo) ELSE {}

OneRow == \A i, j \in DOMAIN rows : rows[i].task = rows[j].task /\ i < j => rows[i].error

Unanswered(t) == \A i \in RowsOf(t) : rows[i].error

Single ==
    /\ \A h \in Handlers :
           /\ Claims(h) \subseteq wanted
           /\ \A t \in Claims(h) : Unanswered(t)
           /\ run[h].at \in PushLabels => Distinct(run[h].todo)
    /\ \A h, g \in Handlers : h # g => Claims(h) \cap Claims(g) = {}
    /\ OneRow
    /\ \A i \in DOMAIN rows : rows[i].task \in wanted

(* A task of the plan that has no row is to do or among the failed ones.    *)
Missing(p) == {t \in Elements(PlanOf[p]) : RowsOf(t) = {}}

CountedBy(h, p, F) ==
    LET r == run[h] IN
    /\ r.total = Len(PlanOf[p])
    /\ IsFiniteSet(F)
    /\ Missing(p) \subseteq Elements(r.todo) \cup F
    /\ Cardinality(F) + Len(r.todo) + r.ok <= r.total

Counted(h) ==
    LET r == run[h] IN
    r.at \in PushLabels /\ r.kind = "commit" =>
        IF r.at = "names"
        THEN /\ r.ok = 0 /\ r.total = 0
             /\ \E p \in Projects : r.todo = PlanOf[p] /\ r.todo # <<>>
        ELSE \/ r.at = "pushed" /\ r.total = 0 /\ faults > 0
             \/ /\ r.total > 0
                /\ \E p \in Projects : \E F \in SUBSET Tasks : CountedBy(h, p, F)

-----------------------------------------------------------------------------
(* The record of a push, before and after.                                  *)

(* Everything of r but where it is, and how the push at hand stands.        *)
Alike(r, s) ==
    /\ s.kind = r.kind /\ s.todo = r.todo /\ s.total = r.total /\ s.ok = r.ok
    /\ s.failed = r.failed

LEMMA TaskAhead ==
    ASSUME NEW r \in PushRun, r.todo # <<>>
    PROVE  /\ Head(r.todo) \in Tasks /\ Tail(r.todo) \in Seq(Tasks)
           /\ Len(Tail(r.todo)) = Len(r.todo) - 1
           /\ Elements(r.todo) = {Head(r.todo)} \cup Elements(Tail(r.todo))
<1>1. r.todo \in Seq(Tasks) BY DEF PushRun
<1>2. /\ Head(r.todo) = r.todo[1] /\ Head(r.todo) \in Tasks /\ Tail(r.todo) \in Seq(Tasks)
      /\ Len(Tail(r.todo)) = Len(r.todo) - 1 /\ Len(r.todo) \in Nat /\ Len(r.todo) > 0
      /\ \A i \in 1..Len(Tail(r.todo)) : Tail(r.todo)[i] = r.todo[i + 1]
  BY <1>1, HeadTailProperties, EmptySeq
<1>3. DOMAIN r.todo = 1..Len(r.todo) /\ DOMAIN Tail(r.todo) = 1..(Len(r.todo) - 1)
  BY <1>1, <1>2
<1>4. ASSUME NEW x \in Elements(r.todo) PROVE x = Head(r.todo) \/ x \in Elements(Tail(r.todo))
  <2>1. PICK i \in 1..Len(r.todo) : x = r.todo[i] BY <1>3 DEF Elements
  <2>2. CASE i = 1 BY <2>1, <2>2, <1>2
  <2>3. CASE i # 1
    <3>1. i - 1 \in 1..(Len(r.todo) - 1) /\ (i - 1) + 1 = i BY <2>1, <2>3, <1>2
    <3>2. Tail(r.todo)[i - 1] = r.todo[i] BY <3>1, <1>2
    <3> QED BY <2>1, <3>1, <3>2, <1>3 DEF Elements
  <2> QED BY <2>2, <2>3
<1>5. ASSUME NEW x \in Elements(Tail(r.todo)) PROVE x \in Elements(r.todo)
  <2>1. PICK i \in 1..(Len(r.todo) - 1) : x = Tail(r.todo)[i] BY <1>3 DEF Elements
  <2>2. i + 1 \in 1..Len(r.todo) /\ x = r.todo[i + 1] BY <2>1, <1>2
  <2> QED BY <2>2, <1>3 DEF Elements
<1>6. Head(r.todo) \in Elements(r.todo)
  <2>1. 1 \in 1..Len(r.todo) BY <1>2
  <2> QED BY <2>1, <1>2, <1>3 DEF Elements
<1> QED BY <1>2, <1>4, <1>5, <1>6

(* A push begins.                                                           *)
LEMMA Starting ==
    ASSUME NEW kind \in {"commit", "capture"}, NEW todo \in Seq(Tasks)
    PROVE  /\ Pushing(kind, todo) \in PushRun
           /\ [Pushing(kind, todo) EXCEPT !.at = "names", !.total = 0] \in PushRun
<1>1. Len(todo) \in Nat /\ <<>> \in Seq(Attempts) OBVIOUS
<1> QED BY <1>1 DEF Pushing, PushRun, PushLabels, Editions

LEMMA NextTurn ==
    ASSUME NEW r \in PushRun, r.todo # <<>>, NEW ok \in Nat, NEW failed \in SUBSET Failures
    PROVE  LET n == Turn(r, ok, failed)
           IN  /\ n \in PushRun /\ n.at = "next" /\ n.kind = r.kind
               /\ n.todo = Tail(r.todo) /\ n.total = r.total /\ n.ok = ok
               /\ n.failed = failed /\ n.first /\ n.alone /\ n.clean
<1>1. Tail(r.todo) \in Seq(Tasks) /\ r.kind \in {"commit", "capture"} /\ r.total \in Nat
  BY TaskAhead DEF PushRun
<1>2. PICK p : p = Pushing(r.kind, Tail(r.todo)) OBVIOUS
<1>3. p \in PushRun BY <1>1, <1>2, Starting
<1>4. /\ p.at = "next" /\ p.kind = r.kind /\ p.todo = Tail(r.todo)
      /\ p.first = TRUE /\ p.alone = TRUE /\ p.clean = TRUE
  BY <1>2 DEF Pushing
<1>5. Turn(r, ok, failed) = [p EXCEPT !.total = r.total, !.ok = ok, !.failed = failed]
  BY <1>2 DEF Turn
<1>6. PICK n : n = Turn(r, ok, failed) OBVIOUS
<1>7. n \in PushRun BY <1>1, <1>3, <1>5, <1>6 DEF PushRun
<1>8. /\ n.at = p.at /\ n.kind = p.kind /\ n.todo = p.todo /\ n.total = r.total /\ n.ok = ok
      /\ n.failed = failed /\ n.first = p.first /\ n.alone = p.alone /\ n.clean = p.clean
  BY <1>3, <1>5, <1>6 DEF PushRun
<1> QED BY <1>4, <1>6, <1>7, <1>8

LEMMA AttemptTypes ==
    ASSUME NEW t \in Tasks, NEW e \in Editions
    PROVE  /\ Attempt(e, ColumnsOf[t]) \in Attempts
           /\ Attempt(e, Strict(t)) \in Attempts
           /\ Attempt(e, Safe(t)) \in Attempts
BY DEF Attempt, Attempts, Fills

(* What is known of a handler that pushes.                                  *)
LEMMA Push ==
    ASSUME Kinds, MirrorInv, NEW h \in Handlers, run[h].at \in PushLabels
    PROVE  /\ run[h] \in PushRun /\ DOMAIN run = Handlers
           /\ run[h].at \in Busy =>
                  /\ run[h].todo # <<>> /\ Pushed(h) \in Tasks
                  /\ Tail(run[h].todo) \in Seq(Tasks)
<1>1. run[h] \in PushRun /\ (run[h].at \in Busy => run[h].todo # <<>>) BY DEF Kinds
<1>2. DOMAIN run = Handlers BY DEF MirrorInv, Sets
<1>3. run[h].at \in Busy => Pushed(h) \in Tasks /\ Tail(run[h].todo) \in Seq(Tasks)
  BY <1>1, TaskAhead DEF Pushed
<1> QED BY <1>1, <1>2, <1>3

LEMMA NamesMoves ==
    ASSUME Kinds, MirrorInv, NEW h \in Handlers, ReadNames(h)
    PROVE  /\ run'[h] \in PushRun
           /\ run'[h].kind = run[h].kind /\ run'[h].todo = run[h].todo
           /\ run'[h].ok = run[h].ok /\ run'[h].failed = run[h].failed
           /\ run'[h].first /\ run'[h].alone /\ run'[h].clean
           /\ \/ /\ run'[h].at = "next" /\ run'[h].total = Len(run[h].todo)
                 /\ faults' = faults
              \/ /\ run'[h].at = "pushed" /\ run'[h].total = run[h].total
                 /\ faults' = faults + 1
           /\ \A g \in Handlers \ {h} : run'[g] = run[g]
<1> DEFINE r == run[h]
<1>1. /\ r \in PushRun /\ DOMAIN run = Handlers
      /\ r.first = TRUE /\ r.alone = TRUE /\ r.clean = TRUE
  BY Push DEF ReadNames, PushLabels, Kinds, Fresh, PushRun
<1>2. Len(r.todo) \in Nat BY <1>1 DEF PushRun
<1>3. CASE run' = [run EXCEPT ![h].at = "next", ![h].total = Len(run[h].todo)] /\ faults' = faults
  <2>1. run'[h] = [r EXCEPT !.at = "next", !.total = Len(r.todo)] BY <1>1, <1>3
  <2> QED BY <1>1, <1>2, <1>3, <2>1 DEF PushRun, PushLabels
<1>4. CASE run' = [run EXCEPT ![h].at = "pushed"] /\ faults' = faults + 1
  <2>1. run'[h] = [r EXCEPT !.at = "pushed"] BY <1>1, <1>4
  <2> QED BY <1>1, <1>4, <2>1 DEF PushRun, PushLabels
<1> QED BY <1>3, <1>4 DEF ReadNames, Fault

LEMMA TaskMoves ==
    ASSUME Kinds, MirrorInv, NEW h \in Handlers, PushTask(h)
    PROVE  /\ run'[h] \in PushRun /\ Alike(run[h], run'[h])
           /\ run'[h].at = IF schema = None THEN "fetch" ELSE "post"
           /\ run'[h].edition = schema
           /\ run'[h].first = TRUE /\ run'[h].alone = TRUE /\ run'[h].clean = TRUE
           /\ run'[h].rest = <<Attempt(schema, ColumnsOf[Pushed(h)])>>
           /\ \A g \in Handlers \ {h} : run'[g] = run[g]
<1> DEFINE r == run[h]
           at == IF schema = None THEN "fetch" ELSE "post"
           rest == <<Attempt(schema, ColumnsOf[Pushed(h)])>>
<1>1. /\ r \in PushRun /\ DOMAIN run = Handlers
      /\ r.first = TRUE /\ r.alone = TRUE /\ r.clean = TRUE
  BY Push DEF PushTask, PushLabels, Kinds, Fresh, PushRun
<1>2. Pushed(h) \in Tasks BY <1>1, TaskAhead DEF PushTask, Pushed
<1>3. schema \in Editions /\ at \in PushLabels BY DEF Kinds, Editions, PushLabels, Busy
<1>4. rest \in Seq(Attempts) BY <1>2, <1>3, AttemptTypes
<1>5. run' = [run EXCEPT ![h] = [r EXCEPT !.at = at, !.edition = schema, !.rest = rest]]
  BY <1>1 DEF PushTask
<1>6. run'[h] = [r EXCEPT !.at = at, !.edition = schema, !.rest = rest]
  BY <1>1, <1>5
<1> HIDE DEF rest, at
<1>7. run'[h] \in PushRun
  <2>1. r \in PushRun BY <1>1
  <2> HIDE DEF r
  <2> QED BY <2>1, <1>3, <1>4, <1>6 DEF PushRun
<1>8. /\ Alike(r, run'[h]) /\ run'[h].at = at /\ run'[h].edition = schema
      /\ run'[h].first = TRUE /\ run'[h].alone = TRUE /\ run'[h].clean = TRUE
      /\ run'[h].rest = rest
  BY <1>1, <1>6 DEF PushRun, Alike
<1> QED BY <1>5, <1>7, <1>8 DEF rest, at

LEMMA AskMoves ==
    ASSUME Kinds, MirrorInv, NEW h \in Handlers, run[h].at = "fetch",
           run' = [run EXCEPT ![h].at = "answered", ![h].edition = columns]
    PROVE  /\ run'[h] \in PushRun /\ Alike(run[h], run'[h])
           /\ run'[h].at = "answered" /\ run'[h].edition = columns
           /\ run'[h].first /\ run'[h].alone /\ run'[h].clean
           /\ \A g \in Handlers \ {h} : run'[g] = run[g]
<1> DEFINE r == run[h]
<1>1. /\ r \in PushRun /\ DOMAIN run = Handlers
      /\ r.first = TRUE /\ r.alone = TRUE /\ r.clean = TRUE
  BY Push DEF PushLabels, Busy, Kinds, Fresh, PushRun
<1>2. columns \in Editions BY DEF Kinds, Editions
<1>3. run'[h] = [r EXCEPT !.at = "answered", !.edition = columns] BY <1>1
<1>4. run'[h] \in PushRun BY <1>1, <1>2, <1>3 DEF PushRun, PushLabels, Busy
<1>5. /\ Alike(r, run'[h]) /\ run'[h].at = "answered" /\ run'[h].edition = columns
      /\ run'[h].first /\ run'[h].alone /\ run'[h].clean
  BY <1>1, <1>3 DEF PushRun, Alike
<1> QED BY <1>1, <1>4, <1>5

LEMMA KeepMoves ==
    ASSUME Kinds, MirrorInv, NEW h \in Handlers, KeepSchema(h)
    PROVE  /\ run'[h] \in PushRun /\ Alike(run[h], run'[h])
           /\ run'[h].at = "post" /\ run'[h].edition = run[h].edition
           /\ run'[h].first = TRUE /\ run'[h].alone = TRUE /\ run'[h].clean = TRUE
           /\ run'[h].rest = <<Attempt(run[h].edition, ColumnsOf[Pushed(h)])>>
           /\ \A g \in Handlers \ {h} : run'[g] = run[g]
<1> DEFINE r == run[h]
           rest == <<Attempt(r.edition, ColumnsOf[Pushed(h)])>>
<1>1. /\ r \in PushRun /\ DOMAIN run = Handlers /\ Pushed(h) \in Tasks
      /\ r.first = TRUE /\ r.alone = TRUE /\ r.clean = TRUE
  BY Push DEF KeepSchema, PushLabels, Busy, Kinds, Fresh, PushRun
<1>2. r.edition \in Editions BY <1>1 DEF PushRun
<1>3. rest \in Seq(Attempts) BY <1>1, <1>2, AttemptTypes
<1>4. run' = [run EXCEPT ![h].at = "post", ![h].rest = rest] BY DEF KeepSchema
<1> HIDE DEF rest
<1>5. run'[h] = [r EXCEPT !.at = "post", !.rest = rest] BY <1>1, <1>4
<1>6. run'[h] \in PushRun
  <2>1. r \in PushRun BY <1>1
  <2> HIDE DEF r
  <2> QED BY <2>1, <1>3, <1>5 DEF PushRun, PushLabels, Busy
<1>7. /\ Alike(r, run'[h]) /\ run'[h].at = "post" /\ run'[h].edition = r.edition
      /\ run'[h].first = TRUE /\ run'[h].alone = TRUE /\ run'[h].clean = TRUE
      /\ run'[h].rest = rest
  BY <1>1, <1>5 DEF PushRun, Alike
<1>8. \A g \in Handlers \ {h} : run'[g] = run[g] BY <1>1, <1>4
<1> QED BY <1>6, <1>7, <1>8 DEF rest

(* A push that is over.                                                     *)
LEMMA SucceedsMoves ==
    ASSUME Kinds, MirrorInv, NEW h \in Handlers, run[h].at \in Busy, Succeeds(h)
    PROVE  /\ run'[h] \in PushRun /\ run'[h].at = "next"
           /\ run'[h].kind = run[h].kind /\ run'[h].todo = Tail(run[h].todo)
           /\ run'[h].total = run[h].total /\ run'[h].ok = run[h].ok + 1
           /\ run'[h].failed = run[h].failed
           /\ run'[h].first /\ run'[h].alone /\ run'[h].clean
           /\ \A g \in Handlers \ {h} : run'[g] = run[g]
<1> DEFINE r == run[h]
<1>1. r \in PushRun /\ DOMAIN run = Handlers /\ r.todo # <<>>
  BY Push DEF PushLabels, Busy
<1>2. run'[h] = Turn(r, r.ok + 1, r.failed) BY <1>1 DEF Succeeds
<1>3. r.ok + 1 \in Nat /\ r.failed \in SUBSET Failures BY <1>1 DEF PushRun
<1>4. \A g \in Handlers \ {h} : run'[g] = run[g] BY <1>1 DEF Succeeds
<1> QED BY <1>1, <1>2, <1>3, <1>4, NextTurn

(* The pushes of others that have begun to try are told.                    *)
Told(r) == IF r.at \in {"post", "rejected"} THEN [r EXCEPT !.alone = FALSE] ELSE r

LEMMA FailsMoves ==
    ASSUME Kinds, MirrorInv, NEW h \in Handlers, run[h].at \in Busy, Fails(h)
    PROVE  /\ run'[h] \in PushRun /\ run'[h].at = "next"
           /\ run'[h].kind = run[h].kind /\ run'[h].todo = Tail(run[h].todo)
           /\ run'[h].total = run[h].total /\ run'[h].ok = run[h].ok
           /\ run'[h].failed = run[h].failed \cup {FailedPush(h)}
           /\ run'[h].first /\ run'[h].alone /\ run'[h].clean
           /\ FailedPush(h) \in Failures
           /\ \A g \in Handlers \ {h} : run'[g] = Told(run[g])
<1> DEFINE r == run[h]
           f == FailedPush(h)
<1>1. r \in PushRun /\ r.todo # <<>> /\ Pushed(h) \in Tasks
  BY Push DEF PushLabels, Busy
<1>2. f \in Failures BY <1>1 DEF FailedPush, Failures, PushRun, Kinds
<1>3. run'[h] = Turn(r, r.ok, r.failed \cup {f}) BY DEF Fails
<1> HIDE DEF f
<1>4. r.ok \in Nat /\ r.failed \cup {f} \in SUBSET Failures BY <1>1, <1>2 DEF PushRun
<1>5. \A g \in Handlers \ {h} : run'[g] = Told(run[g]) BY DEF Fails, Told
<1> QED BY <1>1, <1>2, <1>3, <1>4, <1>5, NextTurn DEF f

LEMMA RefusedMoves ==
    ASSUME Kinds, MirrorInv, NEW h \in Handlers, run[h].at = "post", run[h].rest # <<>>,
           NEW clean \in BOOLEAN, Rejected(h, clean)
    PROVE  /\ run'[h] \in PushRun /\ Alike(run[h], run'[h])
           /\ run'[h].at = "rejected" /\ run'[h].edition = run[h].edition
           /\ run'[h].first = run[h].first /\ run'[h].alone = run[h].alone
           /\ run'[h].rest = Tail(run[h].rest) /\ run'[h].clean = clean
           /\ \A g \in Handlers \ {h} : run'[g] = run[g]
<1> DEFINE r == run[h]
           rest == Tail(r.rest)
<1>1. r \in PushRun /\ DOMAIN run = Handlers BY Push DEF PushLabels, Busy
<1>2. rest \in Seq(Attempts) BY <1>1 DEF PushRun
<1>3. run'[h] = [r EXCEPT !.at = "rejected", !.rest = rest, !.clean = clean]
  BY <1>1 DEF Rejected
<1> HIDE DEF rest
<1>4. run'[h] \in PushRun BY <1>1, <1>2, <1>3 DEF PushRun, PushLabels, Busy
<1>5. /\ Alike(r, run'[h]) /\ run'[h].at = "rejected" /\ run'[h].edition = r.edition
      /\ run'[h].first = r.first /\ run'[h].alone = r.alone /\ run'[h].rest = rest
      /\ run'[h].clean = clean
  BY <1>1, <1>3 DEF PushRun, Alike
<1>6. \A g \in Handlers \ {h} : run'[g] = run[g] BY <1>1 DEF Rejected
<1> QED BY <1>4, <1>5, <1>6 DEF rest

(* A refused push goes on to the attempts that are left.                    *)
Retrying(r, rest, clean) ==
    [r EXCEPT !.at = "post", !.rest = rest, !.first = FALSE, !.clean = clean]

LEMMA Retried ==
    ASSUME NEW r \in PushRun, NEW rest \in Seq(Attempts), NEW clean \in BOOLEAN, NEW s,
           s = Retrying(r, rest, clean)
    PROVE  /\ s \in PushRun /\ Alike(r, s) /\ s.at = "post" /\ s.edition = r.edition
           /\ ~s.first /\ s.alone = r.alone /\ s.rest = rest /\ s.clean = clean
<1>1. s \in PushRun BY DEF PushRun, PushLabels, Busy, Retrying
<1>2. /\ Alike(r, s) /\ s.at = "post" /\ s.edition = r.edition
      /\ s.first = FALSE /\ s.alone = r.alone /\ s.rest = rest /\ s.clean = clean
  BY DEF PushRun, Alike, Retrying
<1> QED BY <1>1, <1>2

LEMMA AllMoves ==
    ASSUME Kinds, MirrorInv, NEW h \in Handlers, PushedAll(h) \/ BreakOff(h)
    PROVE  /\ run'[h] \in PushRun /\ Alike(run[h], run'[h]) /\ run'[h].at = "pushed"
           /\ \A g \in Handlers \ {h} : run'[g] = run[g]
<1> DEFINE r == run[h]
<1>1. r \in PushRun /\ DOMAIN run = Handlers BY Push DEF PushedAll, BreakOff, PushLabels
<1>2. run' = [run EXCEPT ![h].at = "pushed"] BY DEF PushedAll, BreakOff
<1>3. run'[h] = [r EXCEPT !.at = "pushed"] BY <1>1, <1>2
<1>4. run'[h] \in PushRun /\ Alike(r, run'[h]) /\ run'[h].at = "pushed"
  BY <1>1, <1>3 DEF PushRun, PushLabels, Alike
<1> QED BY <1>1, <1>2, <1>4

-----------------------------------------------------------------------------
(* What the handlers that take no step may rely on.                         *)

(* The board's columns and the faults only grow, and the schema never goes   *)
(* back to an older edition but by an answer that is kept late.              *)
World ==
    /\ columns' \in Nat /\ columns <= columns' /\ mood' = mood
    /\ faults' \in Nat /\ faults <= faults'
    /\ late' \in Nat /\ late <= late'
    /\ schema' = None \/ (schema' \in Nat /\ schema' <= columns')
    /\ late' = late => schema' \in {None, schema, columns}

Waits(g) ==
    /\ run'[g].at = run[g].at
    /\ run[g].at \in PushLabels =>
           /\ run'[g] \in PushRun /\ Alike(run[g], run'[g])
           /\ run'[g].edition = run[g].edition /\ run'[g].first = run[g].first
           /\ run'[g].rest = run[g].rest /\ run'[g].clean = run[g].clean
           /\ run[g].at \in Fresh => run'[g].alone = run[g].alone
           /\ run[g].at \in {"post", "rejected"} /\ run'[g].alone =>
                  run[g].alone /\ (schema # None => schema' # None)

Knows(h) == Newer(h) /\ Climbing(h) /\ Explained(h)

(* An outdated failure stays one, and older than the schema.                *)
Outdated(f, cols, sch, n) ==
    /\ f.edition \in Nat /\ f.edition < cols /\ f.late \in Nat /\ f.late <= n
    /\ f.late = n /\ sch # None => f.edition < sch

LEMMA StaysOutdated ==
    ASSUME Kinds, World, NEW f, Outdated(f, columns, schema, late)
    PROVE  Outdated(f, columns', schema', late')
<1>1. columns \in Nat /\ columns' \in Nat /\ columns <= columns' /\ late \in Nat
      /\ late' \in Nat /\ late <= late'
  BY DEF Kinds, World
<1>2. f.edition \in Nat /\ f.edition < columns /\ f.late \in Nat /\ f.late <= late
  BY DEF Outdated
<1>3. ASSUME f.late = late', schema' # None PROVE f.edition < schema'
  <2>1. late' = late BY <1>1, <1>2, <1>3
  <2>2. CASE schema' = schema BY <1>3, <2>1, <2>2 DEF Outdated
  <2>3. CASE schema' = columns BY <1>2, <2>3
  <2> QED BY <1>3, <2>1, <2>2, <2>3 DEF World
<1> QED BY <1>1, <1>2, <1>3 DEF Outdated

LEMMA OldFailures ==
    ASSUME NEW h \in Handlers, Newer(h), run[h].at \in PushLabels, NEW f \in run[h].failed, f.stale
    PROVE  Outdated(f, columns, schema, late)
BY DEF Newer, Outdated

LEMMA StaysNewer ==
    ASSUME Kinds, World, NEW g \in Handlers, Newer(g), Waits(g)
    PROVE  Newer(g)'
<1> SUFFICES ASSUME run[g].at \in PushLabels PROVE Newer(g)' BY DEF Newer, Waits
<1>1. /\ run'[g].at = run[g].at /\ run'[g].failed = run[g].failed
      /\ run'[g].edition = run[g].edition /\ run[g] \in PushRun
  BY DEF Waits, Alike, Kinds
<1>2. columns \in Nat /\ columns' \in Nat /\ columns <= columns' BY DEF Kinds, World
<1>3. ASSUME NEW f \in run[g].failed, f.stale
      PROVE  /\ Outdated(f, columns', schema', late')
             /\ f.late = late' /\ run[g].at \in Busy /\ run[g].edition # None =>
                    f.edition < run[g].edition
  <2>1. Outdated(f, columns, schema, late) BY <1>3, OldFailures
  <2>2. f.late = late' => f.late = late BY <2>1 DEF Outdated, World, Kinds
  <2> QED BY <1>3, <2>1, <2>2, StaysOutdated DEF Newer
<1>4. ASSUME run[g].at \in Busy, run[g].edition # None PROVE run[g].edition <= columns'
  <2>1. run[g].edition \in Nat /\ run[g].edition <= columns
    BY <1>1, <1>4 DEF Newer, PushRun, Editions
  <2> QED BY <1>2, <2>1
<1>5. Apart(run'[g].failed) BY <1>1 DEF Newer
<1> QED BY <1>1, <1>3, <1>4, <1>5 DEF Newer, Outdated

(* What was tried stays tried. *)
LEMMA StaysTried ==
    ASSUME Kinds, World, NEW h \in Handlers, run[h].edition \in Nat,
           run'[h].edition = run[h].edition, Pushed(h)' = Pushed(h), NEW fill, Tried(h, fill)
    PROVE  Tried(h, fill)'
<1>1. CASE run[h].edition < columns
  <2>1. columns \in Nat /\ columns' \in Nat /\ columns <= columns' BY DEF Kinds, World
  <2> QED BY <1>1, <2>1 DEF Tried
<1>2. CASE Barred(Pushed(h), fill) BY <1>2 DEF Tried, Barred, World
<1> QED BY <1>1, <1>2 DEF Tried

LEMMA StaysOnLadder ==
    ASSUME Kinds, World, NEW h \in Handlers, run[h].edition \in Nat,
           run'[h].edition = run[h].edition, Pushed(h)' = Pushed(h), NEW rest, NEW at,
           OnLadder(h, rest, at), run'[h].rest = rest, run'[h].at = at
    PROVE  OnLadder(h, run[h].rest, run[h].at)'
<1> DEFINE t == Pushed(h)
           strict == Attempt(run[h].edition, Strict(t))
           safe == Attempt(run[h].edition, Safe(t))
<1>1. \A fill : Tried(h, fill) => Tried(h, fill)' BY StaysTried
<1>2. /\ Tried(h, ColumnsOf[t])
      /\ \/ rest = <<>> /\ at = "rejected" /\ Tried(h, Strict(t)) /\ Tried(h, Safe(t))
         \/ rest = <<safe>> /\ Tried(h, Strict(t))
         \/ rest = <<strict>> /\ (Tried(h, Safe(t)) \/ Safe(t) = Strict(t))
         \/ rest = <<strict, safe>>
  BY DEF OnLadder
<1>3. /\ Tried(h, ColumnsOf[t])'
      /\ \/ rest = <<>> /\ at = "rejected" /\ Tried(h, Strict(t))' /\ Tried(h, Safe(t))'
         \/ rest = <<safe>> /\ Tried(h, Strict(t))'
         \/ rest = <<strict>> /\ (Tried(h, Safe(t))' \/ Safe(t) = Strict(t))
         \/ rest = <<strict, safe>>
  <2>1. t' = t OBVIOUS
  <2>2. /\ Tried(h, ColumnsOf[t]) => Tried(h, ColumnsOf[t])'
        /\ Tried(h, Strict(t)) => Tried(h, Strict(t))'
        /\ Tried(h, Safe(t)) => Tried(h, Safe(t))'
    BY <1>1, <2>1 DEF Strict, Safe
  <2> HIDE DEF t, strict, safe
  <2> QED BY <1>2, <2>2
<1> QED BY <1>3 DEF OnLadder

LEMMA StaysClimbing ==
    ASSUME Kinds, World, NEW g \in Handlers, Newer(g), Climbing(g), Waits(g)
    PROVE  Climbing(g)'
<1> SUFFICES ASSUME run[g].at \in {"post", "rejected"} PROVE Climbing(g)'
  BY DEF Climbing, Waits
<1>1. /\ run'[g].at = run[g].at /\ run'[g].edition = run[g].edition
      /\ run'[g].first = run[g].first /\ run'[g].rest = run[g].rest
      /\ run'[g].clean = run[g].clean
      /\ run'[g].todo = run[g].todo /\ Pushed(g)' = Pushed(g)
      /\ run'[g].alone => run[g].alone /\ (schema # None => schema' # None)
  BY DEF Waits, Alike, Pushed, PushLabels, Busy
<1>2. run[g].edition \in Nat
  BY DEF Newer, Kinds, PushRun, Editions, PushLabels, Busy
<1>3. (faults' = 0 => faults = 0) /\ (columns' = 0 => columns = 0) BY DEF Kinds, World
<1>4. /\ run[g].at = "post" => run[g].rest # <<>>
      /\ run[g].first =>
             \/ run[g].at = "post"
                /\ run[g].rest = <<Attempt(run[g].edition, ColumnsOf[Pushed(g)])>>
             \/ run[g].at = "rejected" /\ (run[g].clean => Tried(g, ColumnsOf[Pushed(g)]))
      /\ ~run[g].first /\ run[g].clean => OnLadder(g, run[g].rest, run[g].at)
      /\ faults = 0 /\ columns = 0 => run[g].clean
      /\ faults = 0 /\ run[g].alone => schema # None
  BY DEF Climbing
<1>5. Tried(g, ColumnsOf[Pushed(g)]) => Tried(g, ColumnsOf[Pushed(g)])'
  BY <1>1, <1>2, StaysTried
<1>6. ~run[g].first /\ run[g].clean => OnLadder(g, run[g].rest, run[g].at)'
  BY <1>1, <1>2, <1>4, StaysOnLadder
<1> QED BY <1>1, <1>3, <1>4, <1>5, <1>6 DEF Climbing

LEMMA StaysKnown ==
    ASSUME Kinds, World, NEW g \in Handlers, Knows(g), Waits(g)
    PROVE  Knows(g)'
<1>1. Newer(g)' /\ Climbing(g)' BY StaysNewer, StaysClimbing DEF Knows
<1>2. Explained(g)'
  <2>1. faults' = 0 /\ columns' = 0 => faults = 0 /\ columns = 0 BY DEF Kinds, World
  <2>2. run[g].at \in PushLabels => run'[g].failed = run[g].failed BY DEF Waits, Alike
  <2> QED BY <2>1, <2>2 DEF Knows, Explained, Waits, World, Barred
<1> QED BY <1>1, <1>2 DEF Knows

(* A handler waits if it is left alone, or made to know of a failure.       *)
LEMMA LeftAlone ==
    ASSUME Kinds, NEW g \in Handlers, run'[g] = run[g],
           \/ schema # None => schema' # None
           \/ run[g].at \notin {"post", "rejected"}
    PROVE  Waits(g)
BY DEF Kinds, Waits, Alike

LEMMA ToldOfFailure ==
    ASSUME Kinds, NEW g \in Handlers, run'[g] = Told(run[g])
    PROVE  Waits(g)
<1>1. CASE run[g].at \notin {"post", "rejected"} BY <1>1, LeftAlone DEF Told
<1>2. CASE run[g].at \in {"post", "rejected"}
  <2>1. run[g] \in PushRun BY <1>2 DEF Kinds, Busy, PushLabels
  <2>2. run'[g] = [run[g] EXCEPT !.alone = FALSE] BY <1>2 DEF Told
  <2>3. run'[g] \in PushRun /\ Alike(run[g], run'[g]) BY <2>1, <2>2 DEF PushRun, Alike
  <2>4. /\ run'[g].at = run[g].at /\ run'[g].edition = run[g].edition
        /\ run'[g].first = run[g].first /\ run'[g].rest = run[g].rest
        /\ run'[g].clean = run[g].clean /\ run'[g].alone = FALSE
    BY <2>1, <2>2 DEF PushRun
  <2> QED BY <1>2, <2>3, <2>4 DEF Waits, Fresh
<1> QED BY <1>1, <1>2

-----------------------------------------------------------------------------
(* What the handler that takes a step knows afterwards.                     *)

(* No push is under way and no failure is new.                              *)
LEMMA KnowsCalm ==
    ASSUME Kinds, World, NEW h \in Handlers, Knows(h), run'[h].at \notin Busy,
           run'[h].at \in PushLabels =>
               \/ run'[h].failed = {}
               \/ run[h].at \in PushLabels /\ run'[h].failed = run[h].failed
    PROVE  Knows(h)'
<1>1. run'[h].at \notin {"answered", "post", "rejected"} BY DEF Busy
<1>2. Climbing(h)' BY <1>1 DEF Climbing
<1>3. faults' = 0 /\ columns' = 0 => faults = 0 /\ columns = 0 BY DEF Kinds, World
<1>4. CASE run'[h].at \notin PushLabels
  <2>1. Newer(h)' BY <1>4, <1>1 DEF Newer
  <2>2. Explained(h)' BY <1>4 DEF Explained
  <2> QED BY <1>2, <2>1, <2>2 DEF Knows
<1>5. CASE run'[h].failed = {}
  <2>1. Newer(h)' BY <1>1, <1>5 DEF Newer, Apart
  <2>2. Explained(h)' BY <1>5 DEF Explained
  <2> QED BY <1>2, <2>1, <2>2 DEF Knows
<1>6. CASE run[h].at \in PushLabels /\ run'[h].failed = run[h].failed
  <2>1. Explained(h)' BY <1>3, <1>6 DEF Explained, Knows, World, Barred
  <2>2. ASSUME NEW f \in run[h].failed, f.stale PROVE Outdated(f, columns', schema', late')
    BY <1>6, <2>2, OldFailures, StaysOutdated DEF Knows
  <2>3. Apart(run'[h].failed) BY <1>6 DEF Newer, Knows
  <2>4. Newer(h)' BY <1>1, <1>6, <2>2, <2>3 DEF Newer, Outdated
  <2> QED BY <1>2, <2>1, <2>4 DEF Knows
<1> QED BY <1>4, <1>5, <1>6

(* A failure is known for what it is: an edition that is out of date is      *)
(* newer than those of the failures since the last answer was kept late.     *)
LEMMA KnowsFailure ==
    ASSUME Kinds, World, MirrorInv, NEW h \in Handlers, Knows(h), run[h].at \in Busy,
           Fails(h), columns' = columns, late' = late,
           faults' = 0 /\ columns = 0 /\ run[h].alone =>
               LET t == Pushed(h)
               IN  \A fill \in {ColumnsOf[t], Strict(t), Safe(t)} : Barred(t, fill)
    PROVE  Knows(h)'
<1> DEFINE r == run[h]
           n == FailedPush(h)
<1>1. /\ run'[h].at = "next" /\ run'[h].failed = r.failed \cup {n} /\ n \in Failures
  BY FailsMoves
<1>2. r \in PushRun /\ r.at \in PushLabels BY DEF Kinds, Busy, PushLabels
<1>3. schema' = None BY DEF Fails
<1>4. /\ n.task = Pushed(h) /\ n.alone = r.alone /\ n.edition = r.edition /\ n.late = late
      /\ n.stale => r.edition # None /\ r.edition # columns
  BY DEF FailedPush
<1> HIDE DEF n
<1>5. columns \in Nat /\ late \in Nat BY DEF Kinds
<1>6. n.stale => Outdated(n, columns, None, late)
  BY <1>2, <1>4, <1>5 DEF Knows, Newer, PushRun, Editions, Outdated
<1>7. \A f \in r.failed : f.stale => Outdated(f, columns, schema, late)
  BY <1>2, OldFailures DEF Knows
<1>8. \A f \in r.failed : f.stale /\ n.stale => ~(f.edition = n.edition /\ f.late = n.late)
  <2> SUFFICES ASSUME NEW f \in r.failed, f.stale, n.stale, f.late = late
               PROVE  f.edition # n.edition
    BY <1>4
  <2>1. f.edition < r.edition BY <1>2, <1>4 DEF Knows, Newer
  <2>2. f.edition \in Nat /\ n.edition \in Nat BY <1>6, <1>7 DEF Outdated
  <2> QED BY <1>4, <2>1, <2>2
<1>9. Apart(run'[h].failed)
  <2>1. Apart(r.failed) BY <1>2 DEF Knows, Newer
  <2> QED BY <1>1, <1>8, <2>1 DEF Apart
<1>10. Newer(h)'
  <2>1. \A f \in run'[h].failed : f.stale => Outdated(f, columns, None, late)
    BY <1>1, <1>6, <1>7 DEF Outdated
  <2>2. run'[h].at \notin Busy \cup {"answered", "post", "rejected"} BY <1>1 DEF Busy
  <2> QED BY <1>3, <1>9, <2>1, <2>2 DEF Newer, Outdated
<1>11. Climbing(h)' BY <1>1 DEF Climbing
<1>12. Explained(h)'
  <2> SUFFICES ASSUME faults' = 0, columns = 0, NEW f \in run'[h].failed, f.alone,
                      NEW fill \in {ColumnsOf[f.task], Strict(f.task), Safe(f.task)}
               PROVE  Barred(f.task, fill)'
    BY DEF Explained, Strict, Safe
  <2>1. CASE f = n BY <1>4, <2>1 DEF Barred, World
  <2>2. CASE f # n
    <3>1. f \in r.failed /\ faults = 0 BY <1>1, <2>2 DEF Kinds, World
    <3> QED BY <3>1 DEF Knows, Explained, Busy, PushLabels, Barred, World
  <2> QED BY <2>1, <2>2
<1> QED BY <1>10, <1>11, <1>12 DEF Knows

LEMMA KnowsTask ==
    ASSUME Kinds, World, MirrorInv, NEW h \in Handlers, Knows(h), PushTask(h)
    PROVE  Knows(h)'
<1> DEFINE r == run[h]
<1>1. /\ Alike(r, run'[h]) /\ run'[h].at = (IF schema = None THEN "fetch" ELSE "post")
      /\ run'[h].edition = schema /\ run'[h].first = TRUE /\ run'[h].clean = TRUE
      /\ run'[h].rest = <<Attempt(schema, ColumnsOf[Pushed(h)])>>
  BY TaskMoves
<1>2. /\ r.at = "next" /\ schema' = schema /\ columns' = columns /\ mood' = mood
      /\ faults' = faults /\ late' = late
  BY DEF PushTask, notion
<1>3. schema = None \/ (schema \in Nat /\ schema <= columns) BY DEF Kinds
<1>4. run'[h].failed = r.failed /\ run'[h].todo = r.todo /\ Pushed(h)' = Pushed(h)
  BY <1>1 DEF Alike, Pushed
<1>5. Newer(h)'
  <2>1. \A f \in r.failed : f.stale => Outdated(f, columns, schema, late)
    BY <1>2, OldFailures DEF Knows, PushLabels
  <2>2. Apart(r.failed) BY <1>2 DEF Knows, Newer, PushLabels
  <2>3. run'[h].at = "post" => schema # None BY <1>1
  <2>4. run'[h].at \in {"fetch", "post"} BY <1>1
  <2> QED BY <1>1, <1>2, <1>3, <1>4, <2>1, <2>2, <2>3, <2>4 DEF Newer, Outdated
<1>6. Climbing(h)'
  <2>1. run'[h].rest # <<>> BY <1>1
  <2> QED BY <1>1, <1>2, <1>4, <2>1 DEF Climbing
<1>7. Explained(h)' BY <1>1, <1>2, <1>4 DEF Knows, Explained, PushLabels, Barred
<1> QED BY <1>5, <1>6, <1>7 DEF Knows

LEMMA KnowsAnswer ==
    ASSUME Kinds, World, MirrorInv, NEW h \in Handlers, Knows(h), run[h].at = "fetch",
           columns' = columns, schema' = schema, late' = late,
           run' = [run EXCEPT ![h].at = "answered", ![h].edition = columns]
    PROVE  Knows(h)'
<1> DEFINE r == run[h]
<1>1. Alike(r, run'[h]) /\ run'[h].at = "answered" /\ run'[h].edition = columns
  BY AskMoves
<1>2. columns \in Nat /\ columns # None BY MirrorAssumption DEF Kinds
<1>3. run'[h].failed = r.failed BY <1>1 DEF Alike
<1>4. Newer(h)'
  <2>1. \A f \in r.failed : f.stale => Outdated(f, columns, schema, late)
    BY OldFailures DEF Knows, PushLabels, Busy
  <2>2. Apart(r.failed) BY DEF Knows, Newer, PushLabels, Busy
  <2>3. ASSUME NEW f \in r.failed, f.stale
        PROVE  /\ f.edition \in Nat /\ f.edition < columns' /\ f.late \in Nat /\ f.late <= late'
               /\ schema' # None /\ f.late = late' => f.edition < schema'
               /\ f.edition < run'[h].edition
    BY <1>1, <2>1, <2>3 DEF Outdated
  <2>4. run'[h].edition <= columns' BY <1>1, <1>2
  <2> HIDE DEF r
  <2> QED BY <1>1, <1>2, <1>3, <2>2, <2>3, <2>4 DEF Newer
<1>5. Climbing(h)' BY <1>1 DEF Climbing
<1>6. Explained(h)'
  <2>1. faults' = 0 => faults = 0 BY DEF World, Kinds
  <2> QED BY <1>1, <1>3, <2>1 DEF Knows, Explained, PushLabels, Busy, Barred, World
<1> QED BY <1>4, <1>5, <1>6 DEF Knows

LEMMA KnowsSchema ==
    ASSUME Kinds, World, MirrorInv, NEW h \in Handlers, Knows(h), KeepSchema(h)
    PROVE  Knows(h)'
<1> DEFINE r == run[h]
<1>1. /\ Alike(r, run'[h]) /\ run'[h].at = "post" /\ run'[h].edition = r.edition
      /\ run'[h].first = TRUE /\ run'[h].clean = TRUE
      /\ run'[h].rest = <<Attempt(r.edition, ColumnsOf[Pushed(h)])>>
  BY KeepMoves
<1>2. /\ r.at = "answered" /\ schema' = r.edition /\ columns' = columns
      /\ faults' = faults /\ late' = IF r.edition = columns THEN late ELSE late + 1
  BY DEF KeepSchema, notion
<1>3. /\ r \in PushRun /\ columns \in Nat /\ late \in Nat
      /\ r.edition \in Nat /\ r.edition <= columns /\ r.edition # None
  BY <1>2 DEF Kinds, Knows, Newer, PushRun, PushLabels, Busy, Editions
<1>4. run'[h].failed = r.failed /\ run'[h].todo = r.todo /\ Pushed(h)' = Pushed(h)
  BY <1>1 DEF Alike, Pushed
<1>5. Newer(h)'
  <2>1. \A f \in r.failed : f.stale => Outdated(f, columns, schema, late)
    BY <1>2, OldFailures DEF Knows, PushLabels, Busy
  <2>2. Apart(r.failed) BY <1>2 DEF Knows, Newer, PushLabels, Busy
  <2>3. ASSUME NEW f \in r.failed, f.stale
        PROVE  /\ f.edition \in Nat /\ f.edition < columns /\ f.late \in Nat /\ f.late <= late'
               /\ f.late = late' => f.edition < r.edition
    <3>1. f.edition \in Nat /\ f.edition < columns /\ f.late \in Nat /\ f.late <= late
      BY <2>1, <2>3 DEF Outdated
    <3>2. CASE r.edition = columns BY <1>2, <3>1, <3>2
    <3>3. CASE r.edition # columns BY <1>2, <1>3, <3>1, <3>3
    <3> QED BY <3>2, <3>3
  <2> HIDE DEF r
  <2> QED BY <1>1, <1>2, <1>3, <1>4, <2>2, <2>3 DEF Newer
<1>6. Climbing(h)'
  <2>1. run'[h].rest # <<>> BY <1>1
  <2> QED BY <1>1, <1>2, <1>3, <1>4, <2>1 DEF Climbing
<1>7. Explained(h)' BY <1>1, <1>2, <1>4 DEF Knows, Explained, PushLabels, Busy, Barred, World
<1> QED BY <1>5, <1>6, <1>7 DEF Knows

(* An attempt was answered with an error: a refusal, or any other, and then  *)
(* the push is clean no more.                                               *)
LEMMA KnowsRefused ==
    ASSUME Kinds, World, MirrorInv, NEW h \in Handlers, Knows(h), run[h].at = "post",
           columns' = columns, schema' = schema, late' = late,
           NEW clean \in BOOLEAN, Rejected(h, clean),
           \/ clean = run[h].clean /\ ~Accepts(Pushed(h), Head(run[h].rest))
           \/ clean = FALSE /\ faults' # 0
    PROVE  Knows(h)'
<1> DEFINE r == run[h]
           t == Pushed(h)
           full == Attempt(r.edition, ColumnsOf[t])
           strict == Attempt(r.edition, Strict(t))
           safe == Attempt(r.edition, Safe(t))
<1>1. r.edition \in Nat /\ r.edition <= columns /\ columns \in Nat
  BY DEF Kinds, Knows, Newer, PushLabels, Busy, PushRun, Editions
<1>2. ASSUME NEW fill, ~Accepts(t, Attempt(r.edition, fill)) PROVE Tried(h, fill)
  <2>1. \/ r.edition # columns \/ fill \cap mood.never # {}
        \/ fill \cap New[t] \cap mood.noNew # {}
    BY <1>2 DEF Accepts, Attempt
  <2>2. CASE r.edition # columns BY <1>1, <2>2 DEF Tried
  <2>3. CASE fill \cap mood.never # {} \/ fill \cap New[t] \cap mood.noNew # {}
    BY <2>3 DEF Tried, Barred
  <2> QED BY <2>1, <2>2, <2>3
<1>3. /\ r.rest # <<>>
      /\ r.first => r.rest = <<full>>
      /\ ~r.first /\ r.clean => OnLadder(h, r.rest, "post")
      /\ faults = 0 /\ columns = 0 => r.clean
      /\ faults = 0 /\ r.alone => schema # None
  BY DEF Knows, Climbing
<1>4. /\ Alike(r, run'[h]) /\ run'[h].at = "rejected" /\ run'[h].edition = r.edition
      /\ run'[h].first = r.first /\ run'[h].alone = r.alone
      /\ run'[h].rest = Tail(r.rest) /\ run'[h].clean = clean
  BY <1>3, RefusedMoves
<1>5. run'[h].failed = r.failed /\ run'[h].todo = r.todo /\ Pushed(h)' = t
  BY <1>4 DEF Alike, Pushed
<1>6. Newer(h)' BY <1>4, <1>5 DEF Knows, Newer, PushLabels, Busy
<1>7. faults' = 0 => faults = 0 BY DEF World, Kinds
<1>8. Explained(h)' BY <1>4, <1>5, <1>7 DEF Knows, Explained, PushLabels, Busy, Barred, World
<1>9. ASSUME clean, r.first PROVE Tried(h, ColumnsOf[t])
  <2>1. Head(r.rest) = full BY <1>3, <1>9
  <2> QED BY <1>2, <1>9, <2>1
<1>10. ASSUME clean, ~r.first PROVE OnLadder(h, Tail(r.rest), "rejected")
  <2>1. ~Accepts(t, Head(r.rest)) /\ r.clean BY <1>10
  <2>2. /\ Tried(h, ColumnsOf[t])
        /\ \/ r.rest = <<safe>> /\ Tried(h, Strict(t))
           \/ r.rest = <<strict>> /\ (Tried(h, Safe(t)) \/ Safe(t) = Strict(t))
           \/ r.rest = <<strict, safe>>
    BY <1>3, <1>10, <2>1 DEF OnLadder
  <2>3. CASE r.rest = <<safe>> /\ Tried(h, Strict(t))
    <3>1. Head(r.rest) = safe /\ Tail(r.rest) = <<>> BY <2>3
    <3>2. Tried(h, Safe(t)) BY <1>2, <2>1, <3>1
    <3> QED BY <2>2, <2>3, <3>1, <3>2 DEF OnLadder
  <2>4. CASE r.rest = <<strict>> /\ (Tried(h, Safe(t)) \/ Safe(t) = Strict(t))
    <3>1. Head(r.rest) = strict /\ Tail(r.rest) = <<>> BY <2>4
    <3>2. Tried(h, Strict(t)) BY <1>2, <2>1, <3>1
    <3>3. Tried(h, Safe(t)) BY <2>4, <3>2
    <3> QED BY <2>2, <3>1, <3>2, <3>3 DEF OnLadder
  <2>5. CASE r.rest = <<strict, safe>>
    <3>1. Head(r.rest) = strict /\ Tail(r.rest) = <<safe>> BY <2>5
    <3>2. Tried(h, Strict(t)) BY <1>2, <2>1, <3>1
    <3> QED BY <2>2, <3>1, <3>2 DEF OnLadder
  <2> QED BY <2>2, <2>3, <2>4, <2>5
<1>11. Climbing(h)'
  <2>1. clean /\ r.first => Tried(h, ColumnsOf[t])' BY <1>1, <1>4, <1>5, <1>9, StaysTried
  <2>2. clean /\ ~r.first => OnLadder(h, run[h].rest, run[h].at)'
    BY <1>1, <1>4, <1>5, <1>10, StaysOnLadder
  <2>3. faults' = 0 /\ columns' = 0 => clean BY <1>3, <1>7
  <2> HIDE DEF full, strict, safe, t
  <2> QED BY <1>3, <1>4, <1>5, <1>7, <2>1, <2>2, <2>3 DEF Climbing, t
<1> QED BY <1>6, <1>8, <1>11 DEF Knows

LEMMA Pairs ==
    ASSUME NEW S, NEW a \in S, NEW b \in S
    PROVE  <<a>> \in Seq(S) /\ <<a, b>> \in Seq(S) /\ <<a>> \o <<b>> = <<a, b>>
<1>1. <<a>> \in Seq(S) /\ Len(<<a>>) = 1 OBVIOUS
<1>2. /\ Append(<<a>>, b) \in Seq(S) /\ Len(Append(<<a>>, b)) = 2
      /\ Append(<<a>>, b)[1] = a /\ Append(<<a>>, b)[2] = b
  BY <1>1, AppendProperties
<1>3. <<a, b>> \in Seq(S) /\ Len(<<a, b>>) = 2 /\ <<a, b>>[1] = a /\ <<a, b>>[2] = b OBVIOUS
<1>4. \A i \in 1..2 : Append(<<a>>, b)[i] = <<a, b>>[i] BY <1>2, <1>3
<1>5. Append(<<a>>, b) = <<a, b>> BY <1>2, <1>3, <1>4, SeqEqual
<1> QED BY <1>1, <1>3, <1>5, AppendIsConcat

(* What the ladder offers after the first refusal.                          *)
LEMMA LadderOffers ==
    ASSUME NEW t, NEW e, NEW n
    PROVE  LET full   == Attempt(e, ColumnsOf[t])
               strict == Attempt(n, Strict(t))
               safe   == Attempt(e, Safe(t))
           IN  \/ Ladder(t, e, n) = <<>> /\ strict = full /\ safe = strict
               \/ Ladder(t, e, n) = <<safe>> /\ strict = full
               \/ Ladder(t, e, n) = <<strict>> /\ safe = strict
               \/ Ladder(t, e, n) = <<strict, safe>>
<1> DEFINE full   == Attempt(e, ColumnsOf[t])
           strict == Attempt(n, Strict(t))
           safe   == Attempt(e, Safe(t))
<1>1. Ladder(t, e, n) = (IF strict = full THEN <<>> ELSE <<strict>>)
                            \o (IF safe = strict THEN <<>> ELSE <<safe>>)
  BY DEF Ladder
<1> HIDE DEF full, strict, safe
<1>2. <<>> \o <<>> = <<>> OBVIOUS
<1>3. <<>> \o <<safe>> = <<safe>> OBVIOUS
<1>4. <<strict>> \o <<>> = <<strict>> OBVIOUS
<1>5. <<strict>> \o <<safe>> = <<strict, safe>>
  <2>1. strict \in {strict, safe} /\ safe \in {strict, safe} OBVIOUS
  <2> QED BY <2>1, Pairs
<1> QED BY <1>1, <1>2, <1>3, <1>4, <1>5 DEF full, strict, safe

LEMMA LadderTypes ==
    ASSUME NEW t \in Tasks, NEW e \in Editions, NEW n \in Editions
    PROVE  Ladder(t, e, n) \in Seq(Attempts)
<1>1. Attempt(n, Strict(t)) \in Attempts /\ Attempt(e, Safe(t)) \in Attempts BY AttemptTypes
<1>2. \A a, b \in Attempts : <<a>> \in Seq(Attempts) /\ <<a, b>> \in Seq(Attempts) BY Pairs
<1>3. <<>> \in Seq(Attempts) OBVIOUS
<1> QED BY <1>1, <1>2, <1>3, LadderOffers

(* After the first refusal the attempts that are left are those of the      *)
(* schema there is now; the push stays clean if that is the one it used.    *)
LEMMA KnowsRetry ==
    ASSUME Kinds, World, MirrorInv, NEW h \in Handlers, Knows(h), run[h].at = "rejected",
           columns' = columns, faults' = faults, schema' = schema, late' = late,
           NEW rest,
           rest = IF run[h].first THEN Ladder(Pushed(h), run[h].edition, schema)
                                  ELSE run[h].rest,
           run[h].first => schema # None, rest # <<>>,
           run' = [run EXCEPT ![h].at = "post", ![h].rest = rest, ![h].first = FALSE,
                              ![h].clean = SameSchema(h)]
    PROVE  /\ Knows(h)' /\ run'[h] \in PushRun /\ run'[h].at = "post"
           /\ \A g \in Handlers \ {h} : run'[g] = run[g]
<1> DEFINE r == run[h]
           t == Pushed(h)
           strict == Attempt(r.edition, Strict(t))
           safe == Attempt(r.edition, Safe(t))
           clean == SameSchema(h)
<1>1. r \in PushRun /\ t \in Tasks /\ schema \in Editions
  BY Push DEF PushLabels, Busy, Kinds, Editions
<1>2. r.edition \in Nat /\ r.edition <= columns /\ columns \in Nat /\ r.edition # None
  BY <1>1 DEF Kinds, Knows, Newer, PushLabels, Busy, PushRun, Editions
<1>3. clean \in BOOLEAN /\ (clean <=> r.clean /\ (r.first => schema = r.edition))
  BY <1>1 DEF SameSchema, PushRun
<1>4. /\ r.first /\ r.clean => Tried(h, ColumnsOf[t])
      /\ ~r.first /\ r.clean => OnLadder(h, r.rest, "rejected")
      /\ faults = 0 /\ columns = 0 => r.clean
      /\ faults = 0 /\ r.alone => schema # None
  BY DEF Knows, Climbing
<1>5. ASSUME clean PROVE OnLadder(h, rest, "post")
  <2>1. CASE ~r.first
    <3>1. rest = r.rest /\ rest # <<>> BY <2>1
    <3> QED BY <1>3, <1>4, <1>5, <2>1, <3>1 DEF OnLadder
  <2>2. CASE r.first
    <3> DEFINE full == Attempt(r.edition, ColumnsOf[t])
    <3>1. rest = Ladder(t, r.edition, r.edition) BY <1>3, <1>5, <2>2
    <3>2. \/ rest = <<safe>> /\ strict = full
          \/ rest = <<strict>> /\ safe = strict
          \/ rest = <<strict, safe>>
      <4>1. PICK u : u = t OBVIOUS
      <4> QED BY <3>1, <4>1, LadderOffers
    <3>3. Tried(h, ColumnsOf[t]) BY <1>3, <1>4, <1>5, <2>2
    <3>4. CASE rest = <<safe>> /\ strict = full
      <4>1. Strict(t) = ColumnsOf[t] BY <3>4 DEF Attempt
      <4> QED BY <3>3, <3>4, <4>1 DEF OnLadder
    <3>5. CASE rest = <<strict>> /\ safe = strict
      <4>1. Safe(t) = Strict(t) BY <3>5 DEF Attempt
      <4> QED BY <3>3, <3>5, <4>1 DEF OnLadder
    <3>6. CASE rest = <<strict, safe>> BY <3>3, <3>6 DEF OnLadder
    <3> QED BY <3>2, <3>4, <3>5, <3>6
  <2> QED BY <2>1, <2>2
<1>6. rest \in Seq(Attempts)
  <2>1. r.rest \in Seq(Attempts) /\ r.edition \in Editions BY <1>1 DEF PushRun
  <2>2. Ladder(t, r.edition, schema) \in Seq(Attempts) BY <1>1, <2>1, LadderTypes
  <2> QED BY <2>1, <2>2
<1>7. PICK c \in BOOLEAN : c = clean BY <1>3
<1>8. /\ run'[h] \in PushRun /\ Alike(r, run'[h])
      /\ run'[h].at = "post" /\ run'[h].edition = r.edition
      /\ ~run'[h].first /\ run'[h].alone = r.alone /\ run'[h].rest = rest
      /\ run'[h].clean = c
      /\ \A g \in Handlers \ {h} : run'[g] = run[g]
  <2> HIDE DEF t, strict, safe
  <2>1. DOMAIN run = Handlers BY Push DEF PushLabels, Busy
  <2>2. run'[h] = Retrying(r, rest, c) BY <1>7, <2>1 DEF Retrying
  <2>3. \A g \in Handlers \ {h} : run'[g] = run[g] BY <2>1
  <2>4. PICK s : s = run'[h] OBVIOUS
  <2> HIDE DEF clean, r
  <2>5. s = Retrying(r, rest, c) BY <2>2, <2>4
  <2>6. /\ s \in PushRun /\ Alike(r, s) /\ s.at = "post" /\ s.edition = r.edition
        /\ ~s.first /\ s.alone = r.alone /\ s.rest = rest /\ s.clean = c
    BY <1>1, <1>6, <2>5, Retried
  <2> QED BY <2>3, <2>4, <2>6
<1>9. run'[h].failed = r.failed /\ run'[h].todo = r.todo /\ Pushed(h)' = t
  BY <1>8 DEF Alike, Pushed
<1>10. Newer(h)' BY <1>8, <1>9 DEF Knows, Newer, PushLabels, Busy
<1>11. Explained(h)' BY <1>8, <1>9 DEF Knows, Explained, PushLabels, Busy, Barred, World
<1>12. faults = 0 /\ columns = 0 => c
  <2>1. schema = None \/ (schema \in Nat /\ schema <= columns) BY DEF Kinds
  <2>2. columns = 0 /\ schema # None => schema = 0 /\ r.edition = 0 BY <1>2, <2>1
  <2> QED BY <1>3, <1>4, <1>7, <2>2
<1>13. Climbing(h)'
  <2>1. c => OnLadder(h, run[h].rest, run[h].at)'
    BY <1>2, <1>5, <1>7, <1>8, <1>9, StaysOnLadder
  <2> HIDE DEF t, strict, safe, clean
  <2> QED BY <1>4, <1>8, <1>12, <2>1 DEF Climbing
<1> QED BY <1>8, <1>10, <1>11, <1>13 DEF Knows

(* Nothing is left to try: every attempt was refused, and without troubles   *)
(* and failures of others for its columns.                                  *)
LEMMA KnowsExhausted ==
    ASSUME Kinds, MirrorInv, NEW h \in Handlers, Knows(h), run[h].at = "rejected",
           \/ run[h].first /\ schema = None
           \/ run[h].first /\ Ladder(Pushed(h), run[h].edition, schema) = <<>>
           \/ ~run[h].first /\ run[h].rest = <<>>,
           faults = 0, columns = 0, run[h].alone
    PROVE  LET t == Pushed(h)
           IN  \A fill \in {ColumnsOf[t], Strict(t), Safe(t)} : Barred(t, fill)
<1> DEFINE r == run[h]
           t == Pushed(h)
<1>1. r \in PushRun BY Push DEF PushLabels, Busy
<1>2. r.edition \in Nat BY <1>1 DEF Knows, Newer, PushLabels, Busy, PushRun, Editions
<1>3. \A fill : Tried(h, fill) => Barred(t, fill) BY <1>2 DEF Tried
<1>4. schema # None /\ r.clean BY DEF Knows, Climbing
<1>5. CASE r.first
  <2>1. Ladder(t, r.edition, schema) = <<>> BY <1>4, <1>5
  <2> DEFINE full   == Attempt(r.edition, ColumnsOf[t])
             strict == Attempt(schema, Strict(t))
             safe   == Attempt(r.edition, Safe(t))
  <2>2. strict = full /\ safe = strict
    <3> HIDE DEF t
    <3>1. <<safe>> # <<>> /\ <<strict>> # <<>> /\ <<strict, safe>> # <<>> OBVIOUS
    <3> QED BY <2>1, <3>1, LadderOffers
  <2>3. Strict(t) = ColumnsOf[t] /\ Safe(t) = Strict(t) BY <2>2 DEF Attempt
  <2>4. Tried(h, ColumnsOf[t]) BY <1>4, <1>5 DEF Knows, Climbing
  <2> QED BY <1>3, <2>3, <2>4
<1>6. CASE ~r.first
  <2>1. r.rest = <<>> BY <1>6
  <2>2. \A x, y : <<x>> # <<>> /\ <<x, y>> # <<>> OBVIOUS
  <2>3. OnLadder(h, <<>>, "rejected") BY <1>4, <1>6, <2>1 DEF Knows, Climbing
  <2>4. Tried(h, ColumnsOf[t]) /\ Tried(h, Strict(t)) /\ Tried(h, Safe(t))
    BY <2>2, <2>3 DEF OnLadder
  <2> QED BY <1>3, <2>4
<1> QED BY <1>5, <1>6

-----------------------------------------------------------------------------
(* The steps, as far as what the handlers know and the rows show.           *)

KnowsInv == Kinds /\ (\A h \in Handlers : Knows(h)) /\ Full

LEMMA FullStays == ASSUME Full, rows' = rows, mood' = mood PROVE Full'
BY DEF Full, AsFull, Barred

LEMMA FullGrows ==
    ASSUME Kinds, MirrorInv, Full, NEW h \in Handlers, Knows(h), run[h].at = "post",
           Accepts(Pushed(h), Head(run[h].rest)), NEW error, AddRow(h, error), mood' = mood
    PROVE  Full'
<1> DEFINE r == run[h]
           t == Pushed(h)
           a == Head(r.rest)
           strict == Attempt(r.edition, Strict(t))
           safe == Attempt(r.edition, Safe(t))
           row == [task |-> t, filled |-> a.filled, clean |-> r.clean, error |-> error]
<1>1. rows' = Append(rows, row) BY DEF AddRow
<1>2. rows \in Seq(Elements(rows)) BY DEF MirrorInv, Board
<1>3. Elements(rows') = Elements(rows) \cup {row} BY <1>1, <1>2, AppendElements
<1>4. a.edition = columns /\ columns \in Nat BY DEF Accepts, Kinds
<1>5. ASSUME a.edition = r.edition, NEW fill, Tried(h, fill) PROVE Barred(t, fill)
  BY <1>4, <1>5 DEF Tried
<1>6. AsFull(row)
  <2> SUFFICES ASSUME r.clean, NEW fill \in {ColumnsOf[t], Strict(t)}
               PROVE  fill \subseteq a.filled \/ Barred(t, fill)
    BY DEF AsFull
  <2>1. CASE r.first
    <3>1. r.rest = <<Attempt(r.edition, ColumnsOf[t])>> BY <2>1 DEF Knows, Climbing
    <3>2. a = Attempt(r.edition, ColumnsOf[t]) BY <3>1
    <3>3. a.filled = ColumnsOf[t] BY <3>2 DEF Attempt
    <3> QED BY <3>3 DEF Strict
  <2>2. CASE ~r.first
    <3>1. OnLadder(h, r.rest, "post") BY <2>2 DEF Knows, Climbing
    <3>2. /\ Tried(h, ColumnsOf[t])
          /\ \/ r.rest = <<safe>> /\ Tried(h, Strict(t))
             \/ r.rest = <<strict>>
             \/ r.rest = <<strict, safe>>
      BY <3>1 DEF OnLadder
    <3>3. (a = safe /\ Tried(h, Strict(t))) \/ a = strict
      <4>1. \A x, y : Head(<<x>>) = x /\ Head(<<x, y>>) = x OBVIOUS
      <4> QED BY <3>2, <4>1
    <3>4. safe.edition = r.edition /\ strict.edition = r.edition /\ strict.filled = Strict(t)
      BY DEF Attempt
    <3>5. Barred(t, ColumnsOf[t]) BY <1>5, <3>2, <3>3, <3>4
    <3>6. Barred(t, Strict(t)) \/ a.filled = Strict(t) BY <1>5, <3>3, <3>4
    <3> QED BY <3>5, <3>6
  <2> QED BY <2>1, <2>2
<1>7. \A x \in Elements(rows) : AsFull(x) BY DEF Full, Elements
<1>8. \A x \in Elements(rows') : AsFull(x)' BY <1>3, <1>6, <1>7 DEF AsFull, Barred
<1> QED BY <1>8 DEF Full, Elements

(* One handler moves, and the others wait.                                  *)
LEMMA OneMoves ==
    ASSUME KnowsInv, World, MirrorInv', Full', NEW h \in Handlers, Knows(h)',
           run'[h].at \in PushLabels => run'[h] \in PushRun,
           run'[h].at \in Fresh => run'[h].first /\ run'[h].alone /\ run'[h].clean,
           \A g \in Handlers \ {h} : Waits(g)
    PROVE  KnowsInv'
<1>1. \A g \in Handlers \ {h} : Knows(g)' BY StaysKnown DEF KnowsInv
<1>2. \A g \in Handlers :
         /\ run'[g].at \in PushLabels => run'[g] \in PushRun
         /\ run'[g].at \in Fresh => run'[g].first /\ run'[g].alone /\ run'[g].clean
  BY DEF Waits, KnowsInv, Kinds, PushLabels, Busy, Fresh
<1>3. \A g \in Handlers : run'[g].at \in Busy => run'[g].todo # <<>>
  BY DEF MirrorInv, Job, Busy
<1>4. Kinds' BY <1>2, <1>3 DEF Kinds, World
<1> QED BY <1>1, <1>4 DEF KnowsInv

LEMMA OneMovesAlone ==
    ASSUME KnowsInv, World, MirrorInv', Full', NEW h \in Handlers, Knows(h)',
           run'[h].at \in PushLabels => run'[h] \in PushRun,
           run'[h].at \in Fresh => run'[h].first /\ run'[h].alone /\ run'[h].clean,
           schema # None => schema' # None,
           \A g \in Handlers \ {h} : run'[g] = run[g]
    PROVE  KnowsInv'
<1>1. \A g \in Handlers \ {h} : Waits(g) BY LeftAlone DEF KnowsInv
<1> QED BY <1>1, OneMoves

LEMMA PostHolds ==
    ASSUME NEW h \in Handlers, Knows(h), run[h].at = "post"
    PROVE  run[h].rest # <<>>
BY DEF Knows, Climbing

LEMMA SameWorld ==
    ASSUME Kinds, UNCHANGED <<columns, mood, schema, late>>, faults' \in Nat, faults <= faults'
    PROVE  World
BY DEF Kinds, World

LEMMA KnowsPush ==
    ASSUME MirrorInv, MirrorInv', KnowsInv, NEW h \in Handlers, PushStep(h)
    PROVE  KnowsInv'
<1> DEFINE r == run[h]
           t == Pushed(h)
<1>0. /\ Kinds /\ Knows(h) /\ Full /\ columns \in Nat /\ faults \in Nat /\ late \in Nat
      /\ DOMAIN run = Handlers
  BY DEF KnowsInv, Kinds, MirrorInv, Sets
<1>1. ASSUME r.at \in Busy, Fails(h), columns' = columns, mood' = mood, late' = late, Full',
             faults' \in Nat, faults <= faults',
             faults' = 0 /\ columns = 0 /\ r.alone =>
                 \A fill \in {ColumnsOf[t], Strict(t), Safe(t)} : Barred(t, fill)
      PROVE  KnowsInv'
  <2>1. World BY <1>0, <1>1 DEF World, Fails
  <2>2. Knows(h)' BY <1>0, <1>1, <2>1, KnowsFailure
  <2>3. /\ run'[h] \in PushRun /\ run'[h].at = "next"
        /\ run'[h].first /\ run'[h].alone /\ run'[h].clean
        /\ \A g \in Handlers \ {h} : run'[g] = Told(run[g])
    BY <1>0, <1>1, FailsMoves
  <2>4. \A g \in Handlers \ {h} : Waits(g) BY <1>0, <2>3, ToldOfFailure
  <2> QED BY <1>1, <2>1, <2>2, <2>3, <2>4, OneMoves
<1>2. CASE ReadNames(h)
  <2>1. /\ UNCHANGED <<rows, columns, mood, schema, late>> /\ r.at = "names"
        /\ faults' \in Nat /\ faults <= faults'
    BY <1>0, <1>2 DEF ReadNames, Fault, notion
  <2>2. World /\ Full' BY <1>0, <2>1, FullStays, SameWorld
  <2>3. /\ run'[h] \in PushRun /\ run'[h].at \in {"next", "pushed"}
        /\ run'[h].first /\ run'[h].alone /\ run'[h].clean
        /\ run'[h].failed = r.failed /\ \A g \in Handlers \ {h} : run'[g] = run[g]
    BY <1>0, <1>2, NamesMoves
  <2>4. Knows(h)' BY <1>0, <2>1, <2>2, <2>3, KnowsCalm DEF PushLabels, Busy
  <2> QED BY <2>1, <2>2, <2>3, <2>4, OneMovesAlone
<1>3. CASE PushTask(h)
  <2>1. UNCHANGED <<rows, columns, mood, schema, late, faults>> BY <1>3 DEF PushTask, notion
  <2>2. World /\ Full' BY <1>0, <2>1, FullStays, SameWorld
  <2>3. Knows(h)' BY <1>0, <1>3, <2>2, KnowsTask
  <2>4. /\ run'[h] \in PushRun
        /\ run'[h].first = TRUE /\ run'[h].alone = TRUE /\ run'[h].clean = TRUE
        /\ \A g \in Handlers \ {h} : run'[g] = run[g]
    BY <1>0, <1>3, TaskMoves
  <2> QED BY <2>1, <2>2, <2>3, <2>4, OneMovesAlone
<1>4. CASE AskSchema(h)
  <2>1. UNCHANGED <<rows, columns, mood, late>> /\ r.at = "fetch" BY <1>4 DEF AskSchema, notion
  <2>2. Full' BY <1>0, <2>1, FullStays
  <2>3. CASE Fault /\ Fails(h)
    <3>1. faults' \in Nat /\ faults <= faults' /\ faults' # 0 BY <1>0, <2>3 DEF Fault
    <3> QED BY <1>1, <2>1, <2>2, <2>3, <3>1 DEF Busy
  <2>4. CASE /\ run' = [run EXCEPT ![h].at = "answered", ![h].edition = columns]
             /\ UNCHANGED <<schema, faults>>
    <3>1. World BY <1>0, <2>1, <2>4, SameWorld
    <3>2. Knows(h)' BY <1>0, <2>1, <2>4, <3>1, KnowsAnswer
    <3>3. /\ run'[h] \in PushRun
          /\ run'[h].first /\ run'[h].alone /\ run'[h].clean
          /\ \A g \in Handlers \ {h} : run'[g] = run[g]
      BY <1>0, <2>1, <2>4, AskMoves
    <3> QED BY <2>2, <2>4, <3>1, <3>2, <3>3, OneMovesAlone
  <2> QED BY <1>4, <2>3, <2>4 DEF AskSchema
<1>5. CASE KeepSchema(h)
  <2>1. /\ UNCHANGED <<rows, columns, mood, faults>> /\ r.at = "answered"
        /\ schema' = r.edition /\ late' = IF r.edition = columns THEN late ELSE late + 1
    BY <1>5 DEF KeepSchema, notion
  <2>2. Full' BY <1>0, <2>1, FullStays
  <2>3. r.edition \in Nat /\ r.edition <= columns /\ r.edition # None
    BY <1>0, <2>1 DEF Kinds, Knows, Newer, PushRun, PushLabels, Busy, Editions
  <2>4. World
    <3>1. late' \in Nat /\ late <= late' /\ (late' = late => r.edition = columns)
      BY <1>0, <2>1
    <3> QED BY <1>0, <2>1, <2>3, <3>1 DEF World
  <2>5. Knows(h)' BY <1>0, <1>5, <2>4, KnowsSchema
  <2>6. /\ run'[h] \in PushRun /\ run'[h].at = "post"
        /\ \A g \in Handlers \ {h} : run'[g] = run[g]
    BY <1>0, <1>5, KeepMoves
  <2> QED BY <2>1, <2>2, <2>3, <2>4, <2>5, <2>6, OneMovesAlone DEF Fresh
<1>6. ASSUME r.at = "post", NEW clean \in BOOLEAN, Rejected(h, clean), Full',
             UNCHANGED <<columns, mood, schema, late>>, faults' \in Nat, faults <= faults',
             \/ clean = r.clean /\ ~Accepts(t, Head(r.rest))
             \/ clean = FALSE /\ faults' # 0
      PROVE  KnowsInv'
  <2>1. World BY <1>0, <1>6, SameWorld
  <2>2. Knows(h)' BY <1>0, <1>6, <2>1, KnowsRefused
  <2>3. r.rest # <<>> BY <1>0, <1>6, PostHolds
  <2>4. /\ run'[h] \in PushRun /\ run'[h].at = "rejected"
        /\ \A g \in Handlers \ {h} : run'[g] = run[g]
    BY <1>0, <1>6, <2>3, RefusedMoves
  <2> QED BY <1>6, <2>1, <2>2, <2>4, OneMovesAlone DEF Fresh
<1>7. CASE PostRow(h)
  <2>1. UNCHANGED <<columns, mood, late, faults>> /\ r.at = "post" BY <1>7 DEF PostRow
  <2>2. CASE Accepts(t, Head(r.rest))
    <3>1. AddRow(h, FALSE) /\ Succeeds(h) BY <1>7, <2>2 DEF PostRow
    <3>2. World /\ schema' = schema BY <1>0, <2>1, <3>1, SameWorld DEF Succeeds
    <3>3. Full' BY <1>0, <2>1, <2>2, <3>1, FullGrows
    <3>4. /\ run'[h] \in PushRun /\ run'[h].at = "next" /\ run'[h].failed = r.failed
          /\ run'[h].first /\ run'[h].alone /\ run'[h].clean
          /\ \A g \in Handlers \ {h} : run'[g] = run[g]
      BY <1>0, <2>1, <3>1, SucceedsMoves DEF Busy
    <3>5. Knows(h)' BY <1>0, <2>1, <3>2, <3>4, KnowsCalm DEF PushLabels, Busy
    <3> QED BY <3>2, <3>3, <3>4, <3>5, OneMovesAlone
  <2>3. CASE ~Accepts(t, Head(r.rest))
    <3>1. Rejected(h, r.clean) /\ UNCHANGED <<rows, schema>> BY <1>7, <2>3 DEF PostRow
    <3>2. Full' BY <1>0, <2>1, <3>1, FullStays
    <3>3. r.clean \in BOOLEAN BY <1>0, <2>1 DEF Kinds, PushLabels, Busy, PushRun
    <3>4. faults' \in Nat /\ faults <= faults' BY <1>0, <2>1
    <3> QED BY <1>6, <2>1, <2>3, <3>1, <3>2, <3>3, <3>4
  <2> QED BY <2>2, <2>3
<1>8. CASE PostError(h)
  <2>1. /\ UNCHANGED <<columns, mood, schema, late>> /\ r.at = "post" /\ Rejected(h, FALSE)
        /\ rows' = rows \/ (Accepts(t, Head(r.rest)) /\ AddRow(h, TRUE))
        /\ faults' = faults + 1
    <3>1. \/ UNCHANGED rows
          \/ Accepts(Pushed(h), Head(run[h].rest)) /\ AddRow(h, TRUE)
      BY <1>8 DEF PostError
    <3>2. faults' = faults + 1 BY <1>8 DEF PostError, Fault
    <3> QED BY <1>8, <3>1, <3>2 DEF PostError
  <2>2. Full' BY <1>0, <2>1, FullStays, FullGrows
  <2>3. faults' \in Nat /\ faults <= faults' /\ faults' # 0 BY <1>0, <2>1
  <2> QED BY <1>6, <2>1, <2>2, <2>3
<1>9. CASE PostLost(h)
  <2>1. /\ UNCHANGED <<columns, mood, late>> /\ r.at = "post" /\ Fails(h)
        /\ rows' = rows \/ (Accepts(t, Head(r.rest)) /\ AddRow(h, FALSE))
        /\ faults' = faults + 1
    <3>1. \/ UNCHANGED rows
          \/ Accepts(Pushed(h), Head(run[h].rest)) /\ AddRow(h, FALSE)
      BY <1>9 DEF PostLost
    <3>2. faults' = faults + 1 BY <1>9 DEF PostLost, Fault
    <3> QED BY <1>9, <3>1, <3>2 DEF PostLost
  <2>2. Full' BY <1>0, <2>1, FullStays, FullGrows
  <2>3. faults' \in Nat /\ faults <= faults' /\ faults' # 0 BY <1>0, <2>1
  <2> QED BY <1>1, <2>1, <2>2, <2>3 DEF Busy
<1>10. CASE Retry(h)
  <2> DEFINE rest == IF r.first THEN Ladder(t, r.edition, schema) ELSE r.rest
  <2>1. /\ UNCHANGED <<rows, columns, mood, late, faults>> /\ r.at = "rejected"
        /\ IF (r.first /\ schema = None) \/ rest = <<>>
           THEN Fails(h)
           ELSE /\ run' = [run EXCEPT ![h].at = "post", ![h].rest = rest, ![h].first = FALSE,
                                      ![h].clean = SameSchema(h)]
                /\ schema' = schema
    BY <1>10 DEF Retry, notion
  <2>2. Full' BY <1>0, <2>1, FullStays
  <2>3. CASE (r.first /\ schema = None) \/ rest = <<>>
    <3>1. faults' = 0 /\ columns = 0 /\ r.alone =>
              \A fill \in {ColumnsOf[t], Strict(t), Safe(t)} : Barred(t, fill)
      BY <1>0, <2>1, <2>3, KnowsExhausted
    <3>2. Fails(h) BY <2>1, <2>3
    <3> QED BY <1>0, <1>1, <2>1, <2>2, <3>1, <3>2 DEF Busy
  <2>4. CASE ~((r.first /\ schema = None) \/ rest = <<>>)
    <3>1. /\ run' = [run EXCEPT ![h].at = "post", ![h].rest = rest, ![h].first = FALSE,
                                ![h].clean = SameSchema(h)]
          /\ schema' = schema
      BY <2>1, <2>4
    <3>2. World BY <1>0, <2>1, <3>1, SameWorld
    <3>3. rest # <<>> /\ (r.first => schema # None) BY <2>4
    <3>4. /\ Knows(h)' /\ run'[h] \in PushRun /\ run'[h].at = "post"
          /\ \A g \in Handlers \ {h} : run'[g] = run[g]
      <4>1. \E x : x = rest OBVIOUS
      <4> HIDE DEF t
      <4> QED BY <1>0, <2>1, <3>1, <3>2, <3>3, KnowsRetry DEF t
    <3> QED BY <2>2, <3>1, <3>2, <3>4, OneMovesAlone DEF Fresh
  <2> QED BY <2>3, <2>4
<1>11. CASE PushedAll(h) \/ BreakOff(h)
  <2>1. /\ UNCHANGED <<rows, columns, mood, schema, late>> /\ r.at = "next"
        /\ faults' \in Nat /\ faults <= faults'
    BY <1>0, <1>11 DEF PushedAll, BreakOff, Fault, notion
  <2>2. World /\ Full' BY <1>0, <2>1, FullStays, SameWorld
  <2>3. /\ run'[h] \in PushRun /\ run'[h].at = "pushed" /\ run'[h].failed = r.failed
        /\ \A g \in Handlers \ {h} : run'[g] = run[g]
    BY <1>0, <1>11, AllMoves DEF Alike
  <2>4. Knows(h)' BY <1>0, <2>1, <2>2, <2>3, KnowsCalm DEF PushLabels, Busy
  <2> QED BY <2>1, <2>2, <2>3, <2>4, OneMovesAlone DEF Fresh
<1>12. CASE Reply(h)
  <2>1. UNCHANGED <<rows, columns, mood, schema, late, faults>> BY <1>12 DEF Reply, notion
  <2>2. World /\ Full' BY <1>0, <2>1, FullStays, SameWorld
  <2>3. run'[h] = Idle /\ \A g \in Handlers \ {h} : run'[g] = run[g]
    BY <1>0, <1>12 DEF Reply, Ends
  <2>4. run'[h].at = "idle" BY <2>3 DEF Idle
  <2>5. Knows(h)' BY <1>0, <2>2, <2>4, KnowsCalm DEF PushLabels, Busy
  <2> QED BY <2>1, <2>2, <2>3, <2>4, <2>5, OneMovesAlone DEF PushLabels, Busy, Fresh
<1> QED BY <1>2, <1>3, <1>4, <1>5, <1>7, <1>8, <1>9, <1>10, <1>11, <1>12 DEF PushStep

(* Cards and ticks leave the pushes alone.                                  *)
LEMMA NotPushing ==
    ASSUME MirrorInv, NEW h \in Handlers,
           \/ CardStep(h) \/ TickStep(h)
           \/ \E p \in Projects : AddProject(h, p)
           \/ \E t \in Tasks : MarkTaskDone(h, t)
    PROVE  /\ run[h].at \notin PushLabels /\ run'[h].at \notin PushLabels
           /\ UNCHANGED <<rows, columns, mood, schema, late, wanted>>
           /\ faults' = faults \/ faults' = faults + 1
           /\ \A g \in Handlers \ {h} : run'[g] = run[g]
<1>0. "at" \in DOMAIN run[h] /\ DOMAIN run = Handlers BY DEF MirrorInv, Job, Sets
<1>1. CASE ResolveParent(h) \/ KeepParent(h) \/ CreateCard(h)
  BY <1>0, <1>1
  DEF ResolveParent, KeepParent, CreateCard, Fault, Ends, Idle, PushLabels, Busy, db, notion
<1>2. CASE CardLost(h) \/ SetProjectNotionPage(h)
  BY <1>0, <1>2
  DEF CardLost, SetProjectNotionPage, Fault, Ends, Idle, PushLabels, Busy, db, notion
<1>3. CASE FindCard(h)
  <2>1. /\ run[h].at = "lookup" /\ UNCHANGED <<rows, columns, mood, schema, late, wanted, faults>>
    BY <1>3 DEF FindCard, db, notion
  <2>2. CASE run' = [run EXCEPT ![h].at = "marked"]
    BY <1>0, <2>1, <2>2 DEF PushLabels, Busy
  <2>3. ASSUME NEW p \in Same(run[h].task),
               run' = [run EXCEPT ![h] = IF page[p] = None THEN [run[h] EXCEPT !.at = "marked"]
                                         ELSE [at |-> "children", task |-> run[h].task,
                                               then |-> run[h].then, card |-> page[p]]]
        PROVE  run'[h].at \notin PushLabels /\ \A g \in Handlers \ {h} : run'[g] = run[g]
    <3>1. run'[h] = IF page[p] = None THEN [run[h] EXCEPT !.at = "marked"]
                    ELSE [at |-> "children", task |-> run[h].task,
                          then |-> run[h].then, card |-> page[p]]
      BY <1>0, <2>3
    <3>2. run'[h].at \in {"marked", "children"} BY <1>0, <3>1
    <3> QED BY <1>0, <2>3, <3>2 DEF PushLabels, Busy
  <2> QED BY <1>3, <2>1, <2>2, <2>3 DEF FindCard, PushLabels, Busy
<1>4. CASE FindTodo(h) \/ TickTodo(h) \/ Marked(h)
  BY <1>0, <1>4 DEF FindTodo, TickTodo, Marked, Fault, Ends, Idle, PushLabels, Busy, db, notion
<1>5. CASE \E p \in Projects : AddProject(h, p)
  BY <1>0, <1>5 DEF AddProject, Idle, PushLabels, Busy, notion
<1>6. CASE \E t \in Tasks : MarkTaskDone(h, t)
  BY <1>0, <1>6 DEF MarkTaskDone, Idle, PushLabels, Busy, notion
<1> QED BY <1>1, <1>2, <1>3, <1>4, <1>5, <1>6 DEF CardStep, TickStep

LEMMA CommitMoves ==
    ASSUME MirrorInv, NEW h \in Handlers, NEW p \in Projects, CommitPlan(h, p)
    PROVE  /\ run'[h] \in PushRun /\ run'[h].at = "names" /\ run'[h].kind = "commit"
           /\ run'[h].todo = PlanOf[p] /\ run'[h].ok = 0 /\ run'[h].total = 0
           /\ run'[h].failed = {} /\ run'[h].first /\ run'[h].alone /\ run'[h].clean
           /\ UNCHANGED <<rows, columns, mood, schema, late, faults>>
           /\ \A g \in Handlers \ {h} : run'[g] = run[g]
<1>1. DOMAIN run = Handlers /\ PlanOf[p] \in Seq(Tasks)
  BY MirrorAssumption DEF MirrorInv, Sets
<1>2. /\ run' = [run EXCEPT ![h] = [Pushing("commit", PlanOf[p]) EXCEPT !.at = "names",
                                                                      !.total = 0]]
      /\ UNCHANGED <<rows, columns, mood, schema, late, faults>>
  BY DEF CommitPlan, notion
<1>3. run'[h] = [Pushing("commit", PlanOf[p]) EXCEPT !.at = "names", !.total = 0] BY <1>1, <1>2
<1>4. run'[h] \in PushRun BY <1>1, <1>3, Starting
<1>5. /\ run'[h].at = "names" /\ run'[h].kind = "commit" /\ run'[h].todo = PlanOf[p]
      /\ run'[h].ok = 0 /\ run'[h].total = 0 /\ run'[h].failed = {}
      /\ run'[h].first = TRUE /\ run'[h].alone = TRUE /\ run'[h].clean = TRUE
  BY <1>3 DEF Pushing
<1> QED BY <1>1, <1>2, <1>4, <1>5

LEMMA CaptureMoves ==
    ASSUME MirrorInv, NEW h \in Handlers, NEW t \in Tasks, CaptureTask(h, t)
    PROVE  /\ run'[h] \in PushRun /\ run'[h].at = "next" /\ run'[h].kind = "capture"
           /\ run'[h].todo = <<t>> /\ run'[h].failed = {}
           /\ run'[h].first /\ run'[h].alone /\ run'[h].clean
           /\ UNCHANGED <<rows, columns, mood, schema, late, faults>>
           /\ \A g \in Handlers \ {h} : run'[g] = run[g]
<1>1. DOMAIN run = Handlers /\ <<t>> \in Seq(Tasks) BY DEF MirrorInv, Sets
<1>2. /\ run' = [run EXCEPT ![h] = Pushing("capture", <<t>>)]
      /\ UNCHANGED <<rows, columns, mood, schema, late, faults>>
  BY DEF CaptureTask, notion
<1>3. run'[h] = Pushing("capture", <<t>>) BY <1>1, <1>2
<1>4. run'[h] \in PushRun BY <1>1, <1>3, Starting
<1>5. /\ run'[h].at = "next" /\ run'[h].kind = "capture" /\ run'[h].todo = <<t>>
      /\ run'[h].failed = {}
      /\ run'[h].first = TRUE /\ run'[h].alone = TRUE /\ run'[h].clean = TRUE
  BY <1>3 DEF Pushing
<1> QED BY <1>1, <1>2, <1>4, <1>5

LEMMA KnowsRest ==
    ASSUME MirrorInv, MirrorInv', KnowsInv,
           \/ EditBoard \/ Crash \/ UNCHANGED vars
           \/ \E h \in Handlers : CardStep(h) \/ TickStep(h) \/ Begin(h)
    PROVE  KnowsInv'
<1>0. /\ Kinds /\ Full /\ columns \in Nat /\ faults \in Nat /\ DOMAIN run = Handlers
      /\ \A h \in Handlers : Knows(h)
  BY DEF KnowsInv, Kinds, MirrorInv, Sets
<1>1. ASSUME NEW h \in Handlers, UNCHANGED <<rows, columns, mood, schema, late>>,
             faults' = faults \/ faults' = faults + 1, run'[h].at \notin Busy,
             run'[h].at \in PushLabels =>
                 /\ run'[h] \in PushRun /\ run'[h].failed = {}
                 /\ run'[h].first /\ run'[h].alone /\ run'[h].clean,
             \A g \in Handlers \ {h} : run'[g] = run[g]
      PROVE  KnowsInv'
  <2>1. World /\ Full' BY <1>0, <1>1, FullStays, SameWorld
  <2>2. Knows(h)' BY <1>0, <1>1, <2>1, KnowsCalm
  <2> QED BY <1>1, <2>1, <2>2, OneMovesAlone DEF PushLabels, Busy, Fresh
<1>2. CASE \E h \in Handlers :
              \/ CardStep(h) \/ TickStep(h)
              \/ \E p \in Projects : AddProject(h, p)
              \/ \E t \in Tasks : MarkTaskDone(h, t)
  BY <1>1, <1>2, NotPushing DEF PushLabels
<1>3. CASE \E h \in Handlers, p \in Projects : CommitPlan(h, p)
  BY <1>1, <1>3, CommitMoves DEF Busy
<1>4. CASE \E h \in Handlers, t \in Tasks : CaptureTask(h, t)
  BY <1>1, <1>4, CaptureMoves DEF Busy
<1>5. CASE EditBoard \/ UNCHANGED vars
  <2>1. /\ UNCHANGED <<rows, mood, schema, late, run, faults>>
        /\ columns' = columns \/ columns' = columns + 1
    BY <1>5 DEF EditBoard, vars, notion
  <2>2. columns' \in Nat /\ columns <= columns' BY <1>0, <2>1
  <2>3. World /\ Full' BY <1>0, <2>1, <2>2, FullStays DEF World, Kinds
  <2>4. \A g \in Handlers : Waits(g) BY <1>0, <2>1, LeftAlone
  <2>5. \A g \in Handlers : Knows(g)' BY <1>0, <2>3, <2>4, StaysKnown
  <2>6. Kinds' BY <1>0, <2>1, <2>3 DEF Kinds, World
  <2> QED BY <2>3, <2>5, <2>6 DEF KnowsInv
<1>6. CASE Crash
  <2>1. /\ UNCHANGED <<rows, mood, columns, late>> /\ schema' = None /\ faults' = faults + 1
        /\ run' = [h \in Handlers |-> Idle]
    BY <1>6 DEF Crash, Fault, notion
  <2>2. World /\ Full' BY <1>0, <2>1, FullStays DEF World, Kinds
  <2>3. \A h \in Handlers : run'[h].at = "idle" BY <2>1 DEF Idle
  <2>4. \A h \in Handlers : Knows(h)'
    BY <1>0, <2>2, <2>3, KnowsCalm DEF PushLabels, Busy
  <2>5. Kinds' BY <1>0, <2>1, <2>3 DEF Kinds, PushLabels, Busy, Fresh
  <2> QED BY <2>2, <2>4, <2>5 DEF KnowsInv
<1>7. ASSUME NEW h \in Handlers, Begin(h)
      PROVE  \/ \E p \in Projects : AddProject(h, p) \/ CommitPlan(h, p)
             \/ \E t \in Tasks : CaptureTask(h, t) \/ MarkTaskDone(h, t)
  BY <1>7 DEF Begin
<1> QED BY <1>2, <1>3, <1>4, <1>5, <1>6, <1>7

LEMMA KnowsInit == Init => KnowsInv
<1> SUFFICES ASSUME Init PROVE KnowsInv OBVIOUS
<1>1. /\ rows = <<>> /\ schema = None /\ columns = 0 /\ faults = 0 /\ late = 0
      /\ \A h \in Handlers : run[h].at = "idle"
  BY DEF Init, Idle
<1>2. Kinds BY <1>1 DEF Kinds, PushLabels, Busy, Fresh
<1>3. \A h \in Handlers : Knows(h)
  BY <1>1 DEF Knows, Newer, Climbing, Explained, PushLabels, Busy
<1>4. Full BY <1>1 DEF Full
<1> QED BY <1>2, <1>3, <1>4 DEF KnowsInv

THEOREM KnowsHolds == Spec => []KnowsInv
<1>1. MirrorInv /\ MirrorInv' /\ KnowsInv /\ [Next]_vars => KnowsInv'
  <2> SUFFICES ASSUME MirrorInv, MirrorInv', KnowsInv, [Next]_vars PROVE KnowsInv' OBVIOUS
  <2>1. CASE \E h \in Handlers : PushStep(h)
    BY <2>1, KnowsPush
  <2>2. CASE \/ EditBoard \/ Crash \/ UNCHANGED vars
             \/ \E h \in Handlers : CardStep(h) \/ TickStep(h) \/ Begin(h)
    BY <2>2, KnowsRest
  <2> QED BY <2>1, <2>2 DEF Next, Step, PushStep, CardStep, TickStep, Begin
<1> QED BY <1>1, KnowsInit, MirrorHolds, PTL DEF Spec

(* An edit of the board's columns costs a handler one push, and one more for *)
(* every answer that was asked for before the edit and kept after it: two    *)
(* pushes of one handler fail for the same outdated schema only if it was    *)
(* kept late between them (push_task forgets it on a failure).               *)
THEOREM StaleSchemaFailsOnce == Spec => []StaleOnce
<1>1. KnowsInv => StaleOnce
  BY DEF KnowsInv, Knows, Newer, Apart, StaleOnce, PushLabels, Busy
<1> QED BY <1>1, KnowsHolds, PTL

-----------------------------------------------------------------------------
(* Which tasks have a row, and which are still to be pushed.                *)

LEMMA RowAdded ==
    ASSUME MirrorInv, NEW h \in Handlers, NEW error, AddRow(h, error)
    PROVE  /\ \A t : RowsOf(t)' = {} <=> RowsOf(t) = {} /\ t # Pushed(h)
           /\ \A t : (t # Pushed(h) \/ error = TRUE) /\ Unanswered(t) => Unanswered(t)'
           /\ OneRow /\ Unanswered(Pushed(h)) => OneRow'
           /\ \A i \in DOMAIN rows' :
                  \/ rows'[i].task = Pushed(h)
                  \/ \E j \in DOMAIN rows : rows'[i].task = rows[j].task
<1> DEFINE n == Len(rows)
<1>1. PICK e : rows' = Append(rows, e) /\ e.task = Pushed(h) /\ e.error = error BY DEF AddRow
<1>2. rows \in Seq(Elements(rows)) BY DEF MirrorInv, Board
<1>3. rows \in Seq(Elements(rows) \cup {e}) BY <1>2, SeqGrows
<1>4. /\ Len(rows') = n + 1 /\ n \in Nat
      /\ \A i \in 1..n : rows'[i] = rows[i]
      /\ rows'[n + 1] = e
      /\ rows' \in Seq(Elements(rows) \cup {e})
  BY <1>1, <1>3, AppendProperties
<1>5. DOMAIN rows = 1..n /\ DOMAIN rows' = 1..(n + 1) BY <1>2, <1>4
<1>6. DOMAIN rows' = DOMAIN rows \cup {n + 1} /\ n + 1 \notin DOMAIN rows BY <1>4, <1>5
<1> HIDE DEF n
<1>7. \A i \in DOMAIN rows : rows'[i] = rows[i] BY <1>4, <1>5
<1>8. \A t : RowsOf(t)' = {} <=> RowsOf(t) = {} /\ t # Pushed(h)
  BY <1>1, <1>4, <1>6, <1>7 DEF RowsOf
<1>9. OneRow /\ Unanswered(Pushed(h)) => OneRow'
  <2> SUFFICES ASSUME OneRow, Unanswered(Pushed(h)), NEW i \in DOMAIN rows',
                      NEW j \in DOMAIN rows', rows'[i].task = rows'[j].task, i < j
               PROVE  rows'[i].error
    BY DEF OneRow
  <2>1. i \in DOMAIN rows BY <1>4, <1>5, <1>6
  <2>2. CASE j \in DOMAIN rows BY <1>7, <2>1, <2>2 DEF OneRow
  <2>3. CASE j = n + 1 BY <1>1, <1>4, <1>7, <2>1, <2>3 DEF Unanswered, RowsOf
  <2> QED BY <1>6, <2>2, <2>3
<1>10. ASSUME NEW t, t # Pushed(h) \/ error = TRUE, Unanswered(t) PROVE Unanswered(t)'
  BY <1>1, <1>4, <1>6, <1>7, <1>10 DEF Unanswered, RowsOf
<1> QED BY <1>1, <1>4, <1>6, <1>7, <1>8, <1>9, <1>10

LEMMA DistinctTail ==
    ASSUME NEW r \in PushRun, r.todo # <<>>, Distinct(r.todo)
    PROVE  Distinct(Tail(r.todo)) /\ Head(r.todo) \notin Elements(Tail(r.todo))
<1>1. r.todo \in Seq(Tasks) BY DEF PushRun
<1>2. /\ Head(r.todo) = r.todo[1] /\ Len(r.todo) \in Nat /\ Len(r.todo) > 0
      /\ \A i \in 1..Len(Tail(r.todo)) : Tail(r.todo)[i] = r.todo[i + 1]
      /\ Len(Tail(r.todo)) = Len(r.todo) - 1 /\ Tail(r.todo) \in Seq(Tasks)
  BY <1>1, HeadTailProperties, EmptySeq
<1>3. DOMAIN r.todo = 1..Len(r.todo) /\ DOMAIN Tail(r.todo) = 1..(Len(r.todo) - 1)
  BY <1>1, <1>2
<1>4. ASSUME NEW i \in 1..(Len(r.todo) - 1)
      PROVE  i + 1 \in DOMAIN r.todo /\ 1 \in DOMAIN r.todo /\ i + 1 # 1
             /\ Tail(r.todo)[i] = r.todo[i + 1]
  BY <1>2, <1>3
<1>5. ASSUME NEW i \in DOMAIN Tail(r.todo), NEW j \in DOMAIN Tail(r.todo),
             Tail(r.todo)[i] = Tail(r.todo)[j]
      PROVE  i = j
  <2>1. r.todo[i + 1] = r.todo[j + 1] BY <1>3, <1>4, <1>5
  <2>2. i + 1 = j + 1 BY <1>3, <1>4, <2>1 DEF Distinct
  <2> QED BY <1>2, <1>3, <2>2
<1>6. Head(r.todo) \notin Elements(Tail(r.todo))
  BY <1>2, <1>3, <1>4 DEF Elements, Distinct
<1> QED BY <1>5, <1>6 DEF Distinct

(* A handler that keeps what it has to do.                                  *)
Rests(g) ==
    /\ run'[g].at = run[g].at
    /\ run[g].at \in PushLabels => Alike(run[g], run'[g])

LEMMA RestsIfTold ==
    ASSUME Kinds, NEW g \in Handlers, run'[g] = run[g] \/ run'[g] = Told(run[g])
    PROVE  Rests(g)
<1>1. CASE run'[g] = run[g] BY <1>1 DEF Rests, Alike
<1>2. CASE run'[g] = Told(run[g])
  <2>1. CASE run[g].at \in {"post", "rejected"}
    <3>1. run[g] \in PushRun BY <2>1 DEF Kinds, PushLabels, Busy
    <3>2. run'[g] = [run[g] EXCEPT !.alone = FALSE] BY <1>2, <2>1 DEF Told
    <3> QED BY <3>1, <3>2 DEF Rests, Alike, PushRun
  <2>2. CASE run[g].at \notin {"post", "rejected"} BY <1>1, <1>2, <2>2 DEF Told
  <2> QED BY <2>1, <2>2
<1> QED BY <1>1, <1>2

LEMMA RestsClaims ==
    ASSUME NEW g \in Handlers, Rests(g)
    PROVE  /\ Claims(g)' = Claims(g)
           /\ run'[g].at \in PushLabels => run[g].at \in PushLabels /\ run'[g].todo = run[g].todo
BY DEF Rests, Alike, Claims, Elements

(* One handler lets go of tasks, or takes on tasks that nobody wanted before. *)
LEMMA SingleKept ==
    ASSUME Single, NEW h \in Handlers, wanted \subseteq wanted', rows' = rows,
           \A g \in Handlers \ {h} : Rests(g),
           run'[h].at \in PushLabels => Distinct(run'[h].todo),
           \/ Claims(h)' \subseteq Claims(h)
           \/ Claims(h)' \cap wanted = {} /\ Claims(h)' \subseteq wanted'
    PROVE  Single'
<1>1. \A g \in Handlers \ {h} :
         /\ Claims(g)' = Claims(g)
         /\ run'[g].at \in PushLabels => run[g].at \in PushLabels /\ run'[g].todo = run[g].todo
  BY RestsClaims
<1>2. \A g \in Handlers : Claims(g) \subseteq wanted BY DEF Single
<1>3. \A g \in Handlers : run'[g].at \in PushLabels => Distinct(run'[g].todo)
  BY <1>1 DEF Single
<1>4. \A g \in Handlers : Claims(g)' \subseteq wanted' BY <1>1, <1>2
<1>5. \A f, g \in Handlers : f # g => Claims(f)' \cap Claims(g)' = {}
  <2>1. \A g \in Handlers \ {h} : Claims(h)' \cap Claims(g) = {} BY <1>2 DEF Single
  <2> QED BY <1>1, <2>1 DEF Single
<1>6. \A t : Unanswered(t)' <=> Unanswered(t) BY DEF Unanswered, RowsOf
<1>7. \A t : t \notin wanted => Unanswered(t) BY DEF Single, Unanswered, RowsOf
<1>8. \A g \in Handlers : \A t \in Claims(g)' : Unanswered(t)' BY <1>1, <1>6, <1>7 DEF Single
<1>9. OneRow' /\ \A i \in DOMAIN rows' : rows'[i].task \in wanted' BY DEF Single, OneRow
<1> QED BY <1>3, <1>4, <1>5, <1>8, <1>9 DEF Single

(* The row of a task is added, and unless its push still goes on, the task   *)
(* is done with.                                                            *)
LEMMA SingleGrows ==
    ASSUME Single, MirrorInv, NEW h \in Handlers, wanted' = wanted,
           \A g \in Handlers \ {h} : Rests(g),
           run'[h].at \in PushLabels => Distinct(run'[h].todo),
           NEW error, AddRow(h, error), Pushed(h) \in Claims(h), Claims(h)' \subseteq Claims(h),
           Pushed(h) \notin Claims(h)' \/ error = TRUE
    PROVE  Single'
<1> PICK t : t = Pushed(h) OBVIOUS
<1>1. \A g \in Handlers \ {h} :
         /\ Claims(g)' = Claims(g)
         /\ run'[g].at \in PushLabels => run[g].at \in PushLabels /\ run'[g].todo = run[g].todo
  BY RestsClaims
<1>2. \A g \in Handlers : Claims(g) \subseteq wanted BY DEF Single
<1>3. \A g \in Handlers : run'[g].at \in PushLabels => Distinct(run'[g].todo)
  BY <1>1 DEF Single
<1>4. \A g \in Handlers : Claims(g)' \subseteq Claims(g) BY <1>1
<1>5. \A f, g \in Handlers : f # g => Claims(f)' \cap Claims(g)' = {} BY <1>4 DEF Single
<1>6. \A g \in Handlers : t \in Claims(g)' => error = TRUE BY <1>1 DEF Single
<1>7. \A u : (u # t \/ error = TRUE) /\ Unanswered(u) => Unanswered(u)' BY RowAdded
<1>8. \A g \in Handlers : \A u \in Claims(g)' : Unanswered(u)' BY <1>4, <1>6, <1>7 DEF Single
<1>9. OneRow' BY RowAdded DEF Single
<1>10. \A i \in DOMAIN rows' : rows'[i].task \in wanted' BY <1>2, RowAdded DEF Single
<1> QED BY <1>2, <1>3, <1>4, <1>5, <1>8, <1>9, <1>10 DEF Single

(* A handler that rests still counts what is missing, for rows only come.   *)
LEMMA CountedKept ==
    ASSUME NEW g \in Handlers, Counted(g), Rests(g), faults \in Nat, faults' \in Nat,
           faults <= faults', \A t : RowsOf(t)' = {} => RowsOf(t) = {}
    PROVE  Counted(g)'
<1> SUFFICES ASSUME run[g].at \in PushLabels, run[g].kind = "commit" PROVE Counted(g)'
  BY DEF Counted, Rests, Alike
<1>1. /\ run'[g].at = run[g].at /\ run'[g].kind = run[g].kind /\ run'[g].todo = run[g].todo
      /\ run'[g].total = run[g].total /\ run'[g].ok = run[g].ok
  BY DEF Rests, Alike
<1>2. \A p : Missing(p)' \subseteq Missing(p) BY DEF Missing, Elements
<1>3. \A p, F : CountedBy(g, p, F) => CountedBy(g, p, F)' BY <1>1, <1>2 DEF CountedBy, Elements
<1>4. faults > 0 => faults' > 0 OBVIOUS
<1> QED BY <1>1, <1>3, <1>4 DEF Counted

Underway == {"next", "fetch", "answered", "post", "rejected"}

LEMMA CountedOn ==
    ASSUME NEW h \in Handlers, Counted(h), run[h].at \in Underway, Alike(run[h], run'[h]),
           run'[h].at \in Underway \cup {"pushed"}, \A t : RowsOf(t)' = {} => RowsOf(t) = {}
    PROVE  Counted(h)'
<1>1. /\ run'[h].kind = run[h].kind /\ run'[h].todo = run[h].todo
      /\ run'[h].total = run[h].total /\ run'[h].ok = run[h].ok
  BY DEF Alike
<1>2. \A p : Missing(p)' \subseteq Missing(p) BY DEF Missing, Elements
<1>3. \A p, F : CountedBy(h, p, F) => CountedBy(h, p, F)' BY <1>1, <1>2 DEF CountedBy, Elements
<1>4. run'[h].at # "names" /\ run[h].at \in PushLabels /\ run[h].at # "names"
  BY DEF Underway, PushLabels, Busy
<1>5. run[h].at # "pushed" BY DEF Underway
<1> QED BY <1>1, <1>3, <1>4, <1>5 DEF Counted

(* The task at the head is done with: it has its row, or failed.            *)
LEMMA CountedNext ==
    ASSUME Kinds, MirrorInv, NEW h \in Handlers, Counted(h), run[h].at \in Busy,
           run'[h].at = "next", run'[h].kind = run[h].kind, run'[h].total = run[h].total,
           run'[h].todo = Tail(run[h].todo), NEW t, t = Pushed(h),
           \A x : RowsOf(x)' = {} => RowsOf(x) = {},
           \/ run'[h].ok = run[h].ok
           \/ run'[h].ok = run[h].ok + 1 /\ RowsOf(t)' # {}
    PROVE  Counted(h)'
<1> DEFINE r == run[h]
<1> SUFFICES ASSUME r.kind = "commit" PROVE Counted(h)' BY DEF Counted
<1>1. r \in PushRun /\ r.todo # <<>> /\ t \in Tasks BY Push DEF Busy, PushLabels
<1>2. /\ Len(Tail(r.todo)) = Len(r.todo) - 1 /\ Len(r.todo) \in Nat
      /\ Elements(r.todo) = {t} \cup Elements(Tail(r.todo))
      /\ r.ok \in Nat /\ r.total \in Nat
  <2>1. /\ Len(Tail(r.todo)) = Len(r.todo) - 1
        /\ Elements(r.todo) = {t} \cup Elements(Tail(r.todo))
    BY <1>1, TaskAhead DEF Pushed
  <2>2. r.todo \in Seq(Tasks) /\ r.ok \in Nat /\ r.total \in Nat BY <1>1 DEF PushRun
  <2> QED BY <2>1, <2>2
<1>3. PICK p \in Projects, F \in SUBSET Tasks : CountedBy(h, p, F)
  BY DEF Counted, Busy, PushLabels
<1>4. r.total > 0 BY DEF Counted, Busy, PushLabels
<1>5. Missing(p)' \subseteq Missing(p) BY DEF Missing, Elements
<1>6. Cardinality(F) \in Nat /\ IsFiniteSet(F) /\ r.total = Len(PlanOf[p])
      /\ Missing(p) \subseteq Elements(r.todo) \cup F
      /\ Cardinality(F) + Len(r.todo) + r.ok <= r.total
  BY <1>3, FS_CardinalityType DEF CountedBy
<1> DEFINE todo == Tail(r.todo)
<1>7. ASSUME NEW G \in SUBSET Tasks, IsFiniteSet(G), Missing(p)' \subseteq Elements(todo) \cup G,
             Cardinality(G) + Len(todo) + run'[h].ok <= r.total
      PROVE  Counted(h)'
  <2>1. run'[h].todo = todo OBVIOUS
  <2>2. Missing(p)' \subseteq Elements(run'[h].todo) \cup G BY <1>7, <2>1
  <2> HIDE DEF todo
  <2>3. CountedBy(h, p, G)' BY <1>6, <1>7, <2>1, <2>2 DEF CountedBy, Elements
  <2> QED BY <1>4, <2>3 DEF Counted, PushLabels
<1>8. CASE run'[h].ok = r.ok + 1 /\ RowsOf(t)' # {}
  <2>1. t \notin Missing(p)' BY <1>8 DEF Missing
  <2>2. Missing(p)' \subseteq Elements(todo) \cup F BY <1>2, <1>5, <1>6, <2>1
  <2>3. Cardinality(F) + Len(todo) + run'[h].ok <= r.total BY <1>2, <1>6, <1>8
  <2> QED BY <1>6, <1>7, <2>2, <2>3
<1>9. CASE run'[h].ok = r.ok
  <2>1. IsFiniteSet(F \cup {t}) /\ Cardinality(F \cup {t}) \in Nat
        /\ Cardinality(F \cup {t}) <= Cardinality(F) + 1
    <3>1. IsFiniteSet(F \cup {t}) /\ Cardinality(F \cup {t}) \in Nat
          /\ (Cardinality(F \cup {t}) = Cardinality(F)
                 \/ Cardinality(F \cup {t}) = Cardinality(F) + 1)
      BY <1>6, FS_AddElement, FS_CardinalityType
    <3> QED BY <1>6, <3>1
  <2>2. Missing(p)' \subseteq Elements(todo) \cup (F \cup {t}) BY <1>2, <1>5, <1>6
  <2>3. Cardinality(F \cup {t}) + Len(todo) + run'[h].ok <= r.total
    <3> DEFINE k == Cardinality(F)  m == Cardinality(F \cup {t})
               n == Len(r.todo)  ok == r.ok  total == r.total
    <3>1. k \in Nat /\ m \in Nat /\ m <= k + 1 /\ n \in Nat /\ ok \in Nat /\ total \in Nat
          /\ k + n + ok <= total /\ Len(todo) = n - 1 /\ run'[h].ok = ok
      BY <1>2, <1>6, <1>9, <2>1
    <3> HIDE DEF k, m, n, ok, total
    <3>2. m + (n - 1) + ok <= total BY <3>1
    <3> QED BY <3>1, <3>2 DEF m, total
  <2>4. F \cup {t} \in SUBSET Tasks BY <1>1
  <2> QED BY <1>7, <2>1, <2>2, <2>3, <2>4
<1> QED BY <1>8, <1>9

LEMMA FewElements ==
    ASSUME NEW seq \in Seq(Tasks)
    PROVE  IsFiniteSet(Elements(seq)) /\ Cardinality(Elements(seq)) <= Len(seq)
<1>1. DOMAIN seq = 1..Len(seq) /\ Len(seq) \in Nat OBVIOUS
<1>2. IsFiniteSet(1..Len(seq)) /\ Cardinality(1..Len(seq)) = Len(seq) BY <1>1, FS_Interval
<1>3. \A i \in 1..Len(seq) : seq[i] \in Elements(seq) BY <1>1 DEF Elements
<1> DEFINE f == [i \in 1..Len(seq) |-> seq[i]]
<1>4. f \in Surjection(1..Len(seq), Elements(seq)) BY <1>1, <1>3 DEF Elements, Surjection
<1> QED BY <1>2, <1>4, FS_Surjection

CountsInv == Single /\ \A h \in Handlers : Counted(h)

LEMMA OneCounts ==
    ASSUME CountsInv, Kinds, MirrorInv, NEW h \in Handlers, Counted(h)', Single',
           faults' \in Nat, faults <= faults', \A t : RowsOf(t)' = {} => RowsOf(t) = {},
           \A g \in Handlers \ {h} : Rests(g)
    PROVE  CountsInv'
<1>1. \A g \in Handlers \ {h} : Counted(g)' BY CountedKept DEF CountsInv, Kinds
<1> QED BY <1>1 DEF CountsInv

LEMMA CountsPush ==
    ASSUME MirrorInv, KnowsInv, CountsInv, NEW h \in Handlers, PushStep(h)
    PROVE  CountsInv'
<1> DEFINE r == run[h]
<1> PICK t : t = Pushed(h) OBVIOUS
<1>0. /\ Kinds /\ Knows(h) /\ Single /\ Counted(h) /\ faults \in Nat /\ DOMAIN run = Handlers
      /\ \A g \in Handlers : run'[g] = run[g] => Rests(g)
  BY RestsIfTold DEF KnowsInv, CountsInv, Kinds, MirrorInv, Sets
<1>1. ASSUME r.at \in Busy
      PROVE  /\ r \in PushRun /\ r.todo # <<>> /\ Distinct(r.todo) /\ Claims(h) = Elements(r.todo)
             /\ Elements(r.todo) = {t} \cup Elements(Tail(r.todo))
             /\ Distinct(Tail(r.todo)) /\ t \notin Elements(Tail(r.todo))
  <2>1. r \in PushRun /\ r.todo # <<>> BY <1>0, <1>1, Push DEF Busy, PushLabels
  <2>2. Distinct(r.todo) /\ Claims(h) = Elements(r.todo)
    BY <1>0, <1>1 DEF Single, Claims, Busy, PushLabels
  <2> QED BY <2>1, <2>2, TaskAhead, DistinctTail DEF Pushed
(* The push is over, with or without a row.                                 *)
<1>2. ASSUME r.at \in Busy, Fails(h) \/ (Succeeds(h) /\ AddRow(h, FALSE)),
             rows' = rows \/ AddRow(h, FALSE), wanted' = wanted,
             faults' \in Nat, faults <= faults'
      PROVE  CountsInv'
  <2>1. /\ run'[h].at = "next" /\ run'[h].kind = r.kind /\ run'[h].todo = Tail(r.todo)
        /\ run'[h].total = r.total
        /\ run'[h].ok = r.ok \/ (run'[h].ok = r.ok + 1 /\ AddRow(h, FALSE))
        /\ \A g \in Handlers \ {h} : Rests(g)
    <3>1. CASE Fails(h) BY <1>0, <1>2, <3>1, FailsMoves, RestsIfTold
    <3>2. CASE Succeeds(h) /\ AddRow(h, FALSE) BY <1>0, <1>2, <3>2, SucceedsMoves
    <3> QED BY <1>2, <3>1, <3>2
  <2>2. \A x : RowsOf(x)' = {} => RowsOf(x) = {} BY <1>2, RowAdded DEF RowsOf
  <2>3. AddRow(h, FALSE) => RowsOf(t)' # {} BY RowAdded
  <2>4. Counted(h)' BY <1>0, <1>2, <2>1, <2>2, <2>3, CountedNext
  <2>5. Claims(h)' = Elements(Tail(r.todo)) BY <2>1 DEF Claims, PushLabels, Elements
  <2>6. Single'
    <3>1. /\ t \in Claims(h) /\ Claims(h)' \subseteq Claims(h) /\ t \notin Claims(h)'
          /\ Distinct(run'[h].todo)
      BY <1>1, <1>2, <2>1, <2>5
    <3>2. CASE rows' = rows BY <1>0, <1>2, <2>1, <3>1, <3>2, SingleKept
    <3>3. CASE AddRow(h, FALSE) BY <1>0, <1>2, <2>1, <3>1, <3>3, SingleGrows
    <3> QED BY <1>2, <3>2, <3>3
  <2> QED BY <1>0, <1>2, <2>1, <2>2, <2>4, <2>6, OneCounts
(* The push goes on, or is broken off.                                      *)
<1>3. ASSUME r.at \in Underway, Alike(r, run'[h]), wanted' = wanted,
             rows' = rows \/ (AddRow(h, TRUE) /\ r.at \in Busy),
             faults' \in Nat, faults <= faults', run'[h].at \in Underway \cup {"pushed"},
             \A g \in Handlers \ {h} : run'[g] = run[g]
      PROVE  CountsInv'
  <2>1. \A x : RowsOf(x)' = {} => RowsOf(x) = {} BY <1>3, RowAdded DEF RowsOf
  <2>2. Counted(h)' BY <1>0, <1>3, <2>1, CountedOn
  <2>3. run'[h].todo = r.todo BY <1>3 DEF Alike
  <2>4. Claims(h)' \subseteq Claims(h)
    BY <1>3, <2>3 DEF Claims, Underway, PushLabels, Busy, Elements
  <2>5. Distinct(run'[h].todo) BY <1>0, <1>3, <2>3 DEF Single, Underway, PushLabels, Busy
  <2>6. \A g \in Handlers \ {h} : Rests(g) BY <1>0, <1>3
  <2>7. Single'
    <3>1. CASE rows' = rows BY <1>0, <1>3, <2>4, <2>5, <2>6, <3>1, SingleKept
    <3>2. CASE AddRow(h, TRUE) /\ r.at \in Busy
      <4>1. t \in Claims(h) BY <1>1, <3>2
      <4> QED BY <1>0, <1>3, <2>4, <2>5, <2>6, <3>2, <4>1, SingleGrows
    <3> QED BY <1>3, <3>1, <3>2
  <2> QED BY <1>0, <1>3, <2>1, <2>2, <2>6, <2>7, OneCounts
<1>4. CASE ReadNames(h)
  <2>1. UNCHANGED <<rows, wanted>> /\ r.at = "names" BY <1>4 DEF ReadNames, notion, db
  <2>2. /\ run'[h].kind = r.kind /\ run'[h].todo = r.todo /\ run'[h].ok = r.ok
        /\ \/ /\ run'[h].at = "next" /\ run'[h].total = Len(r.todo) /\ faults' = faults
           \/ /\ run'[h].at = "pushed" /\ run'[h].total = r.total /\ faults' = faults + 1
        /\ \A g \in Handlers \ {h} : run'[g] = run[g]
    BY <1>0, <1>4, NamesMoves
  <2>3. \A x : RowsOf(x)' = RowsOf(x) BY <2>1 DEF RowsOf
  <2>4. Counted(h)'
    <3> SUFFICES ASSUME r.kind = "commit" PROVE Counted(h)' BY <2>2 DEF Counted
    <3>1. r.ok = 0 /\ r.total = 0 /\ \E p \in Projects : r.todo = PlanOf[p] /\ r.todo # <<>>
      BY <1>0, <2>1 DEF Counted, PushLabels
    <3>2. CASE run'[h].at = "pushed" BY <1>0, <2>2, <3>1, <3>2 DEF Counted
    <3>3. CASE run'[h].at = "next"
      <4>1. PICK p \in Projects : r.todo = PlanOf[p] /\ r.todo # <<>> BY <3>1
      <4>2. Len(r.todo) \in Nat /\ Len(r.todo) > 0
        BY <4>1, MirrorAssumption, EmptySeq
      <4>3. Missing(p)' \subseteq Elements(run'[h].todo) BY <2>2, <4>1 DEF Missing, Elements
      <4>4. IsFiniteSet({}) /\ Cardinality({}) = 0 BY FS_EmptySet
      <4>5. CountedBy(h, p, {})'
        BY <2>2, <3>1, <3>3, <4>1, <4>2, <4>3, <4>4 DEF CountedBy, Elements
      <4> QED BY <2>2, <3>3, <4>2, <4>5 DEF Counted
    <3> QED BY <2>2, <3>2, <3>3
  <2>5. Claims(h)' \subseteq Claims(h) BY <2>1, <2>2 DEF Claims, PushLabels, Elements
  <2>6. Single'
    <3>1. Distinct(run'[h].todo) BY <1>0, <2>1, <2>2 DEF Single, PushLabels
    <3> QED BY <1>0, <2>1, <2>2, <2>5, <3>1, SingleKept
  <2> QED BY <1>0, <2>2, <2>3, <2>4, <2>6, OneCounts
<1>5. CASE PushTask(h)
  <2>1. UNCHANGED <<rows, wanted, faults>> /\ r.at = "next" BY <1>5 DEF PushTask, notion, db
  <2>2. /\ Alike(r, run'[h]) /\ run'[h].at \in {"fetch", "post"}
        /\ \A g \in Handlers \ {h} : run'[g] = run[g]
    BY <1>0, <1>5, TaskMoves
  <2> QED BY <1>0, <1>3, <2>1, <2>2 DEF Underway
<1>6. CASE AskSchema(h)
  <2>1. UNCHANGED <<rows, wanted>> /\ r.at = "fetch" BY <1>6 DEF AskSchema, notion, db
  <2>2. CASE Fault /\ Fails(h) BY <1>0, <1>2, <2>1, <2>2 DEF Fault, Busy
  <2>3. CASE /\ run' = [run EXCEPT ![h].at = "answered", ![h].edition = columns]
             /\ UNCHANGED <<schema, faults>>
    <3>1. /\ Alike(r, run'[h]) /\ run'[h].at = "answered"
          /\ \A g \in Handlers \ {h} : run'[g] = run[g]
      BY <1>0, <2>1, <2>3, AskMoves
    <3> QED BY <1>0, <1>3, <2>1, <2>3, <3>1 DEF Underway
  <2> QED BY <1>6, <2>2, <2>3 DEF AskSchema
<1>7. CASE KeepSchema(h)
  <2>1. UNCHANGED <<rows, wanted, faults>> /\ r.at = "answered" BY <1>7 DEF KeepSchema, notion, db
  <2>2. /\ Alike(r, run'[h]) /\ run'[h].at = "post"
        /\ \A g \in Handlers \ {h} : run'[g] = run[g]
    BY <1>0, <1>7, KeepMoves
  <2> QED BY <1>0, <1>3, <2>1, <2>2 DEF Underway
<1>8. ASSUME r.at = "post", NEW clean \in BOOLEAN, Rejected(h, clean), wanted' = wanted,
             rows' = rows \/ AddRow(h, TRUE), faults' \in Nat, faults <= faults'
      PROVE  CountsInv'
  <2>1. r.rest # <<>> BY <1>0, <1>8, PostHolds
  <2>2. /\ Alike(r, run'[h]) /\ run'[h].at = "rejected"
        /\ \A g \in Handlers \ {h} : run'[g] = run[g]
    BY <1>0, <1>8, <2>1, RefusedMoves
  <2> QED BY <1>3, <1>8, <2>2 DEF Underway, Busy
<1>9. CASE PostRow(h)
  <2>1. UNCHANGED <<wanted, faults>> /\ r.at = "post" BY <1>9 DEF PostRow, db
  <2>2. CASE AddRow(h, FALSE) /\ Succeeds(h) BY <1>0, <1>2, <2>1, <2>2 DEF Busy
  <2>3. CASE Rejected(h, r.clean) /\ UNCHANGED <<rows, schema>>
    <3>1. r.clean \in BOOLEAN BY <1>0, <2>1 DEF Kinds, PushLabels, Busy, PushRun
    <3> QED BY <1>0, <1>8, <2>1, <2>3, <3>1
  <2> QED BY <1>9, <2>2, <2>3 DEF PostRow
<1>10. CASE PostError(h)
  <2>1. /\ wanted' = wanted /\ r.at = "post" /\ Rejected(h, FALSE) /\ faults' = faults + 1
        /\ rows' = rows \/ AddRow(h, TRUE)
    BY <1>10 DEF PostError, Fault, db
  <2>2. faults' \in Nat /\ faults <= faults' BY <1>0, <2>1
  <2> QED BY <1>8, <2>1, <2>2
<1>11. CASE PostLost(h)
  <2>1. /\ wanted' = wanted /\ r.at = "post" /\ Fails(h) /\ faults' = faults + 1
        /\ rows' = rows \/ AddRow(h, FALSE)
    BY <1>11 DEF PostLost, Fault, db
  <2>2. faults' \in Nat /\ faults <= faults' BY <1>0, <2>1
  <2> QED BY <1>2, <2>1, <2>2 DEF Busy
<1>12. CASE Retry(h)
  <2>1. UNCHANGED <<rows, wanted, faults>> /\ r.at = "rejected" BY <1>12 DEF Retry, notion, db
  <2>2. CASE Fails(h) BY <1>0, <1>2, <2>1, <2>2 DEF Busy
  <2>3. CASE ~Fails(h)
    <3>1. PICK rest : run' = [run EXCEPT ![h].at = "post", ![h].rest = rest, ![h].first = FALSE,
                                         ![h].clean = SameSchema(h)]
      BY <1>12, <2>3 DEF Retry
    <3>2. r \in PushRun BY <1>0, <2>1, Push DEF PushLabels, Busy
    <3>3. PICK clean : clean = SameSchema(h) OBVIOUS
    <3>4. run'[h] = [r EXCEPT !.at = "post", !.rest = rest, !.first = FALSE, !.clean = clean]
      BY <1>0, <3>1, <3>3
    <3>5. Alike(r, run'[h]) /\ run'[h].at = "post" BY <3>2, <3>4 DEF PushRun, Alike
    <3>6. \A g \in Handlers \ {h} : run'[g] = run[g] BY <1>0, <3>1
    <3> QED BY <1>0, <1>3, <2>1, <3>5, <3>6 DEF Underway
  <2> QED BY <2>2, <2>3
<1>13. CASE PushedAll(h) \/ BreakOff(h)
  <2>1. /\ UNCHANGED <<rows, wanted>> /\ r.at = "next"
        /\ faults' = faults \/ faults' = faults + 1
    BY <1>13 DEF PushedAll, BreakOff, Fault, notion, db
  <2>2. faults' \in Nat /\ faults <= faults' BY <1>0, <2>1
  <2> QED BY <1>0, <1>3, <1>13, <2>1, <2>2, AllMoves DEF Underway
<1>14. CASE Reply(h)
  <2>1. UNCHANGED <<rows, wanted, faults>> BY <1>14 DEF Reply, notion, db
  <2>2. run'[h] = Idle /\ \A g \in Handlers \ {h} : run'[g] = run[g]
    BY <1>0, <1>14 DEF Reply, Ends
  <2>3. run'[h].at \notin PushLabels BY <2>2 DEF Idle, PushLabels, Busy
  <2>4. Claims(h)' = {} /\ Counted(h)' BY <2>3 DEF Claims, Counted
  <2>5. \A x : RowsOf(x)' = RowsOf(x) BY <2>1 DEF RowsOf
  <2>6. Single' BY <1>0, <2>1, <2>2, <2>3, <2>4, SingleKept
  <2> QED BY <1>0, <2>1, <2>2, <2>4, <2>5, <2>6, OneCounts
<1> QED
  BY <1>4, <1>5, <1>6, <1>7, <1>9, <1>10, <1>11, <1>12, <1>13, <1>14 DEF PushStep

LEMMA CountsRest ==
    ASSUME MirrorInv, KnowsInv, CountsInv,
           \/ EditBoard \/ Crash \/ UNCHANGED vars
           \/ \E h \in Handlers : CardStep(h) \/ TickStep(h) \/ Begin(h)
    PROVE  CountsInv'
<1>0. /\ Kinds /\ Single /\ faults \in Nat /\ DOMAIN run = Handlers
      /\ \A h \in Handlers : Counted(h)
      /\ \A g \in Handlers : run'[g] = run[g] => Rests(g)
  BY RestsIfTold DEF KnowsInv, CountsInv, Kinds, MirrorInv, Sets
<1>1. ASSUME NEW h \in Handlers, rows' = rows, wanted \subseteq wanted',
             faults' = faults \/ faults' = faults + 1,
             Claims(h)' \cap wanted = {} /\ Claims(h)' \subseteq wanted',
             run'[h].at \in PushLabels => Distinct(run'[h].todo),
             Counted(h)', \A g \in Handlers \ {h} : run'[g] = run[g]
      PROVE  CountsInv'
  <2>1. \A x : RowsOf(x)' = RowsOf(x) BY <1>1 DEF RowsOf
  <2>2. \A g \in Handlers \ {h} : Rests(g) BY <1>0, <1>1
  <2>3. Single' BY <1>0, <1>1, <2>2, SingleKept
  <2>4. faults' \in Nat /\ faults <= faults' BY <1>0, <1>1
  <2> QED BY <1>0, <1>1, <2>1, <2>2, <2>3, <2>4, OneCounts
<1>2. ASSUME NEW h \in Handlers,
              \/ CardStep(h) \/ TickStep(h)
              \/ \E p \in Projects : AddProject(h, p)
              \/ \E t \in Tasks : MarkTaskDone(h, t)
      PROVE  CountsInv'
  <2>1. /\ run'[h].at \notin PushLabels /\ UNCHANGED <<rows, wanted>>
        /\ faults' = faults \/ faults' = faults + 1
        /\ \A g \in Handlers \ {h} : run'[g] = run[g]
    BY <1>2, NotPushing
  <2>2. Claims(h)' = {} /\ Counted(h)' BY <2>1 DEF Claims, Counted
  <2> QED BY <1>1, <2>1, <2>2
<1>3. ASSUME NEW h \in Handlers, NEW p \in Projects, CommitPlan(h, p) PROVE CountsInv'
  <2>1. /\ run'[h].at = "names" /\ run'[h].kind = "commit" /\ run'[h].todo = PlanOf[p]
        /\ run'[h].ok = 0 /\ run'[h].total = 0 /\ UNCHANGED <<rows, faults>>
        /\ \A g \in Handlers \ {h} : run'[g] = run[g]
    BY <1>0, <1>3, CommitMoves
  <2>2. /\ PlanOf[p] # <<>> /\ Elements(PlanOf[p]) \cap wanted = {}
        /\ wanted' = wanted \cup Elements(PlanOf[p])
    BY <1>3 DEF CommitPlan
  <2>3. Claims(h)' = Elements(PlanOf[p]) BY <2>1 DEF Claims, PushLabels, Busy, Elements
  <2>4. Distinct(run'[h].todo) BY <2>1, MirrorAssumption DEF Distinct
  <2>5. Counted(h)' BY <2>1, <2>2 DEF Counted
  <2> QED BY <1>1, <2>1, <2>2, <2>3, <2>4, <2>5
<1>4. ASSUME NEW h \in Handlers, NEW t \in Tasks, CaptureTask(h, t) PROVE CountsInv'
  <2>1. /\ run'[h].at = "next" /\ run'[h].kind = "capture" /\ run'[h].todo = <<t>>
        /\ UNCHANGED <<rows, faults>> /\ \A g \in Handlers \ {h} : run'[g] = run[g]
    BY <1>0, <1>4, CaptureMoves
  <2>2. t \notin wanted /\ wanted' = wanted \cup {t} BY <1>4 DEF CaptureTask
  <2>3. Elements(<<t>>) = {t} BY DEF Elements
  <2>4. Claims(h)' = {t} BY <2>1, <2>3 DEF Claims, PushLabels, Busy, Elements
  <2>5. Distinct(run'[h].todo) BY <2>1 DEF Distinct
  <2>6. Counted(h)' BY <2>1 DEF Counted
  <2> QED BY <1>1, <2>1, <2>2, <2>4, <2>5, <2>6
<1>5. CASE EditBoard \/ UNCHANGED vars
  <2>1. UNCHANGED <<rows, wanted, run, faults>> BY <1>5 DEF EditBoard, vars, db, notion
  <2>2. \A x : RowsOf(x)' = RowsOf(x) BY <2>1 DEF RowsOf
  <2>3. \A g \in Handlers : Counted(g)' BY <1>0, <2>1, <2>2, CountedKept
  <2>4. \A g \in Handlers : Claims(g)' = Claims(g) BY <2>1 DEF Claims, Elements
  <2>5. Single' BY <1>0, <2>1, <2>2, <2>4 DEF Single, OneRow, Unanswered, Distinct
  <2> QED BY <2>3, <2>5 DEF CountsInv
<1>6. CASE Crash
  <2>1. UNCHANGED <<rows, wanted>> /\ run' = [h \in Handlers |-> Idle]
    BY <1>6 DEF Crash, notion, db
  <2>2. \A h \in Handlers : run'[h].at \notin PushLabels BY <2>1 DEF Idle, PushLabels, Busy
  <2>3. \A h \in Handlers : Claims(h)' = {} /\ Counted(h)' BY <2>2 DEF Claims, Counted
  <2>4. Single' BY <1>0, <2>1, <2>2, <2>3 DEF Single, OneRow
  <2> QED BY <2>3, <2>4 DEF CountsInv
<1> QED BY <1>2, <1>3, <1>4, <1>5, <1>6 DEF Begin

LEMMA CountsInit == Init => CountsInv
<1> SUFFICES ASSUME Init PROVE CountsInv OBVIOUS
<1>1. rows = <<>> /\ \A h \in Handlers : run[h].at = "idle" BY DEF Init, Idle
<1>2. \A h \in Handlers : Claims(h) = {} /\ Counted(h) BY <1>1 DEF Claims, Counted, PushLabels, Busy
<1>3. Single BY <1>1, <1>2 DEF Single, OneRow, PushLabels, Busy
<1> QED BY <1>2, <1>3 DEF CountsInv

THEOREM CountsHolds == Spec => []CountsInv
<1>1. MirrorInv /\ KnowsInv /\ CountsInv /\ [Next]_vars => CountsInv'
  <2> SUFFICES ASSUME MirrorInv, KnowsInv, CountsInv, [Next]_vars PROVE CountsInv' OBVIOUS
  <2>1. CASE \E h \in Handlers : PushStep(h)
    BY <2>1, CountsPush
  <2>2. CASE \/ EditBoard \/ Crash \/ UNCHANGED vars
             \/ \E h \in Handlers : CardStep(h) \/ TickStep(h) \/ Begin(h)
    BY <2>2, CountsRest
  <2> QED BY <2>1, <2>2 DEF Next, Step, PushStep, CardStep, TickStep, Begin
<1> QED BY <1>1, CountsInit, MirrorHolds, KnowsHolds, PTL DEF Spec

(* The confirmation of a plan counts as failed at least the tasks that have  *)
(* no row, whatever was lost, refused or pushed meanwhile, and also when the *)
(* pushing was broken off; it counts nothing only if a request or a read     *)
(* failed: the numbers of ConfirmResult that confirm_reply_text shows.       *)
THEOREM FailuresAreCounted == Spec => []FailuresCounted
<1>1. CountsInv /\ KnowsInv /\ MirrorInv => FailuresCounted
  <2> SUFFICES ASSUME CountsInv, KnowsInv, MirrorInv, NEW h \in Handlers,
                      run[h].at = "pushed", run[h].kind = "commit", run[h].total # 0
               PROVE  \E p \in Projects :
                          /\ run[h].total = Len(PlanOf[p])
                          /\ Cardinality(Missing(p)) <= run[h].total - run[h].ok
    <3>1. ASSUME NEW h \in Handlers, run[h].at = "pushed", run[h].kind = "commit",
                 run[h].total = 0, CountsInv, KnowsInv
          PROVE  faults > 0
      BY <3>1 DEF CountsInv, Counted, PushLabels, KnowsInv, Kinds
    <3> QED BY <3>1 DEF FailuresCounted, Missing
  <2>1. PICK p \in Projects, F \in SUBSET Tasks : CountedBy(h, p, F)
    BY DEF CountsInv, Counted, PushLabels
  <2>2. run[h].todo \in Seq(Tasks) /\ run[h].ok \in Nat /\ run[h].total \in Nat
    BY DEF KnowsInv, Kinds, PushLabels, PushRun
  <2>3. Missing(p) \subseteq Elements(run[h].todo) \cup F /\ IsFiniteSet(F)
    BY <2>1 DEF CountedBy
  <2>4. /\ IsFiniteSet(Elements(run[h].todo))
        /\ Cardinality(Elements(run[h].todo)) <= Len(run[h].todo)
    BY <2>2, FewElements
  <2> DEFINE A == Elements(run[h].todo)
             k == Cardinality(A)
             m == Cardinality(F)
             n == Cardinality(Missing(p))
             all == Cardinality(A \cup F)
  <2>5. /\ IsFiniteSet(A \cup F) /\ k \in Nat /\ m \in Nat /\ all \in Nat
        /\ Cardinality(A \cap F) \in Nat /\ all = k + m - Cardinality(A \cap F)
    BY <2>3, <2>4, FS_Union, FS_Intersection, FS_CardinalityType
  <2>6. n \in Nat /\ n <= all BY <2>3, <2>5, FS_Subset, FS_CardinalityType
  <2>7. run[h].total = Len(PlanOf[p]) /\ m + Len(run[h].todo) + run[h].ok <= run[h].total
    BY <2>1 DEF CountedBy
  <2>8. Len(run[h].todo) \in Nat BY <2>2
  <2>9. n <= run[h].total - run[h].ok
    <3> DEFINE i == Cardinality(A \cap F)
               l == Len(run[h].todo)
               ok == run[h].ok
               total == run[h].total
    <3>1. /\ i \in Nat /\ l \in Nat /\ k \in Nat /\ m \in Nat /\ n \in Nat
          /\ ok \in Nat /\ total \in Nat
      BY <2>2, <2>5, <2>6, <2>8
    <3>2. k <= l /\ n <= k + m - i /\ m + l + ok <= total BY <2>4, <2>5, <2>6, <2>7
    <3> HIDE DEF k, m, n, i, l, ok, total
    <3>3. n <= total - ok BY <3>1, <3>2
    <3> QED BY <3>3 DEF n, ok, total
  <2> QED BY <2>7, <2>9
<1> QED BY <1>1, CountsHolds, KnowsHolds, MirrorHolds, PTL

(* A task has a second row only after one that was answered with an error; a *)
(* row is as full as the board takes it unless an attempt before it met      *)
(* another error or another schema; and without trouble a push that failed   *)
(* alone was refused each of its attempts (push_task and its ladder).        *)
THEOREM RowsUnlessRefused == Spec => []RowUnlessRefused
<1>1. CountsInv /\ KnowsInv => RowUnlessRefused
  <2> SUFFICES ASSUME CountsInv, KnowsInv PROVE RowUnlessRefused OBVIOUS
  <2>1. OneRow BY DEF CountsInv, Single
  <2>2. \A i \in DOMAIN rows : AsFull(rows[i]) BY DEF KnowsInv, Full
  <2>3. \A h \in Handlers : Explained(h) BY DEF KnowsInv, Knows
  <2> QED
    BY <2>1, <2>2, <2>3 DEF RowUnlessRefused, OneRow, AsFull, Barred, Explained, PushLabels, Busy
<1> QED BY <1>1, CountsHolds, KnowsHolds, PTL

-----------------------------------------------------------------------------
Unmade == {"resolve", "resolved", "card"}
Making == Unmade \cup {"link"}
Ticking == {"lookup", "children", "tick", "marked"}

CardsOf(p) == {i \in DOMAIN cards : cards[i].project = p}

(* A project is given its card by one handler, and only once.               *)
OneCard ==
    /\ \A i, j \in DOMAIN cards : cards[i].project = cards[j].project => i = j
    /\ \A i \in DOMAIN cards : cards[i].project \in made
    /\ \A h \in Handlers :
           /\ run[h].at \in Making =>
                  "project" \in DOMAIN run[h] /\ page[run[h].project] = None
           /\ run[h].at \in Unmade => CardsOf(run[h].project) = {}
    /\ \A h, g \in Handlers :
           h # g /\ run[h].at \in Making /\ run[g].at \in Making =>
               run[h].project # run[g].project

(* The page that "done" saw stays the page of the task's project.           *)
Seen(h) ==
    LET r == run[h]
        t == r.task
        p == ProjectOf[t]
    IN  r.at \in Ticking =>
            /\ {"at", "task", "then"} \subseteq DOMAIN r
            /\ t \in Tasks
            /\ r.then # None => p \in made /\ page[p] = r.then
            /\ faults = 0 /\ r.then # None /\ Same(t) = {p} =>
                   /\ r.at \in {"children", "tick"} => r.card = r.then
                   /\ r.at = "marked" /\ NameOf[t] \in Checklist(r.then) =>
                          NameOf[t] \in cards[r.then].ticked

Rest ==
    /\ done \subseteq Stored
    /\ parent \in {"page", "database", None}

(* What was answered about the parent is about to be kept.                  *)
Asked(h) ==
    /\ run[h].at \in {"resolve", "resolved"} => "into" \in DOMAIN run[h]
    /\ run[h].at = "resolved" => run[h].into \in {"page", "database"}

CardInv == OneCard /\ Rest /\ \A h \in Handlers : Seen(h) /\ Asked(h)

-----------------------------------------------------------------------------
(* What the handlers that take no step may rely on.                         *)

(* The cards and their ticks only become more, and a page that is set stays. *)
MoreCards ==
    \A i \in DOMAIN cards :
        /\ i \in DOMAIN cards' /\ cards'[i].project = cards[i].project
        /\ cards[i].ticked \subseteq cards'[i].ticked

PagesStay == \A p \in Projects : page[p] # None => page'[p] = page[p]

Lasting ==
    /\ Grows /\ MoreCards /\ PagesStay
    /\ faults \in Nat /\ faults' \in Nat /\ faults <= faults'

LEMMA SameGrows ==
    ASSUME Grows, NEW t, ProjectOf[t] \in made, Same(t)' = {ProjectOf[t]}
    PROVE  Same(t) = {ProjectOf[t]}
BY DEF Grows, Same

LEMMA SeenStays ==
    ASSUME MirrorInv, Lasting, NEW h \in Handlers, Seen(h), run'[h] = run[h]
    PROVE  Seen(h)'
<1> DEFINE r == run[h]
<1> SUFFICES ASSUME r.at \in Ticking PROVE Seen(h)' BY DEF Seen
<1>1. PICK t : t = r.task OBVIOUS
<1>2. PICK p : p = ProjectOf[t] OBVIOUS
<1>3. /\ {"at", "task", "then"} \subseteq DOMAIN r /\ t \in Tasks
      /\ r.then # None => p \in made /\ page[p] = r.then
      /\ faults = 0 /\ r.then # None /\ Same(t) = {p} =>
             /\ r.at \in {"children", "tick"} => r.card = r.then
             /\ r.at = "marked" /\ NameOf[t] \in Checklist(r.then) =>
                    NameOf[t] \in cards[r.then].ticked
  BY <1>1, <1>2 DEF Seen
<1>4. p \in Projects BY <1>2, <1>3, MirrorAssumption
<1>5. ASSUME r.then # None
      PROVE  /\ p \in made' /\ page'[p] = r.then
             /\ r.then \in DOMAIN cards /\ cards'[r.then].project = cards[r.then].project
             /\ cards[r.then].ticked \subseteq cards'[r.then].ticked
  <2>1. p \in made /\ page[p] = r.then BY <1>3, <1>5
  <2>2. r.then \in DOMAIN cards BY <1>4, <1>5, <2>1 DEF MirrorInv, Pages
  <2> QED BY <1>4, <1>5, <2>1, <2>2 DEF Lasting, Grows, MoreCards, PagesStay
<1>6. r.then # None => Checklist(r.then)' = Checklist(r.then) BY <1>5 DEF Checklist, Elements
<1>7. faults' = 0 /\ r.then # None /\ Same(t)' = {p} => faults = 0 /\ Same(t) = {p}
  BY <1>2, <1>3, SameGrows DEF Lasting
<1>8. faults' = 0 /\ r.then # None /\ Same(t)' = {p} =>
          /\ r.at \in {"children", "tick"} => r.card = r.then
          /\ r.at = "marked" /\ NameOf[t] \in Checklist(r.then)' =>
                 NameOf[t] \in cards'[r.then].ticked
  BY <1>3, <1>5, <1>6, <1>7
<1> QED BY <1>1, <1>2, <1>3, <1>5, <1>8 DEF Seen

LEMMA RestStays ==
    ASSUME CardInv, Grows, done' \subseteq Stored' \/ done' = done,
           parent' \in {"page", "database", None}
    PROVE  Rest'
<1>1. Stored \subseteq Stored' BY DEF Stored, Grows
<1> QED BY <1>1 DEF CardInv, Rest

(* The cards belong to the same projects as before, and so do the handlers   *)
(* that make some.                                                          *)
LEMMA OneCardStays ==
    ASSUME OneCard, MoreCards, DOMAIN cards' = DOMAIN cards, page' = page, made \subseteq made',
           \A g \in Handlers :
               run'[g].at \in Making =>
                   /\ run[g].at \in Making /\ run'[g].project = run[g].project
                   /\ "project" \in DOMAIN run[g] => "project" \in DOMAIN run'[g]
                   /\ run'[g].at \in Unmade => run[g].at \in Unmade
    PROVE  OneCard'
<1>1. \A i \in DOMAIN cards : cards'[i].project = cards[i].project BY DEF MoreCards
<1>2. \A p : CardsOf(p)' = CardsOf(p) BY <1>1 DEF CardsOf
<1>3. ASSUME NEW g \in Handlers, run'[g].at \in Unmade
      PROVE  CardsOf(run[g].project)' = {} /\ run'[g].project = run[g].project
  BY <1>2, <1>3 DEF OneCard, Making, Unmade
<1>4. ASSUME NEW g \in Handlers, run'[g].at \in Unmade
      PROVE  {i \in DOMAIN cards' : cards'[i].project = run'[g].project} = {}
  BY <1>3, <1>4 DEF CardsOf
<1>5. \A i, j \in DOMAIN cards' : cards'[i].project = cards'[j].project => i = j
  BY <1>1 DEF OneCard
<1>6. \A i \in DOMAIN cards' : cards'[i].project \in made' BY <1>1 DEF OneCard
<1>7. \A g \in Handlers : run'[g].at \in Making =>
              "project" \in DOMAIN run'[g] /\ page'[run'[g].project] = None
  BY DEF OneCard
<1>8. \A g, f \in Handlers :
         g # f /\ run'[g].at \in Making /\ run'[f].at \in Making =>
             run'[g].project # run'[f].project
  BY DEF OneCard
<1> QED BY <1>4, <1>5, <1>6, <1>7, <1>8 DEF OneCard, CardsOf

(* Steps of handlers that have nothing to do with cards.                    *)
LEMMA Aside ==
    ASSUME MirrorInv, CardInv, Grows, UNCHANGED <<page, cards, done>>,
           faults \in Nat, faults' \in Nat, faults <= faults',
           parent' \in {"page", "database", None},
           \A g \in Handlers : run'[g] = run[g] \/ run'[g].at \notin Making \cup Ticking
    PROVE  CardInv'
<1>1. Lasting BY DEF Lasting, MoreCards, PagesStay
<1>2. OneCard'
  <2>1. made \subseteq made' /\ DOMAIN cards' = DOMAIN cards BY DEF Grows
  <2> QED BY <1>1, <2>1, OneCardStays DEF CardInv, Lasting
<1>3. Rest' BY RestStays
<1>4. ASSUME NEW g \in Handlers PROVE Seen(g)'
  <2>1. CASE run'[g] = run[g] BY <1>1, <2>1, SeenStays DEF CardInv
  <2>2. CASE run'[g].at \notin Ticking BY <2>2 DEF Seen
  <2> QED BY <2>1, <2>2
<1>5. \A g \in Handlers : Asked(g)' BY DEF Asked, CardInv, Making, Unmade
<1> QED BY <1>2, <1>3, <1>4, <1>5 DEF CardInv

(* Pushes, captures, commits, edits of the board and crashes.               *)
LEMMA NotCarding ==
    ASSUME MirrorInv, NEW h \in Handlers,
           \/ PushStep(h)
           \/ \E p \in Projects : CommitPlan(h, p)
           \/ \E t \in Tasks : CaptureTask(h, t)
    PROVE  /\ UNCHANGED <<page, cards, done, parent>>
           /\ faults' = faults \/ faults' = faults + 1
           /\ wanted \subseteq wanted' /\ made \subseteq made'
           /\ \A g \in Handlers : run'[g] = run[g] \/ run'[g].at \notin Making \cup Ticking
<1>0. DOMAIN run = Handlers /\ \A g \in Handlers : "at" \in DOMAIN run[g]
  BY DEF MirrorInv, Job, Sets
<1> DEFINE NotHere ==
        \A g \in Handlers : run'[g] = run[g] \/ run'[g].at \notin Making \cup Ticking
<1>1. ASSUME run'[h].at \in {"next", "answered", "post", "rejected", "pushed", "fetch", "idle"},
             \A g \in Handlers \ {h} : run'[g] = run[g]
      PROVE  NotHere
  BY <1>1 DEF Making, Unmade, Ticking
<1>2. ASSUME Fails(h) PROVE NotHere
  <2>1. ASSUME NEW g \in Handlers, g # h, run'[g] # run[g]
        PROVE  run'[g].at \notin Making \cup Ticking
    <3>1. run[g].at \in {"post", "rejected"} /\ run'[g] = [run[g] EXCEPT !.alone = FALSE]
      BY <1>2, <2>1 DEF Fails
    <3>2. run'[g].at = run[g].at BY <1>0, <3>1
    <3> QED BY <3>1, <3>2 DEF Making, Unmade, Ticking
  <2>2. run'[h] = Turn(run[h], run[h].ok, run[h].failed \cup {FailedPush(h)})
    BY <1>0, <1>2 DEF Fails
  <2>3. run'[h].at = "next" BY <2>2 DEF Turn, Pushing
  <2> QED BY <2>1, <2>3 DEF Making, Unmade, Ticking
<1>3. ASSUME Succeeds(h) PROVE NotHere
  <2>1. /\ run'[h] = Turn(run[h], run[h].ok + 1, run[h].failed)
        /\ \A g \in Handlers \ {h} : run'[g] = run[g]
    BY <1>0, <1>3 DEF Succeeds
  <2>2. run'[h].at = "next" BY <2>1 DEF Turn, Pushing
  <2> QED BY <1>1, <2>1, <2>2
<1>4. ASSUME NEW clean, Rejected(h, clean) PROVE NotHere
  BY <1>0, <1>1, <1>4 DEF Rejected
<1>5. CASE ReadNames(h)
  <2>1. /\ UNCHANGED <<db, cards, parent>> /\ (faults' = faults \/ faults' = faults + 1)
        /\ \/ run' = [run EXCEPT ![h].at = "next", ![h].total = Len(run[h].todo)]
           \/ run' = [run EXCEPT ![h].at = "pushed"]
    BY <1>5 DEF ReadNames, Fault, notion
  <2>2. NotHere BY <1>0, <1>1, <2>1
  <2> QED BY <2>1, <2>2 DEF db
<1>6. CASE PushTask(h)
  <2>1. /\ UNCHANGED <<db, cards, parent, faults>>
        /\ run' = [run EXCEPT ![h].at = IF schema = None THEN "fetch" ELSE "post",
                              ![h].edition = schema,
                              ![h].rest = <<Attempt(schema, ColumnsOf[Pushed(h)])>>]
    BY <1>6 DEF PushTask, notion
  <2>2. NotHere BY <1>0, <1>1, <2>1
  <2> QED BY <2>1, <2>2 DEF db
<1>7. CASE AskSchema(h)
  <2>1. UNCHANGED <<db, cards, parent>> BY <1>7 DEF AskSchema, notion
  <2>2. CASE Fault /\ Fails(h) BY <1>2, <2>1, <2>2 DEF Fault, db
  <2>3. CASE run' = [run EXCEPT ![h].at = "answered", ![h].edition = columns] /\ faults' = faults
    <3>1. NotHere BY <1>0, <1>1, <2>3
    <3> QED BY <2>1, <2>3, <3>1 DEF db
  <2> QED BY <1>7, <2>2, <2>3 DEF AskSchema
<1>8. CASE KeepSchema(h)
  <2>1. UNCHANGED <<db, cards, parent, faults>> BY <1>8 DEF KeepSchema, notion
  <2>2. PICK rest : run' = [run EXCEPT ![h].at = "post", ![h].rest = rest]
    BY <1>8 DEF KeepSchema
  <2>3. NotHere BY <1>0, <1>1, <2>2
  <2> QED BY <2>1, <2>3 DEF db
<1>9. CASE PostRow(h)
  <2>1. UNCHANGED <<db, cards, parent, faults>> BY <1>9 DEF PostRow
  <2>2. NotHere BY <1>3, <1>4, <1>9 DEF PostRow
  <2> QED BY <2>1, <2>2 DEF db
<1>10. CASE PostError(h)
  <2>1. UNCHANGED <<db, cards, parent>> /\ faults' = faults + 1 BY <1>10 DEF PostError, Fault
  <2>2. NotHere BY <1>4, <1>10 DEF PostError
  <2> QED BY <2>1, <2>2 DEF db
<1>11. CASE PostLost(h)
  <2>1. UNCHANGED <<db, cards, parent>> /\ faults' = faults + 1 BY <1>11 DEF PostLost, Fault
  <2>2. NotHere BY <1>2, <1>11 DEF PostLost
  <2> QED BY <2>1, <2>2 DEF db
<1>12. CASE Retry(h)
  <2>1. UNCHANGED <<db, cards, parent, faults>> BY <1>12 DEF Retry, notion
  <2>2. CASE Fails(h) BY <1>2, <2>1, <2>2 DEF db
  <2>3. CASE ~Fails(h)
    <3>1. PICK rest : run' = [run EXCEPT ![h].at = "post", ![h].rest = rest, ![h].first = FALSE,
                                         ![h].clean = SameSchema(h)]
      BY <1>12, <2>3 DEF Retry
    <3>2. NotHere BY <1>0, <1>1, <3>1
    <3> QED BY <2>1, <3>2 DEF db
  <2> QED BY <2>2, <2>3
<1>13. CASE PushedAll(h) \/ BreakOff(h)
  <2>1. /\ UNCHANGED <<db, cards, parent>> /\ (faults' = faults \/ faults' = faults + 1)
        /\ run' = [run EXCEPT ![h].at = "pushed"]
    BY <1>13 DEF PushedAll, BreakOff, Fault, notion
  <2>2. NotHere BY <1>0, <1>1, <2>1
  <2> QED BY <2>1, <2>2 DEF db
<1>14. CASE Reply(h)
  <2>1. UNCHANGED <<db, cards, parent, faults>> /\ Ends(h) BY <1>14 DEF Reply, notion
  <2>2. NotHere BY <1>0, <1>1, <2>1 DEF Ends, Idle
  <2> QED BY <2>1, <2>2 DEF db
<1>15. ASSUME NEW p \in Projects, CommitPlan(h, p)
       PROVE  /\ UNCHANGED <<page, cards, done, parent, faults, made>> /\ wanted \subseteq wanted'
              /\ run'[h].at = "names" /\ \A g \in Handlers \ {h} : run'[g] = run[g]
  BY <1>15, CommitMoves DEF CommitPlan, notion
<1>16. ASSUME NEW t \in Tasks, CaptureTask(h, t)
       PROVE  /\ UNCHANGED <<page, cards, done, parent, faults>>
              /\ wanted \subseteq wanted' /\ made \subseteq made'
              /\ run'[h].at = "next" /\ \A g \in Handlers \ {h} : run'[g] = run[g]
  BY <1>16, CaptureMoves DEF CaptureTask, notion
<1>17. CASE (\E p \in Projects : CommitPlan(h, p)) \/ (\E t \in Tasks : CaptureTask(h, t))
  BY <1>15, <1>16, <1>17 DEF Making, Unmade, Ticking
<1> QED BY <1>5, <1>6, <1>7, <1>8, <1>9, <1>10, <1>11, <1>12, <1>13, <1>14, <1>17 DEF PushStep

-----------------------------------------------------------------------------
(* A card is made.                                                          *)

LEMMA CardAdded ==
    ASSUME MirrorInv, NEW h \in Handlers, run[h].at = "card", AddCard(h),
           UNCHANGED <<db, rows>>
    PROVE  /\ Grows /\ MoreCards
           /\ \E n : /\ n \notin DOMAIN cards /\ DOMAIN cards' = DOMAIN cards \cup {n}
                     /\ cards'[n].project = run[h].project
<1> DEFINE e == [project |-> run[h].project, ticked |-> {}]
           n == Len(cards)
<1>1. cards \in Seq(Card) /\ e \in Card BY DEF MirrorInv, Board, Card, Job, Sets
<1>2. cards' = Append(cards, e) BY DEF AddCard
<1>3. /\ cards' \in Seq(Card) /\ Len(cards') = n + 1 /\ n \in Nat
      /\ \A i \in 1..n : cards'[i] = cards[i]
      /\ cards'[n + 1] = e
  BY <1>1, <1>2, AppendProperties
<1>4. DOMAIN cards = 1..n /\ DOMAIN cards' = 1..(n + 1) BY <1>1, <1>3
<1>5. DOMAIN cards' = DOMAIN cards \cup {n + 1} /\ n + 1 \notin DOMAIN cards BY <1>3, <1>4
<1>6. cards'[n + 1].project = run[h].project BY <1>3
<1>7. MoreCards BY <1>3, <1>4 DEF MoreCards
<1>8. Grows BY CardShown
<1> QED BY <1>5, <1>6, <1>7, <1>8

LEMMA OneCardAdded ==
    ASSUME OneCard, MoreCards, NEW h \in Handlers, run[h].at = "card", run[h].project \in made,
           NEW n, n \notin DOMAIN cards, DOMAIN cards' = DOMAIN cards \cup {n},
           cards'[n].project = run[h].project, UNCHANGED <<page, made>>,
           run'[h].at \in Making => /\ run'[h].at = "link" /\ run'[h].project = run[h].project
                                    /\ "project" \in DOMAIN run'[h],
           \A g \in Handlers \ {h} : run'[g] = run[g]
    PROVE  OneCard'
<1> DEFINE p == run[h].project
<1>1. \A i \in DOMAIN cards : cards'[i].project = cards[i].project BY DEF MoreCards
<1>2. \A i \in DOMAIN cards : cards[i].project # p BY DEF OneCard, CardsOf, Making, Unmade
<1>3. \A i, j \in DOMAIN cards' : cards'[i].project = cards'[j].project => i = j
  BY <1>1, <1>2 DEF OneCard
<1>4. \A i \in DOMAIN cards' : cards'[i].project \in made' BY <1>1 DEF OneCard
<1>5. \A g \in Handlers : run'[g].at \in Making =>
              "project" \in DOMAIN run'[g] /\ page'[run'[g].project] = None
  BY DEF OneCard, Making, Unmade
<1>6. ASSUME NEW g \in Handlers, run'[g].at \in Unmade
      PROVE  {i \in DOMAIN cards' : cards'[i].project = run'[g].project} = {}
  <2>1. g # h /\ run'[g] = run[g] BY <1>6 DEF Making, Unmade
  <2>2. run[g].project # p /\ CardsOf(run[g].project) = {} BY <1>6, <2>1 DEF OneCard, Making, Unmade
  <2> QED BY <1>1, <2>1, <2>2 DEF CardsOf
<1>7. \A g, f \in Handlers :
         g # f /\ run'[g].at \in Making /\ run'[f].at \in Making =>
             run'[g].project # run'[f].project
  BY DEF OneCard, Making, Unmade
<1> QED BY <1>3, <1>4, <1>5, <1>6, <1>7 DEF OneCard, CardsOf

LEMMA CardSteps ==
    ASSUME MirrorInv, CardInv, faults \in Nat, ParentIs \in {"page", "database"},
           NEW h \in Handlers,
           CardStep(h) \/ \E p \in Projects : AddProject(h, p)
    PROVE  CardInv'
<1>0. /\ OneCard /\ Rest /\ Sets /\ Pages /\ Job(h) /\ DOMAIN run = Handlers
      /\ DOMAIN page = Projects /\ made \subseteq Projects
      /\ \A g \in Handlers : Seen(g) /\ Asked(g)
  BY DEF MirrorInv, CardInv, Sets
<1>1. ASSUME Grows, MoreCards, PagesStay, OneCard', done' = done,
             faults' = faults \/ faults' = faults + 1,
             parent' \in {"page", "database", None}, run'[h].at \notin Ticking, Asked(h)',
             \A g \in Handlers \ {h} : run'[g] = run[g]
      PROVE  CardInv'
  <2>1. Lasting BY <1>0, <1>1 DEF Lasting
  <2>2. \A g \in Handlers \ {h} : Seen(g)' BY <1>0, <1>1, <2>1, SeenStays
  <2>3. Seen(h)' BY <1>1 DEF Seen
  <2>4. \A g \in Handlers : Asked(g)' BY <1>0, <1>1 DEF Asked
  <2> QED BY <1>1, <2>2, <2>3, <2>4, RestStays DEF CardInv
<1>2. ASSUME UNCHANGED <<db, cards>>, faults' = faults \/ faults' = faults + 1,
             parent' \in {"page", "database", None},
             \/ run'[h] = Idle
             \/ /\ run'[h].at \in {"resolved", "card"} /\ run[h].at \in {"resolve", "resolved"}
                /\ run'[h].project = run[h].project /\ "project" \in DOMAIN run'[h],
             Asked(h)',
             \A g \in Handlers \ {h} : run'[g] = run[g]
      PROVE  CardInv'
  <2>1. Grows /\ MoreCards /\ PagesStay BY <1>2 DEF Grows, MoreCards, PagesStay, db
  <2>2. run'[h].at \notin Ticking BY <1>2 DEF Idle, Ticking
  <2>3. \A g \in Handlers :
           run'[g].at \in Making =>
               /\ run[g].at \in Making /\ run'[g].project = run[g].project
               /\ "project" \in DOMAIN run[g] => "project" \in DOMAIN run'[g]
               /\ run'[g].at \in Unmade => run[g].at \in Unmade
    BY <1>2 DEF Idle, Making, Unmade
  <2>4. OneCard' BY <1>0, <1>2, <2>1, <2>3, OneCardStays DEF db
  <2> QED BY <1>1, <1>2, <2>1, <2>2, <2>4 DEF db
<1>3. ASSUME run[h].at = "card", AddCard(h), UNCHANGED <<db, rows, parent>>,
             faults' = faults \/ faults' = faults + 1,
             \/ run'[h] = Idle
             \/ /\ run'[h].at = "link" /\ run'[h].project = run[h].project
                /\ "project" \in DOMAIN run'[h],
             \A g \in Handlers \ {h} : run'[g] = run[g]
      PROVE  CardInv'
  <2>1. /\ Grows /\ MoreCards /\ PagesStay /\ parent' \in {"page", "database", None}
        /\ run'[h].at \notin Ticking
    BY <1>0, <1>3, CardAdded DEF PagesStay, Rest, Idle, Ticking, db
  <2>2. PICK n : /\ n \notin DOMAIN cards /\ DOMAIN cards' = DOMAIN cards \cup {n}
                 /\ cards'[n].project = run[h].project
    BY <1>3, CardAdded
  <2>3. run[h].project \in made BY <1>0, <1>3 DEF Job
  <2>4. run'[h].at \in Making => /\ run'[h].at = "link" /\ run'[h].project = run[h].project
                                 /\ "project" \in DOMAIN run'[h]
    BY <1>3 DEF Idle, Making, Unmade
  <2>5. OneCard' BY <1>0, <1>3, <2>1, <2>2, <2>3, <2>4, OneCardAdded DEF db
  <2>6. Asked(h)' BY <1>3 DEF Asked, Idle
  <2> QED BY <1>1, <1>3, <2>1, <2>5, <2>6 DEF db
<1>4. CASE ResolveParent(h) \/ KeepParent(h)
  <2>1. run[h].at \in {"resolve", "resolved"} /\ UNCHANGED <<db, cards>>
    BY <1>4 DEF ResolveParent, KeepParent, notion
  <2>2. /\ {"at", "project", "into"} \subseteq DOMAIN run[h]
        /\ run[h].at = "resolved" => run[h].into \in {"page", "database"}
    BY <1>0, <2>1 DEF Job, OneCard, Making, Unmade, Asked
  <2>3. ASSUME NEW at \in {"resolved", "card"}, NEW into, at = "card" \/ into \in {"page", "database"},
               run' = [run EXCEPT ![h].at = at, ![h].into = into],
               faults' = faults \/ faults' = faults + 1, parent' \in {"page", "database", None}
        PROVE  CardInv'
    <3>1. run'[h] = [run[h] EXCEPT !.at = at, !.into = into] BY <1>0, <2>3
    <3>2. /\ run'[h].at = at /\ run'[h].into = into /\ run'[h].project = run[h].project
          /\ {"project", "into"} \subseteq DOMAIN run'[h]
      BY <2>2, <3>1
    <3>3. Asked(h)' BY <2>3, <3>2 DEF Asked
    <3>4. \A g \in Handlers \ {h} : run'[g] = run[g] BY <1>0, <2>3
    <3> QED BY <1>2, <2>1, <2>3, <3>2, <3>3, <3>4
  <2>4. CASE Ends(h) /\ faults' = faults + 1 /\ parent' = parent
    <3>1. run'[h] = Idle /\ \A g \in Handlers \ {h} : run'[g] = run[g] BY <1>0, <2>4 DEF Ends
    <3>2. Asked(h)' BY <3>1 DEF Asked, Idle
    <3> QED BY <1>0, <1>2, <2>1, <2>4, <3>1, <3>2 DEF Rest
  <2>5. CASE ResolveParent(h)
    <3>1. parent' = parent /\ parent' \in {"page", "database", None}
      BY <1>0, <2>5 DEF ResolveParent, Rest
    <3>2. CASE run' = [run EXCEPT ![h].at = "card", ![h].into = parent] /\ UNCHANGED faults
      BY <2>3, <3>1, <3>2
    <3>3. CASE run' = [run EXCEPT ![h].at = "resolved", ![h].into = ParentIs] /\ UNCHANGED faults
      BY <2>3, <3>1, <3>3
    <3>4. CASE Fault /\ (run' = [run EXCEPT ![h].at = "resolved", ![h].into = "page"] \/ Ends(h))
      BY <2>3, <2>4, <3>1, <3>4 DEF Fault
    <3> QED BY <2>5, <3>2, <3>3, <3>4 DEF ResolveParent
  <2>6. CASE KeepParent(h)
    <3>1. /\ parent' = run[h].into /\ run' = [run EXCEPT ![h].at = "card"]
          /\ run[h].at = "resolved" /\ UNCHANGED faults
      BY <2>6 DEF KeepParent
    <3>2. run'[h] = [run[h] EXCEPT !.at = "card"] /\ \A g \in Handlers \ {h} : run'[g] = run[g]
      BY <1>0, <3>1
    <3>3. /\ run'[h].at = "card" /\ run'[h].project = run[h].project
          /\ "project" \in DOMAIN run'[h]
      BY <2>2, <3>2
    <3>4. Asked(h)' BY <3>3 DEF Asked
    <3> QED BY <1>2, <2>1, <2>2, <3>1, <3>2, <3>3, <3>4
  <2> QED BY <1>4, <2>5, <2>6
<1>5. CASE CreateCard(h)
  <2>1. run[h].at = "card" /\ UNCHANGED <<db, rows, parent, faults>> BY <1>5 DEF CreateCard
  <2>2. CASE Ends(h) /\ UNCHANGED cards
    BY <1>0, <1>2, <2>1, <2>2 DEF Ends, Rest, Asked, Idle
  <2>3. CASE AddCard(h) /\ run' = [run EXCEPT ![h] = [at |-> "link",
                                       project |-> run[h].project, card |-> Len(cards')]]
    BY <1>0, <1>3, <2>1, <2>3
  <2> QED BY <1>5, <2>2, <2>3 DEF CreateCard
<1>6. CASE CardLost(h)
  <2>1. /\ run[h].at = "card" /\ UNCHANGED <<db, rows, parent>> /\ Ends(h)
        /\ faults' = faults + 1 /\ (UNCHANGED cards \/ AddCard(h))
    BY <1>6 DEF CardLost, Fault
  <2>2. run'[h] = Idle /\ \A g \in Handlers \ {h} : run'[g] = run[g] BY <1>0, <2>1 DEF Ends
  <2>3. parent' \in {"page", "database", None} BY <1>0, <2>1 DEF Rest
  <2>4. Asked(h)' BY <2>2 DEF Asked, Idle
  <2> QED BY <1>2, <1>3, <2>1, <2>2, <2>3, <2>4
<1>7. CASE SetProjectNotionPage(h)
  <2>1. /\ UNCHANGED <<made, wanted, done, cards, parent>> /\ Ends(h) /\ run[h].at = "link"
        /\ faults' = faults \/ faults' = faults + 1
        /\ UNCHANGED page \/ page' = [page EXCEPT ![run[h].project] = run[h].card]
    BY <1>7 DEF SetProjectNotionPage, Fault, notion
  <2>2. run'[h] = Idle /\ \A g \in Handlers \ {h} : run'[g] = run[g] BY <1>0, <2>1 DEF Ends
  <2>3. run'[h].at \notin Ticking \cup Making BY <2>2 DEF Idle, Ticking, Making, Unmade
  <2>4. parent' \in {"page", "database", None} BY <1>0, <2>1 DEF Rest
  <2>5. Grows /\ MoreCards BY <2>1 DEF Grows, MoreCards
  <2>6. page[run[h].project] = None BY <1>0, <2>1 DEF OneCard, Making, Unmade
  <2>7. PagesStay BY <1>0, <2>1, <2>6 DEF PagesStay
  <2>8. OneCard'
    <3>1. ASSUME NEW g \in Handlers, run'[g].at \in Making
          PROVE  /\ run'[g] = run[g] /\ run[g].project \in Projects
                 /\ "project" \in DOMAIN run[g]
                 /\ run[g].project # run[h].project /\ page'[run[g].project] = None
      <4>1. g # h /\ run'[g] = run[g] BY <2>2, <2>3, <3>1
      <4>2. run[g].project \in Projects
        BY <1>0, <3>1, <4>1 DEF MirrorInv, Job, Making, Unmade
      <4>3. /\ run[g].project # run[h].project /\ page[run[g].project] = None
            /\ "project" \in DOMAIN run[g]
        BY <1>0, <2>1, <3>1, <4>1 DEF OneCard, Making, Unmade
      <4> QED BY <1>0, <2>1, <4>1, <4>2, <4>3
    <3>2. \A p : CardsOf(p)' = CardsOf(p) BY <2>1 DEF CardsOf
    <3>3. \A g \in Handlers : run'[g].at \in Unmade =>
              {i \in DOMAIN cards' : cards'[i].project = run'[g].project} = {}
      BY <1>0, <2>1, <3>1 DEF OneCard, CardsOf, Making, Unmade
    <3> QED BY <1>0, <2>1, <3>1, <3>3 DEF OneCard, CardsOf
  <2>9. Asked(h)' BY <2>2 DEF Asked, Idle
  <2> QED BY <1>1, <2>1, <2>2, <2>3, <2>4, <2>5, <2>7, <2>8, <2>9
<1>8. ASSUME NEW p \in Projects, AddProject(h, p) PROVE CardInv'
  <2>1. /\ p \notin made /\ made' = made \cup {p}
        /\ UNCHANGED <<wanted, done, page, cards, parent, faults>>
        /\ run' = [run EXCEPT ![h] = [at |-> "resolve", project |-> p, into |-> None]]
    BY <1>8 DEF AddProject, notion
  <2>2. /\ run'[h].at = "resolve" /\ run'[h].project = p
        /\ {"project", "into"} \subseteq DOMAIN run'[h]
        /\ \A g \in Handlers \ {h} : run'[g] = run[g]
    BY <1>0, <2>1
  <2>3. run'[h].at \notin Ticking /\ parent' \in {"page", "database", None}
    BY <1>0, <2>1, <2>2 DEF Ticking, Rest
  <2>4. Grows /\ MoreCards /\ PagesStay BY <2>1 DEF Grows, MoreCards, PagesStay
  <2>5. \A i \in DOMAIN cards : cards[i].project # p BY <1>0, <2>1 DEF OneCard
  <2>6. page[p] = None BY <1>0, <2>5 DEF Pages
  <2>7. \A g \in Handlers : run[g].at \in Making => run[g].project # p
    BY <2>1 DEF MirrorInv, Job, Making, Unmade
  <2>8. OneCard'
    <3>1. \A g \in Handlers : run'[g].at \in Making =>
              "project" \in DOMAIN run'[g] /\ page'[run'[g].project] = None
      BY <1>0, <2>1, <2>2, <2>6 DEF OneCard
    <3>2. \A g \in Handlers : run'[g].at \in Unmade =>
              {i \in DOMAIN cards' : cards'[i].project = run'[g].project} = {}
      BY <1>0, <2>1, <2>2, <2>5 DEF OneCard, CardsOf
    <3>3. \A g, f \in Handlers :
             g # f /\ run'[g].at \in Making /\ run'[f].at \in Making =>
                 run'[g].project # run'[f].project
      BY <1>0, <2>2, <2>7 DEF OneCard
    <3> QED BY <1>0, <2>1, <3>1, <3>2, <3>3 DEF OneCard, CardsOf
  <2>9. Asked(h)' BY <2>2 DEF Asked
  <2> QED BY <1>1, <2>1, <2>2, <2>3, <2>4, <2>8, <2>9
<1> QED BY <1>4, <1>5, <1>6, <1>7, <1>8 DEF CardStep

-----------------------------------------------------------------------------
(* A box is ticked.                                                         *)

LEMMA TickGrows ==
    ASSUME MirrorInv, NEW h \in Handlers, run[h].at = "tick", Tick(h), UNCHANGED <<db, rows>>
    PROVE  /\ Grows /\ MoreCards /\ DOMAIN cards' = DOMAIN cards
           /\ run[h].card \in DOMAIN cards
           /\ NameOf[run[h].task] \in cards'[run[h].card].ticked
<1> DEFINE c == run[h].card
           n == NameOf[run[h].task]
<1>1. cards \in Seq(Card) /\ c \in DOMAIN cards BY DEF MirrorInv, Board, Job
<1>2. cards' = [cards EXCEPT ![c].ticked = @ \cup {n}] BY DEF Tick
<1>3. cards[c] \in Card BY <1>1
<1>4. cards'[c] = [cards[c] EXCEPT !.ticked = @ \cup {n}] BY <1>1, <1>2
<1> HIDE DEF c, n
<1>5. cards'[c].project = cards[c].project /\ cards'[c].ticked = cards[c].ticked \cup {n}
  BY <1>3, <1>4 DEF Card
<1>6. DOMAIN cards' = DOMAIN cards /\ \A i \in DOMAIN cards : i # c => cards'[i] = cards[i]
  BY <1>1, <1>2
<1>7. MoreCards BY <1>5, <1>6 DEF MoreCards
<1>8. Grows BY TickShown
<1> QED BY <1>1, <1>5, <1>6, <1>7, <1>8 DEF c, n

LEMMA TickSteps ==
    ASSUME MirrorInv, CardInv, faults \in Nat, NEW h \in Handlers,
           TickStep(h) \/ \E t \in Tasks : MarkTaskDone(h, t)
    PROVE  CardInv'
<1>0. /\ OneCard /\ Rest /\ Sets /\ Pages /\ Job(h) /\ DOMAIN run = Handlers
      /\ DOMAIN page = Projects /\ made \subseteq Projects
      /\ \A g \in Handlers : Seen(g) /\ Asked(g)
  BY DEF MirrorInv, CardInv, Sets
<1>1. ASSUME Grows, MoreCards, DOMAIN cards' = DOMAIN cards, UNCHANGED <<page, parent>>,
             done' \subseteq Stored' \/ done' = done,
             faults' = faults \/ faults' = faults + 1,
             Seen(h)', run'[h].at \notin Making, \A g \in Handlers \ {h} : run'[g] = run[g]
      PROVE  CardInv'
  <2>1. PagesStay /\ Lasting BY <1>0, <1>1 DEF PagesStay, Lasting
  <2>2. \A g \in Handlers \ {h} : Seen(g)' BY <1>0, <1>1, <2>1, SeenStays
  <2>3. OneCard' BY <1>0, <1>1, OneCardStays DEF Grows
  <2>4. Rest' BY <1>0, <1>1, RestStays DEF Rest
  <2>5. \A g \in Handlers : Asked(g)' BY <1>0, <1>1 DEF Asked, Making, Unmade
  <2> QED BY <1>1, <2>2, <2>3, <2>4, <2>5 DEF CardInv
<1>2. ASSUME NEW t \in Tasks, MarkTaskDone(h, t) PROVE CardInv'
  <2>1. /\ t \in Stored /\ done' = done \cup {t}
        /\ UNCHANGED <<made, wanted, page, cards, parent, faults>>
        /\ run' = [run EXCEPT ![h] = [at |-> "lookup", task |-> t, then |-> page[ProjectOf[t]]]]
    BY <1>2 DEF MarkTaskDone, notion
  <2>2. Grows /\ MoreCards BY <2>1 DEF Grows, MoreCards
  <2>3. done' \subseteq Stored' BY <1>0, <2>1 DEF Rest, Stored
  <2>4. run'[h] = [at |-> "lookup", task |-> t, then |-> page[ProjectOf[t]]]
        /\ \A g \in Handlers \ {h} : run'[g] = run[g]
    BY <1>0, <2>1
  <2>5. ProjectOf[t] \in Projects BY MirrorAssumption
  <2>6. page[ProjectOf[t]] # None => ProjectOf[t] \in made
    BY <1>0, <2>5 DEF Pages, OneCard
  <2>7. Seen(h)' BY <2>1, <2>4, <2>6 DEF Seen
  <2>8. run'[h].at \notin Making BY <2>4 DEF Making, Unmade
  <2> QED BY <1>1, <2>1, <2>2, <2>3, <2>4, <2>7, <2>8
(* What was seen is known at each step after.                               *)
<1>3. ASSUME run[h].at \in Ticking
      PROVE  \E t \in Tasks : \E p \in Projects : \E then :
                 /\ t = run[h].task /\ p = ProjectOf[t] /\ then = run[h].then
                 /\ {"at", "task", "then"} \subseteq DOMAIN run[h]
                 /\ then # None => p \in made /\ page[p] = then
                 /\ faults = 0 /\ then # None /\ Same(t) = {p} =>
                        (run[h].at \in {"children", "tick"} => run[h].card = then)
  BY <1>0, <1>3, MirrorAssumption DEF Seen
<1>4. CASE FindCard(h)
  <2>1. run[h].at = "lookup" /\ UNCHANGED <<db, cards, parent, faults>> BY <1>4 DEF FindCard, notion
  <2>0. PICK t \in Tasks, p \in Projects : \E then :
           /\ t = run[h].task /\ p = ProjectOf[t] /\ then = run[h].then
           /\ {"at", "task", "then"} \subseteq DOMAIN run[h]
           /\ then # None => p \in made /\ page[p] = then
    BY <1>3, <2>1 DEF Ticking
  <2>2. PICK then :
           /\ t = run[h].task /\ p = ProjectOf[t] /\ then = run[h].then
           /\ {"at", "task", "then"} \subseteq DOMAIN run[h]
           /\ then # None => p \in made /\ page[p] = then
    BY <2>0, Zenon
  <2>3. Grows /\ MoreCards /\ Same(t)' = Same(t) BY <2>1 DEF Grows, MoreCards, Same, db
  <2>4. ASSUME run'[h].at \in {"marked", "children"}, run'[h].task = t, run'[h].then = then,
               {"at", "task", "then"} \subseteq DOMAIN run'[h],
               then # None /\ Same(t) = {p} => run'[h].at = "children" /\ run'[h].card = then,
               \A g \in Handlers \ {h} : run'[g] = run[g]
        PROVE  CardInv'
    <3>1. then # None => p \in made' /\ page'[p] = then BY <2>1, <2>2 DEF db
    <3>2. Seen(h)' BY <2>2, <2>3, <2>4, <3>1 DEF Seen
    <3>3. run'[h].at \notin Making BY <2>4 DEF Making, Unmade
    <3> QED BY <1>1, <2>1, <2>3, <2>4, <3>2, <3>3 DEF db
  <2>5. ASSUME run' = [run EXCEPT ![h].at = "marked"], ~(then # None /\ Same(t) = {p})
        PROVE  CardInv'
    <3>1. run'[h] = [run[h] EXCEPT !.at = "marked"] BY <1>0, <2>5
    <3>2. /\ run'[h].at = "marked" /\ run'[h].task = t /\ run'[h].then = then
          /\ {"at", "task", "then"} \subseteq DOMAIN run'[h]
      BY <2>2, <3>1
    <3> QED BY <2>4, <2>5, <3>2
  <2>6. CASE Same(t) = {} /\ run' = [run EXCEPT ![h].at = "marked"] BY <2>5, <2>6
  <2>7. ASSUME NEW q \in Same(t),
               run' = [run EXCEPT ![h] = IF page[q] = None THEN [@ EXCEPT !.at = "marked"]
                                         ELSE [at |-> "children", task |-> @.task,
                                               then |-> @.then, card |-> page[q]]]
        PROVE  CardInv'
    <3>1. CASE page[q] = None
      <4>1. run' = [run EXCEPT ![h] = [run[h] EXCEPT !.at = "marked"]] BY <2>7, <3>1
      <4>2. run' = [run EXCEPT ![h].at = "marked"] BY <1>0, <4>1
      <4> QED BY <2>2, <2>5, <2>7, <3>1, <4>2
    <3>2. CASE page[q] # None
      <4>1. run'[h] = [at |-> "children", task |-> run[h].task,
                       then |-> run[h].then, card |-> page[q]]
            /\ \A g \in Handlers \ {h} : run'[g] = run[g]
        BY <1>0, <2>7, <3>2
      <4>2. then # None /\ Same(t) = {p} => page[q] = then BY <2>2, <2>7
      <4>3. /\ run'[h].at = "children" /\ run'[h].task = t /\ run'[h].then = then
            /\ run'[h].card = page[q] /\ {"at", "task", "then"} \subseteq DOMAIN run'[h]
        BY <2>2, <4>1
      <4> QED BY <2>4, <4>1, <4>2, <4>3
    <3> QED BY <3>1, <3>2
  <2> QED BY <1>4, <2>2, <2>6, <2>7 DEF FindCard
<1>5. CASE FindTodo(h)
  <2>1. /\ run[h].at = "children" /\ UNCHANGED <<db, cards, parent>>
        /\ \/ /\ run' = [run EXCEPT ![h].at =
                     IF NameOf[run[h].task] \in Checklist(run[h].card) THEN "tick" ELSE "marked"]
              /\ faults' = faults
           \/ faults' = faults + 1 /\ run' = [run EXCEPT ![h].at = "marked"]
    BY <1>5 DEF FindTodo, Fault, notion
  <2>0. PICK t \in Tasks, p \in Projects : \E then :
           /\ t = run[h].task /\ p = ProjectOf[t] /\ then = run[h].then
           /\ {"at", "task", "then"} \subseteq DOMAIN run[h]
           /\ then # None => p \in made /\ page[p] = then
           /\ faults = 0 /\ then # None /\ Same(t) = {p} => run[h].card = then
    BY <1>3, <2>1 DEF Ticking
  <2>2. PICK then :
           /\ t = run[h].task /\ p = ProjectOf[t] /\ then = run[h].then
           /\ {"at", "task", "then"} \subseteq DOMAIN run[h]
           /\ then # None => p \in made /\ page[p] = then
           /\ faults = 0 /\ then # None /\ Same(t) = {p} => run[h].card = then
    BY <2>0, Zenon
  <2>3. /\ Grows /\ MoreCards /\ Same(t)' = Same(t)
        /\ Checklist(then)' = Checklist(then)
    BY <2>1 DEF Grows, MoreCards, Same, Checklist, Elements, db
  <2>4. PICK at : /\ run'[h] = [run[h] EXCEPT !.at = at] /\ at \in {"tick", "marked"}
                  /\ at = "marked" => \/ faults' = faults + 1
                                      \/ NameOf[t] \notin Checklist(run[h].card)
                  /\ \A g \in Handlers \ {h} : run'[g] = run[g]
    BY <1>0, <2>1, <2>2
  <2>5. /\ run'[h].at = at /\ run'[h].task = t /\ run'[h].then = then
        /\ {"at", "task", "then"} \subseteq DOMAIN run'[h]
    BY <2>2, <2>4
  <2>6. "card" \in DOMAIN run[h] => run'[h].card = run[h].card BY <2>4
  <2>7. then # None => p \in made' /\ page'[p] = then BY <2>1, <2>2 DEF db
  <2>8. faults' = 0 => faults = 0 /\ (at = "marked" => NameOf[t] \notin Checklist(run[h].card))
    BY <1>0, <2>1, <2>4
  <2>9. Seen(h)' BY <1>0, <2>1, <2>2, <2>3, <2>4, <2>5, <2>6, <2>7, <2>8 DEF Seen
  <2>10. run'[h].at \notin Making BY <2>4, <2>5 DEF Making, Unmade
  <2> QED BY <1>1, <2>1, <2>3, <2>4, <2>9, <2>10 DEF db
<1>6. CASE TickTodo(h)
  <2>1. /\ run[h].at = "tick" /\ UNCHANGED <<db, rows, parent>>
        /\ \/ Tick(h) /\ faults' = faults
           \/ faults' = faults + 1 /\ (cards' = cards \/ Tick(h))
        /\ run' = [run EXCEPT ![h].at = "marked"]
    BY <1>6 DEF TickTodo, Fault
  <2>0. PICK t \in Tasks, p \in Projects : \E then :
           /\ t = run[h].task /\ p = ProjectOf[t] /\ then = run[h].then
           /\ {"at", "task", "then"} \subseteq DOMAIN run[h]
           /\ then # None => p \in made /\ page[p] = then
           /\ faults = 0 /\ then # None /\ Same(t) = {p} => run[h].card = then
    BY <1>3, <2>1 DEF Ticking
  <2>2. PICK then :
           /\ t = run[h].task /\ p = ProjectOf[t] /\ then = run[h].then
           /\ {"at", "task", "then"} \subseteq DOMAIN run[h]
           /\ then # None => p \in made /\ page[p] = then
           /\ faults = 0 /\ then # None /\ Same(t) = {p} => run[h].card = then
    BY <2>0, Zenon
  <2>3. /\ run'[h].at = "marked" /\ run'[h].task = t /\ run'[h].then = then
        /\ {"at", "task", "then"} \subseteq DOMAIN run'[h]
        /\ \A g \in Handlers \ {h} : run'[g] = run[g]
    BY <1>0, <2>1, <2>2
  <2>4. /\ Grows /\ MoreCards /\ DOMAIN cards' = DOMAIN cards
        /\ Tick(h) => NameOf[t] \in cards'[run[h].card].ticked
    <3>1. CASE Tick(h) BY <2>1, <2>2, <3>1, TickGrows
    <3>2. CASE ~Tick(h) BY <2>1, <3>2 DEF Grows, MoreCards, db
    <3> QED BY <3>1, <3>2
  <2>5. Same(t)' = Same(t) /\ (then # None => p \in made' /\ page'[p] = then)
    BY <2>1, <2>2 DEF Same, db
  <2>6. faults' = 0 => faults = 0 /\ Tick(h) BY <1>0, <2>1
  <2>7. Seen(h)' BY <2>2, <2>3, <2>4, <2>5, <2>6 DEF Seen
  <2>8. run'[h].at \notin Making BY <2>3 DEF Making, Unmade
  <2> QED BY <1>1, <2>1, <2>3, <2>4, <2>7, <2>8 DEF db
<1>7. CASE Marked(h)
  <2>1. UNCHANGED <<db, cards, parent, faults>> /\ Ends(h) BY <1>7 DEF Marked, notion
  <2>2. run'[h] = Idle /\ \A g \in Handlers \ {h} : run'[g] = run[g] BY <1>0, <2>1 DEF Ends
  <2>3. Grows /\ MoreCards BY <2>1 DEF Grows, MoreCards, db
  <2>4. Seen(h)' /\ run'[h].at \notin Making BY <2>2 DEF Seen, Idle, Ticking, Making, Unmade
  <2> QED BY <1>1, <2>1, <2>2, <2>3, <2>4 DEF db
<1> QED BY <1>2, <1>4, <1>5, <1>6, <1>7 DEF TickStep

-----------------------------------------------------------------------------
(* The theorems                                                             *)

LEMMA CardInit == Init => CardInv
<1> SUFFICES ASSUME Init PROVE CardInv OBVIOUS
<1>1. cards = <<>> /\ done = {} /\ parent = None /\ \A h \in Handlers : run[h].at = "idle"
  BY DEF Init, Idle
<1>2. OneCard BY <1>1 DEF OneCard, Making, Unmade
<1>3. Rest BY <1>1 DEF Rest
<1>4. \A h \in Handlers : Seen(h) /\ Asked(h) BY <1>1 DEF Seen, Ticking, Asked
<1> QED BY <1>2, <1>3, <1>4 DEF CardInv

THEOREM CardsHold == Spec => []CardInv
<1>1. MirrorInv /\ MirrorInv' /\ KnowsInv /\ CardInv /\ [Next]_vars => CardInv'
  <2> SUFFICES ASSUME MirrorInv, MirrorInv', KnowsInv, CardInv, [Next]_vars PROVE CardInv'
    OBVIOUS
  <2>0. faults \in Nat /\ Rest BY DEF KnowsInv, Kinds, CardInv
  <2>1. CASE \E h \in Handlers :
                \/ PushStep(h)
                \/ \E p \in Projects : CommitPlan(h, p)
                \/ \E t \in Tasks : CaptureTask(h, t)
    <3>1. /\ UNCHANGED <<page, cards, done, parent>>
          /\ faults' = faults \/ faults' = faults + 1
          /\ wanted \subseteq wanted' /\ made \subseteq made'
          /\ \A g \in Handlers : run'[g] = run[g] \/ run'[g].at \notin Making \cup Ticking
      BY <2>1, NotCarding
    <3>2. Grows BY <3>1 DEF Grows
    <3> QED BY <2>0, <3>1, <3>2, Aside DEF Rest
  <2>2. CASE EditBoard \/ Crash \/ UNCHANGED vars
    <3>1. /\ UNCHANGED <<db, cards>> /\ (faults' = faults \/ faults' = faults + 1)
          /\ parent' \in {parent, None}
          /\ run' = run \/ run' = [h \in Handlers |-> Idle]
      BY <2>2 DEF EditBoard, Crash, Fault, vars, notion, db
    <3>2. Grows BY <3>1 DEF Grows, db
    <3>3. \A g \in Handlers : run'[g] = run[g] \/ run'[g].at \notin Making \cup Ticking
      BY <3>1 DEF Idle, Making, Unmade, Ticking
    <3> QED BY <2>0, <3>1, <3>2, <3>3, Aside DEF Rest, db
  <2>3. CASE \E h \in Handlers : CardStep(h) \/ \E p \in Projects : AddProject(h, p)
    BY <2>0, <2>3, CardSteps, MirrorAssumption
  <2>4. CASE \E h \in Handlers : TickStep(h) \/ \E t \in Tasks : MarkTaskDone(h, t)
    BY <2>0, <2>4, TickSteps
  <2>5. ASSUME NEW h \in Handlers, Step(h) PROVE PushStep(h) \/ CardStep(h) \/ TickStep(h)
    BY <2>5 DEF Step, PushStep, CardStep, TickStep
  <2>6. ASSUME NEW h \in Handlers, Step(h) PROVE CardInv'
    BY <2>1, <2>3, <2>4, <2>5, <2>6
  <2>7. ASSUME NEW h \in Handlers, NEW p \in Projects, AddProject(h, p) \/ CommitPlan(h, p)
        PROVE  CardInv'
    BY <2>1, <2>3, <2>7
  <2>8. ASSUME NEW h \in Handlers, NEW t \in Tasks, CaptureTask(h, t) \/ MarkTaskDone(h, t)
        PROVE  CardInv'
    <3>1. CASE CaptureTask(h, t) BY <2>1, <3>1
    <3>2. CASE MarkTaskDone(h, t) BY <2>4, <3>2
    <3> QED BY <2>8, <3>1, <3>2
  <2> QED BY <2>2, <2>6, <2>7, <2>8 DEF Next
<1> QED BY <1>1, CardInit, MirrorHolds, KnowsHolds, PTL DEF Spec

(* A project has at most one card and its page is that card, whoever else    *)
(* adds projects and whatever answer is lost (create_card and                *)
(* set_project_notion_page); a task is done only if it is stored; a schema   *)
(* is never newer than the board.                                           *)
THEOREM TypesHold == Spec => []TypeOK
<1>1. MirrorInv /\ KnowsInv /\ CountsInv /\ CardInv => TypeOK
  <2> SUFFICES ASSUME MirrorInv, KnowsInv, CountsInv, CardInv PROVE TypeOK OBVIOUS
  <2>1. \A i \in DOMAIN rows : rows[i].task \in Tasks
    BY DEF CountsInv, Single, MirrorInv, Sets
  <2>2. schema \in 0..columns \cup {None} BY DEF KnowsInv, Kinds
  <2>3. /\ done \subseteq Stored /\ parent \in {"page", "database", None}
        /\ \A i, j \in DOMAIN cards : cards[i].project = cards[j].project => i = j
    BY DEF CardInv, Rest, OneCard
  <2> QED BY <2>1, <2>2, <2>3 DEF TypeOK, MirrorInv, Pages
<1> QED BY <1>1, CardsHold, CountsHolds, KnowsHolds, MirrorHolds, PTL

(* Where nothing fails, "done" ticks the box of its task, provided the       *)
(* project had its card when it began and no other stored project has its    *)
(* title (mark_task_done and _tick_notion).                                  *)
THEOREM DoneTicks == Spec => []DoneIsTicked
<1>1. CardInv => DoneIsTicked BY DEF CardInv, Seen, DoneIsTicked, Ticking
<1> QED BY <1>1, CardsHold, PTL
=============================================================================
