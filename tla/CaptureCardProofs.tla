-------------------------- MODULE CaptureCardProofs --------------------------
(***************************************************************************)
(* What users see.  A card is made when its task is written, and from then   *)
(* on the task only gains people, or is marked as given to somebody else; a  *)
(* merge puts a person on the task with the entry, and on the card from the  *)
(* entry, if it comes to its end.  Other handlers write other rows meanwhile, *)
(* or give a task to somebody else.  A button of a keyboard means one of the *)
(* options stored for the user, which whatever other dialogue he is in       *)
(* stores anew.                                                              *)
(***************************************************************************)
EXTENDS CaptureProofs, FiniteSetTheorems

Holds(task, people) ==
    task \in DOMAIN tasks /\ (tasks[task].moved \/ people \subseteq tasks[task].people)

CardTrue(card) ==
    Holds(card.task, card.people) /\ projects[tasks[card.task].project].title = card.project

(* An entry of a title is the task of its card.                             *)
Entered(box, entry) ==
    /\ Holds(entry.task, entry.people)
    /\ entry.card \in DOMAIN box.cards /\ box.cards[entry.card].task = entry.task

Shown(box) ==
    /\ \A i \in DOMAIN box.cards : CardTrue(box.cards[i])
    /\ \A t \in DOMAIN box.merged : Entered(box, box.merged[t])
    /\ \A k \in box.wrote \ box.broken : \E i \in DOMAIN box.cards : box.cards[i].task = k
    /\ box.last = "proposed" => box.proposed # None

ShownAt(h) ==
    /\ run[h].at \in InTurn => Shown(run[h].box)
    /\ run[h].at = "answer" =>
           /\ Shown(run[h].box)
           /\ run[h].cards = run[h].box.cards /\ run[h].proposed = run[h].box.proposed

CardInv == Inv /\ \A h \in Handlers : ShownAt(h)

-----------------------------------------------------------------------------
(* What is held stays so while the rows grow.                               *)

LEMMA HoldsStays ==
    ASSUME StoreInv, StoreGrows, NEW CONSTANT k, NEW CONSTANT people, Holds(k, people)
    PROVE  Holds(k, people)' /\ tasks'[k].project = tasks[k].project
           /\ projects'[tasks'[k].project] = projects[tasks[k].project]
<1>1. k \in DOMAIN tasks /\ k \in DOMAIN tasks' /\ Keeps(tasks[k], tasks'[k])
  BY DEF Holds, StoreGrows
<1>2. tasks[k].project \in DOMAIN projects
  BY <1>1 DEF StoreInv, References
<1> QED BY <1>1, <1>2 DEF Holds, Keeps, StoreGrows

LEMMA TrueStays ==
    ASSUME StoreInv, StoreGrows, NEW CONSTANT card, CardTrue(card)
    PROVE  CardTrue(card)'
<1>1. PICK k : k = card.task
  OBVIOUS
<1>2. PICK people : people = card.people
  OBVIOUS
<1>3. Holds(k, people)
  BY <1>1, <1>2 DEF CardTrue
<1>4. Holds(k, people)' /\ projects'[tasks'[k].project] = projects[tasks[k].project]
  BY <1>3, HoldsStays
<1> QED BY <1>1, <1>2, <1>4 DEF CardTrue

LEMMA ShownStays ==
    ASSUME StoreInv, StoreGrows, NEW CONSTANT box, Shown(box)
    PROVE  Shown(box)'
<1>1. ASSUME NEW CONSTANT i \in DOMAIN box.cards PROVE CardTrue(box.cards[i])'
  <2>1. PICK card : card = box.cards[i]
    OBVIOUS
  <2>2. CardTrue(card)
    BY <2>1 DEF Shown
  <2>3. CardTrue(card)'
    BY <2>2, TrueStays
  <2> QED BY <2>1, <2>3
<1>2. ASSUME NEW CONSTANT t \in DOMAIN box.merged PROVE Entered(box, box.merged[t])'
  <2>1. PICK k : k = box.merged[t].task
    OBVIOUS
  <2>2. PICK people : people = box.merged[t].people
    OBVIOUS
  <2>3. Entered(box, box.merged[t])
    BY DEF Shown
  <2>4. Holds(k, people)
    BY <2>1, <2>2, <2>3 DEF Entered
  <2>5. Holds(k, people)'
    BY <2>4, HoldsStays
  <2> QED BY <2>1, <2>2, <2>3, <2>5 DEF Entered
<1> QED BY <1>1, <1>2 DEF Shown

(* A handler that does nothing keeps its cards.                             *)
LEMMA RestShown ==
    ASSUME CardInv, StoreGrows, NEW h \in Handlers, run'[h] = run[h]
    PROVE  ShownAt(h)'
<1>1. PICK r : r = run[h]
  OBVIOUS
<1>2. PICK box : box = r.box
  OBVIOUS
<1>3. (r.at \in InTurn \/ r.at = "answer") => Shown(box)
  BY <1>1, <1>2 DEF CardInv, ShownAt
<1>4. (r.at \in InTurn \/ r.at = "answer") => Shown(box)'
  BY <1>3, ShownStays DEF CardInv, Inv
<1>5. run[h].at = "answer" =>
          run[h].cards = run[h].box.cards /\ run[h].proposed = run[h].box.proposed
  BY DEF CardInv, ShownAt
<1>6. run'[h] = r /\ run'[h].box = box
  BY <1>1, <1>2
<1> QED BY <1>1, <1>4, <1>5, <1>6 DEF ShownAt

(* A handler whose toolbox is as true as before.                            *)
LEMMA TurnShown ==
    ASSUME NEW h \in Handlers, NEW CONSTANT box, run'[h].box = box, Shown(box)',
           run'[h].at # "answer"
    PROVE  ShownAt(h)'
BY DEF ShownAt

LEMMA TurnHolds ==
    ASSUME CardInv, NEW h \in Handlers, run[h].at \in InTurn
    PROVE  Shown(Box(h))
BY DEF CardInv, ShownAt, Box

-----------------------------------------------------------------------------
(* The steps that change a toolbox                                          *)

(* Only the pending capture or the proposal.                                *)
LEMMA SameCards ==
    ASSUME NEW CONSTANT old, NEW CONSTANT box, Shown(old),
           box.cards = old.cards, box.merged = old.merged,
           box.wrote \ box.broken \subseteq old.wrote \ old.broken,
           box.last = "proposed" => box.proposed # None
    PROVE  Shown(box)
BY DEF Shown, Entered

SameBox(old, box) ==
    box.cards = old.cards /\ box.merged = old.merged /\ box.refused = old.refused

LEMMA PlainShown ==
    ASSUME CardInv, StoreGrows, NEW h \in Handlers, PlainCall(h)
    PROVE  /\ ShownAt(h)' /\ \A g \in Handlers \ {h} : run'[g] = run[g]
           /\ run'[h].at \in {"model", "tool"} /\ SameBox(run[h].box, run'[h].box)
<1>1. run[h].at = "tool" /\ run[h].calls # <<>> /\ UNCHANGED <<capture, wired, fsm>>
  BY PlainCalls DEF CardInv, Inv
<1>2. run[h].at \in InTurn /\ capture[h] = NoCapture /\ Box(h) \in Boxes
  BY <1>1, Calling DEF CardInv, Inv
<1>3. PICK old \in Boxes : old = Box(h)
  BY <1>2
<1>4. Shown(old)
  BY <1>2, <1>3, TurnHolds
<1>5. PICK box \in Boxes :
          /\ Result(h, box)
          /\ \/ box = Box(h)
             \/ box = [Box(h) EXCEPT !.other = TRUE]
             \/ \E w \in Slots : box = [Box(h) EXCEPT !.pending = w]
             \/ \E p \in Nat \cup {None} : \E l \in {"proposed", "refused"} :
                    /\ box = [Box(h) EXCEPT !.proposed = p, !.last = l]
                    /\ l = "proposed" => p \in Nat
  BY PlainCalls, Zenon DEF CardInv, Inv
<1>6. /\ box.cards = old.cards /\ box.merged = old.merged
      /\ box.wrote = old.wrote /\ box.broken = old.broken
      /\ box.last = "proposed" => box.proposed # None
  <2>1. old.last = "proposed" => old.proposed # None
    BY <1>4 DEF Shown
  <2>2. CASE box = old
    BY <2>1, <2>2
  <2>3. ASSUME NEW w \in Slots,
               box = [old EXCEPT !.pending = w] \/ box = [old EXCEPT !.other = TRUE]
        PROVE  /\ box.cards = old.cards /\ box.merged = old.merged
               /\ box.wrote = old.wrote /\ box.broken = old.broken
               /\ box.last = "proposed" => box.proposed # None
    BY <2>1, <2>3 DEF Boxes
  <2>4. ASSUME NEW p \in Nat \cup {None}, NEW l \in {"proposed", "refused"},
               box = [old EXCEPT !.proposed = p, !.last = l], l = "proposed" => p \in Nat
        PROVE  /\ box.cards = old.cards /\ box.merged = old.merged
               /\ box.wrote = old.wrote /\ box.broken = old.broken
               /\ box.last = "proposed" => box.proposed # None
    BY <2>4, CaptureAssumption DEF Boxes
  <2>5. CASE box = [old EXCEPT !.other = TRUE]
    BY <2>3, <2>5, EmptySlots
  <2> QED BY <1>3, <1>5, <2>2, <2>3, <2>4, <2>5
<1>7. Shown(box)
  BY <1>4, <1>6, SameCards
<1>8. Shown(box)'
  BY <1>7, ShownStays DEF CardInv, Inv
<1>9. run'[h].box = box /\ run'[h].at \in {"model", "tool"}
      /\ \A g \in Handlers \ {h} : run'[g] = run[g]
  BY <1>1, <1>2, <1>5, ResultJob DEF CardInv, Inv
<1>10. SameBox(run[h].box, run'[h].box)
  <2>1. run[h].box = old
    BY <1>3 DEF Box
  <2>2. box.cards = old.cards /\ box.merged = old.merged /\ box.refused = old.refused
    BY <1>3, <1>5 DEF Boxes
  <2> QED BY <1>9, <2>1, <2>2 DEF SameBox
<1> QED BY <1>8, <1>9, <1>10, TurnShown

(* A person put on a task, by the entry.                                    *)
LEMMA MergedShown ==
    ASSUME CardInv, StoreGrows, NEW h \in Handlers, MergePerson(h)
    PROVE  ShownAt(h)' /\ \A g \in Handlers \ {h} : run'[g] = run[g]
<1>1. run[h].at = "merge"
  BY DEF MergePerson
<1>2. /\ run[h].at \in InTurn /\ Box(h) \in Boxes /\ h \in DOMAIN run
      /\ Wanted(h).title \in DOMAIN Box(h).merged /\ Entry(h) \in Entries
  BY <1>1, Merging DEF CardInv, Inv
<1>3. PICK old \in Boxes : old = Box(h)
  BY <1>2
<1>4. PICK title : title = Wanted(h).title
  OBVIOUS
<1>5. PICK e : e = old.merged[title]
  OBVIOUS
<1>6. title \in DOMAIN old.merged /\ e = Entry(h) /\ e.people \in SUBSET Known
  BY <1>2, <1>3, <1>4, <1>5 DEF Entry, Entries
<1>7. PICK who \in SUBSET Known, box \in Boxes, r \in Turns :
          /\ tasks' = [tasks EXCEPT ![Entry(h).task].people = @ \cup who]
          /\ box = WithPeople(Box(h), Wanted(h).title, Entry(h).people \cup who)
          /\ run' = [run EXCEPT ![h] = r] /\ r.box = box /\ r.at = "merge"
          /\ r.calls = run[h].calls
  BY MergePersonBox, Zenon DEF CardInv, Inv
<1>8. PICK people \in SUBSET Known : people = e.people \cup who
  BY <1>6
<1>9. /\ DOMAIN box.merged = DOMAIN old.merged
      /\ \A t \in DOMAIN old.merged :
             /\ box.merged[t].task = old.merged[t].task
             /\ box.merged[t].card = old.merged[t].card
             /\ box.merged[t].people = IF t = title THEN people ELSE old.merged[t].people
      /\ box.cards = old.cards /\ box.wrote = old.wrote /\ box.broken = old.broken
      /\ box.last = old.last /\ box.proposed = old.proposed
  <2>1. box = WithPeople(old, title, people)
    BY <1>3, <1>4, <1>6, <1>7, <1>8
  <2> QED BY <1>6, <2>1, MergedBox
<1>10. Shown(old) /\ Shown(old)'
  BY <1>2, <1>3, TurnHolds, ShownStays DEF CardInv, Inv
<1>11. Holds(e.task, people)'
  <2>1. e.task \in DOMAIN tasks
    BY <1>5, <1>6, <1>10 DEF Shown, Entered, Holds
  <2>2. tasks' = [tasks EXCEPT ![e.task].people = @ \cup who]
    BY <1>6, <1>7
  <2>3. tasks'[e.task].people = tasks[e.task].people \cup who
    BY <2>1, <2>2, GivenOne DEF CardInv, Inv
  <2>4. Holds(e.task, e.people)'
    BY <1>5, <1>6, <1>10 DEF Shown, Entered
  <2>5. Holds(e.task, e.people)
    BY <1>5, <1>6, <1>10 DEF Shown, Entered
  <2>6. Keeps(tasks[e.task], tasks'[e.task])
    BY <2>1 DEF StoreGrows
  <2> QED BY <1>8, <2>3, <2>4, <2>5, <2>6 DEF Holds, Keeps
<1>12. \A t \in DOMAIN box.merged : Entered(box, box.merged[t])'
  <2> SUFFICES ASSUME NEW CONSTANT t \in DOMAIN box.merged
               PROVE  Entered(box, box.merged[t])'
    OBVIOUS
  <2>1. Entered(old, old.merged[t])'
    BY <1>9, <1>10 DEF Shown
  <2>2. CASE t = title
    BY <1>5, <1>9, <1>11, <2>1, <2>2 DEF Entered
  <2>3. CASE t # title
    BY <1>9, <2>1, <2>3 DEF Entered
  <2> QED BY <2>2, <2>3
<1>13. Shown(box)'
  BY <1>9, <1>10, <1>12 DEF Shown
<1>14. run'[h] = r /\ \A g \in Handlers \ {h} : run'[g] = run[g]
  BY <1>2, <1>7
<1> QED BY <1>7, <1>13, <1>14, TurnShown

(* The card gets the people of its entry.                                   *)
LEMMA MergeEndShown ==
    ASSUME CardInv, StoreGrows, NEW h \in Handlers, MergeShown(h) \/ MergeRefused(h)
    PROVE  ShownAt(h)' /\ \A g \in Handlers \ {h} : run'[g] = run[g]
<1>1. run[h].at = "merge" /\ UNCHANGED <<capture, wired, fsm>>
  BY DEF MergeShown, MergeRefused, store
<1>2. /\ run[h].at \in InTurn /\ Box(h) \in Boxes /\ run[h].calls # <<>>
      /\ capture[h] = NoCapture
      /\ Wanted(h).title \in DOMAIN Box(h).merged /\ Entry(h) \in Entries
  BY <1>1, Merging DEF CardInv, Inv
<1>3. PICK old \in Boxes : old = Box(h)
  BY <1>2
<1>4. Shown(old)
  BY <1>2, <1>3, TurnHolds
<1>5. ASSUME NEW box \in Boxes, Result(h, box), Shown(box)
      PROVE  ShownAt(h)' /\ \A g \in Handlers \ {h} : run'[g] = run[g]
  <2>1. PICK b : b = box
    OBVIOUS
  <2>2. Shown(b)'
    BY <1>5, <2>1, ShownStays DEF CardInv, Inv
  <2>3. run'[h].box = b /\ run'[h].at \in {"model", "tool"}
        /\ \A g \in Handlers \ {h} : run'[g] = run[g]
    BY <1>1, <1>2, <1>5, <2>1, ResultJob DEF CardInv, Inv
  <2> QED BY <2>2, <2>3, TurnShown
<1>6. CASE MergeRefused(h)
  <2>1. PICK refused \in SUBSET Nat : refused = old.refused \cup {Entry(h).card}
    BY <1>2 DEF Boxes, Entries
  <2>2. PICK box : box = [old EXCEPT !.refused = refused]
    OBVIOUS
  <2>3. /\ box \in Boxes /\ box.cards = old.cards /\ box.merged = old.merged
        /\ box.wrote = old.wrote /\ box.broken = old.broken
        /\ box.last = old.last /\ box.proposed = old.proposed
    BY <2>2 DEF Boxes
  <2>4. Shown(box)
    BY <1>4, <2>3, SameCards DEF Shown
  <2>5. Result(h, box)
    BY <1>3, <1>6, <2>1, <2>2 DEF MergeRefused
  <2> QED BY <1>5, <2>3, <2>4, <2>5
<1>7. CASE MergeShown(h)
  <2>1. PICK e \in Entries : e = Entry(h)
    BY <1>2
  <2>2. Entered(old, e)
    BY <1>2, <1>3, <1>4, <2>1 DEF Shown, Entry
  <2>3. PICK cards : cards = CardWith(old.cards, e.card, e.people)
    OBVIOUS
  <2>4. /\ cards \in Seq(Cards) /\ DOMAIN cards = DOMAIN old.cards
        /\ \A i \in DOMAIN old.cards :
               /\ cards[i].task = old.cards[i].task /\ cards[i].project = old.cards[i].project
               /\ cards[i].people = IF i = e.card THEN e.people ELSE old.cards[i].people
    <3>1. old.cards \in Seq(Cards) /\ e.people \in SUBSET Known
      BY DEF Boxes, Entries
    <3> QED BY <2>3, <3>1, CardPeople
  <2>5. PICK box : box = [old EXCEPT !.cards = cards, !.refused = @ \ {e.card}]
    OBVIOUS
  <2>6. box = [Box(h) EXCEPT !.cards[Entry(h).card].people = Entry(h).people,
                             !.refused = @ \ {Entry(h).card}]
    BY <1>3, <2>1, <2>3, <2>5 DEF CardWith
  <2>7. box \in Boxes /\ box.cards = cards /\ box.merged = old.merged
        /\ box.wrote = old.wrote /\ box.broken = old.broken
        /\ box.last = old.last /\ box.proposed = old.proposed
    BY <2>4, <2>5 DEF Boxes
  <2>8. \A i \in DOMAIN box.cards : CardTrue(box.cards[i])
    BY <1>4, <2>2, <2>4, <2>7 DEF Shown, Entered, CardTrue
  <2>9. \A t \in DOMAIN box.merged : Entered(box, box.merged[t])
    BY <1>4, <2>4, <2>7 DEF Shown, Entered
  <2>10. \A k \in box.wrote \ box.broken : \E i \in DOMAIN box.cards : box.cards[i].task = k
    BY <1>4, <2>4, <2>7 DEF Shown
  <2>11. Shown(box)
    BY <1>4, <2>7, <2>8, <2>9, <2>10 DEF Shown
  <2> QED BY <1>5, <1>7, <2>6, <2>7, <2>11 DEF MergeShown
<1> QED BY <1>6, <1>7

(* A capture that has come to its end: a card more, nothing, or a task that  *)
(* was being written and is named in no card.                               *)
LEMMA CapturedShown ==
    ASSUME CardInv, StoreGrows, NEW h \in Handlers,
           Captured(h) \/ CaptureRefused(h) \/ CaptureBroken(h)
    PROVE  ShownAt(h)' /\ \A g \in Handlers \ {h} : run'[g] = run[g]
<1>1. run[h].at = "capturing" /\ run[h].at \in InTurn /\ UNCHANGED <<wired, fsm>>
      /\ capture'[h] = NoCapture /\ \A g \in Handlers \ {h} : capture'[g] = capture[g]
  BY Left DEF Captured, CaptureRefused, CaptureBroken, InTurn, CardInv, Inv
<1>2. /\ Box(h) \in Boxes /\ run[h].calls # <<>> /\ Wanted(h).title \in Titles
      /\ capture[h].task \in Nat
      /\ capture[h].at = "captured" => CardOf(h) \in Cards /\ EntryOf(h) \in Entries
  BY <1>1, Capturing DEF CardInv, Inv
<1>3. PICK old \in Boxes : old = Box(h)
  BY <1>2
<1>4. Shown(old)
  BY <1>1, <1>3, TurnHolds
<1>5. ASSUME NEW box \in Boxes, Result(h, box), Shown(box)
      PROVE  ShownAt(h)' /\ \A g \in Handlers \ {h} : run'[g] = run[g]
  <2>1. PICK b : b = box
    OBVIOUS
  <2>2. Shown(b)'
    BY <1>5, <2>1, ShownStays DEF CardInv, Inv
  <2>3. run'[h].box = b /\ run'[h].at \in {"model", "tool"}
        /\ \A g \in Handlers \ {h} : run'[g] = run[g]
    BY <1>1, <1>2, <1>5, <2>1, ResultJob DEF CardInv, Inv
  <2> QED BY <2>2, <2>3, TurnShown
<1>6. CASE CaptureRefused(h)
  BY <1>3, <1>4, <1>5, <1>6 DEF CaptureRefused
<1>7. CASE CaptureBroken(h)
  <2>1. PICK torn \in SUBSET Nat : torn = {capture[h].task} \ {0}
    BY <1>2
  <2>2. PICK box : box = [old EXCEPT !.wrote = @ \cup torn, !.broken = @ \cup torn]
    OBVIOUS
  <2>3. box \in Boxes
    BY <2>2, BrokenBox
  <2>4. box.cards = old.cards /\ box.merged = old.merged /\ box.last = old.last
        /\ box.proposed = old.proposed
        /\ box.wrote = old.wrote \cup torn /\ box.broken = old.broken \cup torn
    BY <2>2 DEF Boxes
  <2>5. Shown(box)
    BY <1>4, <2>4, SameCards DEF Shown
  <2>6. Result(h, box)
    BY <1>3, <1>7, <2>1, <2>2 DEF CaptureBroken
  <2> QED BY <1>5, <2>3, <2>5, <2>6
<1>8. CASE Captured(h)
  <2>1. capture[h].at = "captured"
    BY <1>8 DEF Captured, Leave
  <2>2. PICK card \in Cards : card = CardOf(h)
    BY <1>2, <2>1
  <2>3. PICK e \in Entries : e = EntryOf(h)
    BY <1>2, <2>1
  <2>4. PICK title \in Titles : title = Wanted(h).title
    BY <1>2
  <2>5. PICK task \in Nat : task = capture[h].task
    BY <1>2
  <2>6. PICK box : box = WithCard(old, card, e, title, task)
    OBVIOUS
  <2>7. /\ box \in Boxes
        /\ box.cards = Append(old.cards, card)
        /\ DOMAIN box.merged = DOMAIN old.merged \cup {title}
        /\ \A t \in DOMAIN box.merged :
               box.merged[t] = IF t = title THEN e ELSE old.merged[t]
        /\ box.wrote = old.wrote \cup {task} /\ box.broken = old.broken
        /\ box.last = old.last /\ box.proposed = old.proposed
    BY <2>6, NewCardBox
  <2>8. Result(h, box)
    BY <1>3, <1>8, <2>2, <2>3, <2>4, <2>5, <2>6 DEF Captured, WithCard
  <2>9. /\ task \in DOMAIN tasks /\ tasks[task].project = capture[h].project
        /\ tasks[task].moved \/ capture[h].named \subseteq tasks[task].people
    <3>1. capture[h] # NoCapture
      BY <2>1 DEF NoCapture
    <3> QED BY <2>1, <2>5, <3>1 DEF CardInv, Inv, StoreInv, Reads
  <2>10. Holds(task, capture[h].named)
    BY <2>9 DEF Holds
  <2>11. card.task = task /\ CardTrue(card)
    BY <2>2, <2>5, <2>9, <2>10 DEF CardOf, CardTrue
  <2>12. e.task = task /\ e.people = capture[h].named /\ e.card = Len(old.cards) + 1
    BY <1>3, <2>3, <2>5 DEF EntryOf
  <2>13. /\ DOMAIN box.cards = DOMAIN old.cards \cup {e.card}
         /\ box.cards[e.card] = card
         /\ \A i \in DOMAIN old.cards : i \in DOMAIN box.cards /\ box.cards[i] = old.cards[i]
    <3>1. old.cards \in Seq(Cards) /\ Len(old.cards) \in Nat /\ DOMAIN old.cards = 1..Len(old.cards)
      BY DEF Boxes
    <3> QED BY <2>7, <2>12, <3>1
  <2>14. \A i \in DOMAIN box.cards : CardTrue(box.cards[i])
    BY <1>4, <2>11, <2>13 DEF Shown
  <2>15. ASSUME NEW t \in DOMAIN box.merged PROVE Entered(box, box.merged[t])
    <3>1. CASE t = title
      BY <2>7, <2>10, <2>11, <2>12, <2>13, <3>1 DEF Entered
    <3>2. CASE t # title
      <4>1. t \in DOMAIN old.merged /\ box.merged[t] = old.merged[t]
        BY <2>7, <3>2
      <4>2. Entered(old, old.merged[t])
        BY <1>4, <4>1 DEF Shown
      <4> QED BY <2>13, <4>1, <4>2 DEF Entered
    <3> QED BY <3>1, <3>2
  <2>16. \A k \in box.wrote \ box.broken : \E i \in DOMAIN box.cards : box.cards[i].task = k
    BY <1>4, <2>7, <2>11, <2>13 DEF Shown
  <2>17. Shown(box)
    BY <1>4, <2>7, <2>14, <2>15, <2>16 DEF Shown
  <2> QED BY <1>5, <2>7, <2>8, <2>17
<1> QED BY <1>6, <1>7, <1>8

(* A turn goes on with the toolbox it has.                                  *)
LEMMA GoesOn ==
    ASSUME CardInv, StoreGrows, NEW h \in Handlers,
           Think(h) \/ CaptureAgain(h) \/ CaptureNew(h)
    PROVE  /\ ShownAt(h)' /\ \A g \in Handlers \ {h} : run'[g] = run[g]
           /\ run'[h].at \in InTurn /\ run'[h].box = run[h].box
           /\ run'[h].at = "capturing" => CaptureNew(h) /\ run'[h].calls = run[h].calls
<1>1. run[h].at \in {"model", "tool"} /\ run[h].at \in InTurn
  BY DEF Think, CaptureAgain, CaptureNew, Call, InTurn
<1>2. run[h] \in Turns /\ h \in DOMAIN run /\ run[h].box = Box(h)
  BY <1>1, Turning DEF CardInv, Inv, Box
<1>3. PICK box : box = Box(h)
  OBVIOUS
<1>4. Shown(box)'
  BY <1>1, <1>3, TurnHolds, ShownStays DEF CardInv, Inv
<1>5. /\ run'[h].box = box /\ run'[h].at \in InTurn
      /\ run'[h].at = "capturing" => CaptureNew(h) /\ run'[h].calls = run[h].calls
      /\ \A g \in Handlers \ {h} : run'[g] = run[g]
  <2>1. CASE Think(h)
    <3>1. PICK calls \in Answers(CaptureCalls \cup Calls) :
              run' = [run EXCEPT ![h].at = "tool", ![h].calls = calls, ![h].rounds = @ + 1]
      BY <2>1 DEF Think
    <3>2. PICK r : r = [run[h] EXCEPT !.at = "tool", !.calls = calls, !.rounds = @ + 1]
      OBVIOUS
    <3>3. run' = [run EXCEPT ![h] = r]
      BY <1>2, <3>1, <3>2
    <3>4. r.box = run[h].box /\ r.at = "tool"
      BY <1>2, <3>2 DEF Turns
    <3> QED BY <1>2, <1>3, <3>3, <3>4 DEF InTurn
  <2>2. CASE CaptureAgain(h)
    <3>1. PICK r : r = [run[h] EXCEPT !.at = "merge", !.todo = Wanted(h).people]
      OBVIOUS
    <3>2. run' = [run EXCEPT ![h] = r]
      BY <2>2, <3>1 DEF CaptureAgain
    <3>3. r.box = run[h].box /\ r.at = "merge"
      BY <1>2, <3>1 DEF Turns
    <3> QED BY <1>2, <1>3, <3>2, <3>3 DEF InTurn
  <2>3. CASE CaptureNew(h)
    <3>1. PICK r : r = [run[h] EXCEPT !.at = "capturing"]
      OBVIOUS
    <3>2. run' = [run EXCEPT ![h] = r]
      BY <2>3, <3>1 DEF CaptureNew, To
    <3>3. r.box = run[h].box /\ r.at = "capturing" /\ r.calls = run[h].calls
      BY <1>2, <3>1 DEF Turns
    <3> QED BY <1>2, <1>3, <2>3, <3>2, <3>3 DEF InTurn
  <2> QED BY <2>1, <2>2, <2>3
<1> QED BY <1>2, <1>3, <1>4, <1>5, TurnShown DEF InTurn

LEMMA FinishShown ==
    ASSUME CardInv, StoreGrows, NEW h \in Handlers, Finish(h) \/ Break(h)
    PROVE  ShownAt(h)' /\ \A g \in Handlers \ {h} : run'[g] = run[g]
<1>1. run[h].at \in InTurn
  BY DEF Finish, Break, InTurn
<1>2. PICK box : box = Box(h)
  OBVIOUS
<1>3. Shown(box)'
  BY <1>1, <1>2, TurnHolds, ShownStays DEF CardInv, Inv
<1>4. /\ \A g \in Handlers \ {h} : run'[g] = run[g]
      /\ \/ run'[h].at = "stash" /\ run'[h].box = box
         \/ /\ run'[h].at = "answer" /\ run'[h].box = box
            /\ run'[h].cards = box.cards /\ run'[h].proposed = box.proposed
  BY <1>2, FinishJob DEF CardInv, Inv
<1> QED BY <1>3, <1>4 DEF ShownAt, InTurn

(* Outside of the turns there are no cards.                                 *)
Apart(h) == run'[h] = run[h] \/ run'[h].at \notin InTurn \cup {"answer"}

LEMMA DialogueApart ==
    ASSUME CardInv, NEW h \in Handlers,
           \/ Stash(h) \/ AskField(h) \/ StoreOptions(h) \/ ClearTyping(h) \/ SendKeyboard(h)
           \/ SendRefused(h) \/ StoreFilled(h) \/ Finalize(h) \/ Finalized(h)
    PROVE  \A g \in Handlers : Apart(g)
<1>1. DOMAIN run = Handlers
  BY DEF CardInv, Inv, JobInv
<1>2. CASE Stash(h) \/ AskField(h) \/ StoreFilled(h)
  BY <1>1, <1>2 DEF Stash, AskField, StoreFilled, Apart, InTurn
<1>3. CASE SendKeyboard(h) \/ SendRefused(h) \/ Finalized(h)
  <2>1. run' = [run EXCEPT ![h] = Idle]
    BY <1>3 DEF SendKeyboard, SendRefused, Finalized
  <2> QED BY <1>1, <2>1 DEF Apart, Idle, InTurn
<1>4. CASE StoreOptions(h) \/ ClearTyping(h)
  <2>1. "at" \in DOMAIN run[h]
    BY <1>4 DEF StoreOptions, ClearTyping, CardInv, Inv, JobInv, Job, Showing
  <2> QED BY <1>1, <1>4, <2>1 DEF StoreOptions, ClearTyping, To, Apart, InTurn
<1>5. CASE Finalize(h)
  <2>1. run[h] \in Dialogues
    BY <1>5 DEF Finalize, CardInv, Inv, JobInv, Job, InDialogue
  <2>2. "at" \in DOMAIN run[h]
    BY <2>1 DEF Dialogues
  <2>3. run' = [run EXCEPT ![h].at = "finalizing"] \/ run' = [run EXCEPT ![h] = Idle]
    BY <1>5 DEF Finalize, To
  <2> QED BY <1>1, <2>2, <2>3 DEF Apart, Idle, InTurn
<1> QED BY <1>2, <1>3, <1>4, <1>5

LEMMA DispatchApart ==
    ASSUME CardInv, NEW h \in Handlers,
           \/ DispatchCapture(h) \/ DispatchRefused(h) \/ Dispatched(h) \/ DispatchEnd(h)
           \/ Answered(h)
    PROVE  \A g \in Handlers : Apart(g)
<1>1. DOMAIN run = Handlers
  BY DEF CardInv, Inv, JobInv
<1>2. CASE DispatchEnd(h) \/ Answered(h)
  BY <1>1, <1>2 DEF DispatchEnd, Answered, Apart, Idle, InTurn
<1>3. CASE DispatchCapture(h) \/ DispatchRefused(h) \/ Dispatched(h)
  <2>1. run[h] \in Dispatches /\ run[h].at \in {"dispatch", "dispatched"}
    BY <1>3 DEF DispatchCapture, DispatchRefused, Dispatched, CardInv, Inv, JobInv, Job
  <2>2. "at" \in DOMAIN run[h]
    BY <2>1 DEF Dispatches
  <2>3. \/ run' = [run EXCEPT ![h].at = "dispatched"]
        \/ run' = [run EXCEPT ![h].calls = Tail(@)]
        \/ run' = [run EXCEPT ![h].at = "dispatch", ![h].calls = Tail(@)]
        \/ run' = [run EXCEPT ![h] = Idle]
    BY <1>3 DEF DispatchCapture, DispatchRefused, Dispatched, To
  <2> QED BY <1>1, <2>1, <2>2, <2>3 DEF Apart, Idle, InTurn
<1> QED BY <1>2, <1>3

LEMMA MessageShown ==
    ASSUME CardInv, StoreGrows, NEW h \in Handlers, NEW u \in Users, Message(h, u)
    PROVE  ShownAt(h)' /\ \A g \in Handlers \ {h} : run'[g] = run[g]
<1>1. DOMAIN run = Handlers
  BY DEF CardInv, Inv, JobInv
<1>2. Shown(NewBox)'
  BY CaptureAssumption DEF Shown, NewBox
<1>3. CASE run' = [run EXCEPT ![h] = [at |-> "model", user |-> u, calls |-> <<>>,
                                      todo |-> <<>>, rounds |-> 0, box |-> NewBox]]
  <2>1. run'[h].at = "model" /\ run'[h].box = NewBox /\ \A g \in Handlers \ {h} : run'[g] = run[g]
    BY <1>1, <1>3
  <2> QED BY <1>2, <2>1 DEF ShownAt
<1>4. CASE \E wants \in Answers(Wants) :
               run' = [run EXCEPT ![h] = [at |-> "dispatch", user |-> u, calls |-> wants]]
  <2>1. run'[h].at = "dispatch" /\ \A g \in Handlers \ {h} : run'[g] = run[g]
    BY <1>1, <1>4
  <2> QED BY <2>1 DEF ShownAt, InTurn
<1> QED BY <1>3, <1>4 DEF Message

LEMMA ApartShown ==
    ASSUME CardInv, StoreGrows, NEW h \in Handlers, Apart(h)
    PROVE  ShownAt(h)'
<1>1. CASE run'[h] = run[h]
  BY <1>1, RestShown
<1>2. CASE run'[h].at \notin InTurn \cup {"answer"}
  BY <1>2 DEF ShownAt
<1> QED BY <1>1, <1>2 DEF Apart

LEMMA CardsStay ==
    ASSUME CardInv, [Next]_vars
    PROVE  CardInv'
<1>1. Inv' /\ StoreGrows
  BY InvStays DEF CardInv
<1> USE <1>1
<1>2. ASSUME NEW h \in Handlers, ShownAt(h)', \A g \in Handlers \ {h} : run'[g] = run[g]
      PROVE  \A g \in Handlers : ShownAt(g)'
  <2> SUFFICES ASSUME NEW g \in Handlers, g # h PROVE ShownAt(g)'
    BY <1>2
  <2> QED BY <1>2, RestShown
<1>3. ASSUME \A g \in Handlers : Apart(g)
      PROVE  \A g \in Handlers : ShownAt(g)'
  BY <1>3, ApartShown
<1>4. ASSUME NEW h \in Handlers, NEW u \in Users, Asked(h, u)
      PROVE  \A g \in Handlers : ShownAt(g)'
  <2>1. CASE Message(h, u)
    BY <1>2, <2>1, MessageShown
  <2>2. CASE Replied(h, u)
    <3>1. \A g \in Handlers : run'[g] = run[g] \/ run'[g].at = "fill"
      BY <2>2, RepliedJob DEF CardInv, Inv
    <3> QED BY <1>3, <3>1 DEF Apart, InTurn
  <2> QED BY <1>4, <2>1, <2>2 DEF Asked, Replied
<1>5. ASSUME NEW h \in Handlers, Step(h)
      PROVE  \A g \in Handlers : ShownAt(g)'
  <2>1. CASE PlainCall(h) \/ Think(h) \/ CaptureAgain(h) \/ CaptureNew(h)
    BY <1>2, <2>1, PlainShown, GoesOn
  <2>2. CASE MergePerson(h) \/ MergeShown(h) \/ MergeRefused(h)
    BY <1>2, <2>2, MergedShown, MergeEndShown
  <2>3. CASE Captured(h) \/ CaptureRefused(h) \/ CaptureBroken(h) \/ Finish(h) \/ Break(h)
    BY <1>2, <2>3, CapturedShown, FinishShown
  <2>4. CASE \/ DispatchCapture(h) \/ DispatchRefused(h) \/ Dispatched(h) \/ DispatchEnd(h)
             \/ Answered(h)
    BY <1>3, <2>4, DispatchApart
  <2>5. CASE \/ Stash(h) \/ AskField(h) \/ StoreOptions(h) \/ ClearTyping(h)
             \/ SendKeyboard(h) \/ SendRefused(h) \/ StoreFilled(h) \/ Finalize(h) \/ Finalized(h)
    BY <1>3, <2>5, DialogueApart
  <2>6. CASE CapturingStep(h)
    BY <1>3, <2>6 DEF CapturingStep, Apart
  <2> QED BY <1>5, <2>1, <2>2, <2>3, <2>4, <2>5, <2>6 DEF Step, PlainCall
<1>6. CASE Crash
  <2>1. \A g \in Handlers : run'[g] = Idle
    BY <1>6 DEF Crash
  <2>2. \A g \in Handlers : Apart(g)
    BY <2>1 DEF Apart, Idle, InTurn
  <2> QED BY <1>3, <2>2 DEF CardInv
<1>7. CASE UNCHANGED vars
  <2>1. run' = run
    BY <1>7 DEF vars
  <2>2. \A g \in Handlers : Apart(g)
    BY <2>1 DEF Apart
  <2> QED BY <1>3, <2>2 DEF CardInv
<1> QED BY <1>4, <1>5, <1>6, <1>7 DEF CardInv, Next

(* The cards of a turn and of an answer say what is stored.                 *)
THEOREM CardsOfCapturesHold == Spec => []CardInv
<1>1. Init => CardInv
  <2> SUFFICES ASSUME Init PROVE CardInv
    OBVIOUS
  <2>1. Inv
    BY StoreBegins, JobBegins DEF Inv
  <2> QED BY <2>1 DEF Init, CardInv, ShownAt, Idle, InTurn
<1>2. CardInv /\ [Next]_vars => CardInv'
  BY CardsStay
<1> QED BY <1>1, <1>2, PTL DEF Spec

-----------------------------------------------------------------------------
(* A card says all of it.  No two turns, and no two titles of a turn, have a *)
(* task in common, and only the handler that has a task puts people on it,   *)
(* unless somebody gives it to another: so the entry of a title knows who    *)
(* has the task, and a card is behind its entry only while people are being  *)
(* put on the task, or after that was refused.                               *)

OfCapture(h) == IF capture[h] = NoCapture THEN {} ELSE {capture[h].task} \ {0}

TasksOf(box) == {box.merged[t].task : t \in DOMAIN box.merged}
OfBox(h) == IF run[h].at \in InTurn \cup {"answer"} THEN TasksOf(run[h].box) ELSE {}

Owned(h) == OfCapture(h) \cup OfBox(h)

Exact(k, people) == tasks[k].moved \/ tasks[k].people = people
BoxExact(box) == \A t \in DOMAIN box.merged : Exact(box.merged[t].task, box.merged[t].people)

Apiece(box) ==
    \A s, t \in DOMAIN box.merged : s # t => box.merged[s].task # box.merged[t].task

(* Every card is that of an entry, and behind it for a reason.              *)
FitsAt(box, lag, k, t) ==
    /\ box.merged[t].card = k /\ box.cards[k].task = box.merged[t].task
    /\ box.cards[k].people \subseteq box.merged[t].people
    /\ k \in box.refused \/ t \in lag \/ box.cards[k].people = box.merged[t].people
Fits(box, lag) ==
    \A k \in DOMAIN box.cards : \E t \in DOMAIN box.merged : FitsAt(box, lag, k, t)

Lag(h) == IF run[h].at = "merge" THEN {Wanted(h).title} ELSE {}

Own(h) ==
    /\ capture[h].at \in {"assign", "captured"} => Exact(capture[h].task, capture[h].named)
    /\ run[h].at \in InTurn \cup {"answer"} =>
           Fits(run[h].box, Lag(h)) /\ Apiece(run[h].box) /\ BoxExact(run[h].box)
    /\ run[h].at = "capturing" => Wanted(h).title \notin DOMAIN run[h].box.merged
    /\ OfCapture(h) \cap OfBox(h) = {}

OwnInv ==
    /\ CardInv
    /\ \A h \in Handlers : Own(h)
    /\ \A g, h \in Handlers : g # h => Owned(g) \cap Owned(h) = {}

(* Nobody puts people on these tasks but who gives them to another.         *)
Untouched(ks) == \A k \in ks : tasks'[k].moved \/ tasks'[k].people = tasks[k].people

(* A handler has no capture, or one that has just begun.                    *)
Fresh(h) == capture[h] = NoCapture \/ (capture[h].task = 0 /\ capture[h].at = "lookup")

OthersRest(h) == \A g \in Handlers \ {h} : run'[g] = run[g] /\ capture'[g] = capture[g]

LEMMA ExactStays ==
    ASSUME StoreGrows, NEW CONSTANT k \in DOMAIN tasks, NEW CONSTANT people, Exact(k, people),
           Untouched({k})
    PROVE  Exact(k, people)'
<1>1. tasks[k].moved => tasks'[k].moved
  BY DEF StoreGrows, Keeps
<1> QED BY <1>1 DEF Exact, Untouched

LEMMA BoxStays ==
    ASSUME StoreGrows, NEW CONSTANT box, BoxExact(box), TasksOf(box) \subseteq DOMAIN tasks,
           Untouched(TasksOf(box))
    PROVE  BoxExact(box)'
<1> SUFFICES ASSUME NEW CONSTANT t \in DOMAIN box.merged
             PROVE  Exact(box.merged[t].task, box.merged[t].people)'
  BY DEF BoxExact
<1>1. PICK k : k = box.merged[t].task
  OBVIOUS
<1>2. PICK people : people = box.merged[t].people
  OBVIOUS
<1>3. k \in DOMAIN tasks /\ Untouched({k}) /\ Exact(k, people)
  BY <1>1, <1>2 DEF TasksOf, Untouched, BoxExact
<1>4. Exact(k, people)'
  BY <1>3, ExactStays
<1> QED BY <1>1, <1>2, <1>4

LEMMA BoxTasks ==
    ASSUME NEW CONSTANT box, Shown(box)
    PROVE  TasksOf(box) \subseteq DOMAIN tasks
BY DEF TasksOf, Shown, Entered, Holds

LEMMA OwnedExist ==
    ASSUME CardInv, NEW h \in Handlers
    PROVE  Owned(h) \subseteq DOMAIN tasks
<1>1. OfCapture(h) \subseteq DOMAIN tasks
  BY DEF OfCapture, CardInv, Inv, StoreInv, Reads
<1>2. OfBox(h) \subseteq DOMAIN tasks
  <2>1. CASE run[h].at \in InTurn \cup {"answer"}
    <3>1. Shown(run[h].box)
      BY <2>1 DEF CardInv, ShownAt
    <3> QED BY <2>1, <3>1 DEF OfBox, TasksOf, Shown, Entered, Holds
  <2>2. CASE run[h].at \notin InTurn \cup {"answer"}
    BY <2>2 DEF OfBox
  <2> QED BY <2>1, <2>2
<1> QED BY <1>1, <1>2 DEF Owned

(* Those that do nothing keep what they have, which nobody else has.        *)
LEMMA RestOwn ==
    ASSUME OwnInv, StoreGrows, NEW g \in Handlers, run'[g] = run[g], capture'[g] = capture[g],
           Untouched(Owned(g))
    PROVE  Own(g)' /\ Owned(g)' = Owned(g)
<1>1. OfCapture(g)' = OfCapture(g) /\ OfBox(g)' = OfBox(g) /\ Lag(g)' = Lag(g)
      /\ Wanted(g)' = Wanted(g)
  BY DEF OfCapture, OfBox, Lag, Wanted
<1>2. Owned(g) \subseteq DOMAIN tasks /\ Own(g)
  BY OwnedExist DEF OwnInv
<1>3. PICK c : c = capture[g]
  OBVIOUS
<1>4. PICK box : box = run[g].box
  OBVIOUS
<1>5. ASSUME c.at \in {"assign", "captured"} PROVE Exact(c.task, c.named)'
  <2>1. PICK k : k = c.task
    OBVIOUS
  <2>2. PICK people : people = c.named
    OBVIOUS
  <2>3. c # NoCapture /\ k # 0
    BY <1>3, <1>5, <2>1 DEF NoCapture, OwnInv, CardInv, Inv, StoreInv, Reads
  <2>4. k \in Owned(g) /\ Exact(k, people)
    BY <1>2, <1>3, <1>5, <2>1, <2>2, <2>3 DEF Owned, OfCapture, Own
  <2>5. k \in DOMAIN tasks /\ Untouched({k})
    BY <1>2, <2>4 DEF Untouched
  <2>6. Exact(k, people)'
    BY <2>4, <2>5, ExactStays
  <2> QED BY <2>1, <2>2, <2>6
<1>6. ASSUME run[g].at \in InTurn \cup {"answer"}
      PROVE  Fits(box, Lag(g)) /\ Apiece(box) /\ BoxExact(box)'
  <2>1. Fits(box, Lag(g)) /\ Apiece(box) /\ BoxExact(box)
    BY <1>2, <1>4, <1>6 DEF Own
  <2>2. TasksOf(box) \subseteq Owned(g)
    BY <1>4, <1>6 DEF Owned, OfBox
  <2>3. TasksOf(box) \subseteq DOMAIN tasks /\ Untouched(TasksOf(box))
    BY <1>2, <2>2 DEF Untouched
  <2> QED BY <2>1, <2>3, BoxStays
<1>7. capture'[g] = c /\ run'[g].box = box
  BY <1>3, <1>4
<1>8. capture'[g].at \in {"assign", "captured"} => Exact(capture[g].task, capture[g].named)'
  BY <1>5, <1>7
<1>9. run'[g].at \in InTurn \cup {"answer"} =>
          Fits(run'[g].box, Lag(g)') /\ Apiece(run'[g].box) /\ BoxExact(run[g].box)'
  BY <1>1, <1>6, <1>7
<1>10. run'[g].at = "capturing" => Wanted(g)'.title \notin DOMAIN run'[g].box.merged
  BY <1>1, <1>2 DEF Own
<1>11. Own(g)'
  BY <1>1, <1>2, <1>8, <1>9, <1>10 DEF Own
<1> QED BY <1>1, <1>11 DEF Owned

LEMMA OwnFrame ==
    ASSUME OwnInv, CardInv', StoreGrows, NEW h \in Handlers, OthersRest(h),
           Untouched(DOMAIN tasks \ Owned(h)),
           Owned(h)' \cap DOMAIN tasks \subseteq Owned(h), Own(h)'
    PROVE  OwnInv'
<1>1. ASSUME NEW g \in Handlers \ {h}
      PROVE  Own(g)' /\ Owned(g)' = Owned(g) /\ Owned(g) \subseteq DOMAIN tasks
  <2>1. Owned(g) \subseteq DOMAIN tasks /\ Owned(g) \cap Owned(h) = {}
    BY OwnedExist DEF OwnInv
  <2>2. Untouched(Owned(g))
    BY <2>1 DEF Untouched
  <2> QED BY <2>1, <2>2, RestOwn DEF OthersRest
<1>2. ASSUME NEW f \in Handlers, NEW g \in Handlers, f # g
      PROVE  Owned(f)' \cap Owned(g)' = {}
  <2>1. Owned(f) \cap Owned(g) = {}
    BY <1>2 DEF OwnInv
  <2>2. CASE f # h /\ g # h
    BY <1>1, <2>1, <2>2
  <2>3. CASE f = h
    BY <1>1, <1>2, <2>1, <2>3
  <2>4. CASE g = h
    BY <1>1, <1>2, <2>1, <2>4
  <2> QED BY <2>2, <2>3, <2>4
<1> QED BY <1>1, <1>2 DEF OwnInv

(* A turn goes on, with this toolbox.                                       *)
LEMMA TurnOwn ==
    ASSUME OwnInv, CardInv', StoreGrows, NEW h \in Handlers, OthersRest(h),
           Untouched(DOMAIN tasks \ Owned(h)),
           run'[h].at \in InTurn \cup {"answer"}, NEW CONSTANT box, run'[h].box = box,
           NEW CONSTANT lag, Fits(box, lag), lag = Lag(h)', Apiece(box), BoxExact(box)',
           TasksOf(box) \subseteq Owned(h),
           Fresh(h)',
           run'[h].at = "capturing" => Wanted(h)'.title \notin DOMAIN box.merged
    PROVE  OwnInv'
<1>1. OfCapture(h)' = {} /\ capture'[h].at \notin {"assign", "captured"}
  BY DEF OfCapture, NoCapture, Fresh
<1>2. OfBox(h)' = TasksOf(box)
  BY DEF OfBox
<1>3. BoxExact(run[h].box)'
  OBVIOUS
<1>4. Own(h)'
  BY <1>1, <1>3 DEF Own
<1>5. Owned(h)' \cap DOMAIN tasks \subseteq Owned(h)
  BY <1>1, <1>2 DEF Owned
<1> QED BY <1>4, <1>5, OwnFrame

(* A handler that is in no turn, and has no task.                           *)
LEMMA AwayOwn ==
    ASSUME OwnInv, CardInv', StoreGrows, NEW h \in Handlers, OthersRest(h), tasks' = tasks,
           run'[h].at \notin InTurn \cup {"answer"},
           Fresh(h)'
    PROVE  OwnInv'
<1>1. OfCapture(h)' = {} /\ capture'[h].at \notin {"assign", "captured"}
  BY DEF OfCapture, NoCapture, Fresh
<1>2. OfBox(h)' = {}
  BY DEF OfBox
<1>3. Own(h)'
  BY <1>1 DEF Own, InTurn
<1>4. Owned(h)' \cap DOMAIN tasks \subseteq Owned(h)
  BY <1>1, <1>2 DEF Owned
<1> QED BY <1>3, <1>4, OwnFrame DEF Untouched

(* A capture goes on, within the turn or the dialogue it is of.             *)
LEMMA CaptureOwn ==
    ASSUME OwnInv, CardInv', StoreGrows, NEW h \in Handlers, OthersRest(h), run' = run,
           Untouched(DOMAIN tasks \ OfCapture(h)),
           NEW CONSTANT c, capture'[h] = c,
           OfCapture(h)' \cap DOMAIN tasks \subseteq OfCapture(h),
           c.at \in {"assign", "captured"} => Exact(c.task, c.named)'
    PROVE  OwnInv'
<1>1. OfBox(h)' = OfBox(h) /\ Lag(h)' = Lag(h) /\ Wanted(h)' = Wanted(h)
  BY DEF OfBox, Lag, Wanted
<1>2. Own(h) /\ OfBox(h) \subseteq DOMAIN tasks
  BY OwnedExist DEF OwnInv, Owned
<1>3. OfCapture(h) \cap OfBox(h) = {}
  BY <1>2 DEF Own
<1>4. OfCapture(h)' \cap OfBox(h)' = {}
  BY <1>1, <1>2, <1>3
<1>5. PICK box : box = run[h].box
  OBVIOUS
<1>6. ASSUME run[h].at \in InTurn \cup {"answer"}
      PROVE  Fits(box, Lag(h)) /\ Apiece(box) /\ BoxExact(box)'
  <2>1. Fits(box, Lag(h)) /\ Apiece(box) /\ BoxExact(box)
    BY <1>2, <1>5, <1>6 DEF Own
  <2>2. TasksOf(box) = OfBox(h)
    BY <1>5, <1>6 DEF OfBox
  <2>3. TasksOf(box) \subseteq DOMAIN tasks /\ Untouched(TasksOf(box))
    BY <1>2, <1>3, <2>2 DEF Untouched
  <2> QED BY <2>1, <2>3, BoxStays
<1>7. run'[h].box = box /\ run'[h].at = run[h].at
  BY <1>5
<1>8. run'[h].at \in InTurn \cup {"answer"} =>
          Fits(run'[h].box, Lag(h)') /\ Apiece(run'[h].box) /\ BoxExact(run[h].box)'
  BY <1>1, <1>6, <1>7
<1>9. run'[h].at = "capturing" => Wanted(h)'.title \notin DOMAIN run'[h].box.merged
  BY <1>1, <1>2, <1>5, <1>7 DEF Own
<1>10. capture'[h].at \in {"assign", "captured"} => Exact(capture[h].task, capture[h].named)'
  OBVIOUS
<1>11. Own(h)'
  BY <1>4, <1>8, <1>9, <1>10 DEF Own
<1>12. Owned(h)' \cap DOMAIN tasks \subseteq Owned(h)
  BY <1>1 DEF Owned
<1>13. Untouched(DOMAIN tasks \ Owned(h))
  BY DEF Untouched, Owned
<1> QED BY <1>11, <1>12, <1>13, OwnFrame

-----------------------------------------------------------------------------
(* What a turn has before a step of it.                                     *)
LEMMA TurnHas ==
    ASSUME OwnInv, NEW h \in Handlers, run[h].at \in InTurn
    PROVE  /\ Shown(run[h].box) /\ Fits(run[h].box, Lag(h)) /\ Apiece(run[h].box)
           /\ BoxExact(run[h].box) /\ TasksOf(run[h].box) \subseteq Owned(h)
           /\ run[h].box = Box(h) /\ run[h].box \in Boxes
           /\ run[h].at # "merge" => Lag(h) = {}
<1>1. Own(h) /\ ShownAt(h)
  BY DEF OwnInv, CardInv
<1>2. run[h].box \in Boxes
  BY Turning DEF OwnInv, CardInv, Inv
<1> QED BY <1>1, <1>2 DEF Own, ShownAt, Owned, OfBox, Lag, Box

(* The cards and the entries stay as they are.                              *)
LEMMA SameOwn ==
    ASSUME OwnInv, CardInv', StoreGrows, NEW h \in Handlers, OthersRest(h),
           run[h].at \in InTurn, run[h].at # "merge", Untouched(DOMAIN tasks),
           run'[h].at \in InTurn \cup {"answer"}, SameBox(run[h].box, run'[h].box),
           Fresh(h)',
           run'[h].at = "capturing" => Wanted(h)'.title \notin DOMAIN run[h].box.merged
    PROVE  OwnInv'
<1>1. PICK old : old = run[h].box
  OBVIOUS
<1>2. PICK box : box = run'[h].box
  OBVIOUS
<1>3. box.cards = old.cards /\ box.merged = old.merged /\ box.refused = old.refused
  BY <1>1, <1>2 DEF SameBox
<1>4. Shown(old) /\ Fits(old, {}) /\ Apiece(old) /\ BoxExact(old) /\ TasksOf(old) \subseteq Owned(h)
  BY <1>1, TurnHas
<1>5. TasksOf(old) \subseteq DOMAIN tasks /\ Untouched(TasksOf(old))
  BY <1>4, BoxTasks DEF Untouched
<1>6. BoxExact(old)'
  BY <1>4, <1>5, BoxStays
<1>7. BoxExact(box)' /\ Apiece(box) /\ TasksOf(box) \subseteq Owned(h)
  BY <1>3, <1>4, <1>6 DEF BoxExact, Apiece, TasksOf
<1>8. PICK lag : lag = Lag(h)'
  OBVIOUS
<1>9. Fits(box, lag)
  BY <1>3, <1>4 DEF Fits, FitsAt
<1>10. run'[h].at = "capturing" => Wanted(h)'.title \notin DOMAIN box.merged
  BY <1>1, <1>3
<1>11. Untouched(DOMAIN tasks \ Owned(h))
  BY DEF Untouched
<1> QED BY <1>2, <1>7, <1>8, <1>9, <1>10, <1>11, TurnOwn

LEMMA PlainOwn ==
    ASSUME OwnInv, CardInv', StoreGrows, NEW h \in Handlers, PlainCall(h)
    PROVE  OwnInv'
<1>1. run[h].at = "tool" /\ run[h].calls # <<>> /\ UNCHANGED <<capture, wired, fsm>>
  BY PlainCalls DEF OwnInv, CardInv, Inv
<1>2. Fresh(h)'
  BY <1>1, Calling DEF OwnInv, CardInv, Inv, Fresh
<1>3. /\ \A g \in Handlers \ {h} : run'[g] = run[g]
      /\ run'[h].at \in {"model", "tool"} /\ SameBox(run[h].box, run'[h].box)
  BY PlainShown DEF OwnInv
<1>4. OthersRest(h)
  BY <1>1, <1>3 DEF OthersRest
<1>5. Untouched(DOMAIN tasks)
  <2>1. CASE CallWithoutEffect(h) \/ CapturePending(h) \/ PlanProject(h) \/ SetVacation(h)
    <3>1. tasks' = tasks
      BY <2>1 DEF CallWithoutEffect, CapturePending, PlanProject, SetVacation, store
    <3> QED BY <3>1 DEF Untouched
  <2>2. CASE AssignTask(h)
    <3>1. \A i \in DOMAIN tasks : tasks[i] \in TaskRows
      BY DEF OwnInv, CardInv, Inv, StoreInv, Rows
    <3>4. PICK rows : rows = RowsNamed(Head(run[h].calls).title)
      OBVIOUS
    <3>5. PICK who : who = {Head(run[h].calls).person} \cap Known
      OBVIOUS
    <3>2. \/ tasks' = [i \in DOMAIN tasks |-> IF \E r \in rows : r[1] = i
                           THEN [tasks[i] EXCEPT !.people = who, !.moved = TRUE]
                           ELSE tasks[i]]
          \/ tasks' = tasks
      BY <2>2, <3>4, <3>5, Zenon DEF AssignTask
    <3>3. ASSUME NEW i \in DOMAIN tasks
          PROVE  tasks'[i].moved \/ tasks'[i].people = tasks[i].people
      <4>1. tasks'[i] = tasks[i] \/ tasks'[i] = [tasks[i] EXCEPT !.people = who, !.moved = TRUE]
        BY <3>2
      <4> QED BY <3>1, <4>1 DEF TaskRows
    <3> QED BY <3>3 DEF Untouched
  <2>3. CASE MarkTaskDone(h)
    <3>1. \A i \in DOMAIN tasks : tasks[i] \in TaskRows
      BY DEF OwnInv, CardInv, Inv, StoreInv, Rows
    <3>2. PICK rows :
              \/ tasks' = [i \in DOMAIN tasks |->
                               [tasks[i] EXCEPT !.done = @ \/ \E r \in rows : r[1] = i]]
              \/ tasks' = tasks
      BY <2>3, Zenon DEF MarkTaskDone
    <3>3. ASSUME NEW i \in DOMAIN tasks PROVE tasks'[i].people = tasks[i].people
      <4>1. CASE tasks' = tasks
        BY <4>1
      <4>2. CASE tasks' = [j \in DOMAIN tasks |->
                               [tasks[j] EXCEPT !.done = @ \/ \E r \in rows : r[1] = j]]
        <5>1. PICK done : tasks'[i] = [tasks[i] EXCEPT !.done = done]
          BY <4>2
        <5> QED BY <3>1, <5>1 DEF TaskRows
      <4> QED BY <3>2, <4>1, <4>2
    <3> QED BY <3>3 DEF Untouched
  <2> QED BY <2>1, <2>2, <2>3 DEF PlainCall
<1>6. run[h].at \in InTurn /\ run[h].at # "merge" /\ run'[h].at \in InTurn \cup {"answer"}
      /\ run'[h].at # "capturing"
  BY <1>1, <1>3 DEF InTurn
<1>7. run'[h].at = "capturing" => Wanted(h)'.title \notin DOMAIN run[h].box.merged
  BY <1>6
<1> QED BY <1>2, <1>3, <1>4, <1>5, <1>6, <1>7, SameOwn

LEMMA GoesOnOwn ==
    ASSUME OwnInv, CardInv', StoreGrows, NEW h \in Handlers,
           Think(h) \/ CaptureAgain(h) \/ CaptureNew(h)
    PROVE  OwnInv'
<1>1. run[h].at \in InTurn /\ run[h].at # "merge" /\ capture[h] = NoCapture
  <2>1. run[h].at \in {"model", "tool"}
    BY DEF Think, CaptureAgain, CaptureNew, Call
  <2> QED BY <2>1, Turning DEF InTurn, OwnInv, CardInv, Inv
<1>2. /\ \A g \in Handlers \ {h} : run'[g] = run[g]
      /\ run'[h].at \in InTurn /\ run'[h].box = run[h].box
      /\ run'[h].at = "capturing" => CaptureNew(h) /\ run'[h].calls = run[h].calls
  BY GoesOn DEF OwnInv
<1>3. tasks' = tasks
  BY DEF Think, CaptureAgain, CaptureNew, Execute, store
<1>4. /\ \A g \in Handlers \ {h} : capture'[g] = capture[g]
      /\ Fresh(h)'
  <2>1. CASE Think(h) \/ CaptureAgain(h)
    <3>1. capture' = capture
      BY <2>1 DEF Think, CaptureAgain, store
    <3> QED BY <1>1, <3>1 DEF Fresh
  <2>2. CASE CaptureNew(h)
    BY <2>2 DEF CaptureNew, Execute, Fresh, OwnInv, CardInv, Inv, StoreInv
  <2> QED BY <2>1, <2>2
<1>5. run'[h].at = "capturing" => Wanted(h)'.title \notin DOMAIN run[h].box.merged
  <2>1. ASSUME run'[h].at = "capturing"
        PROVE  Wanted(h)'.title \notin DOMAIN run[h].box.merged
    <3>1. Wanted(h)' = Wanted(h)
      BY <1>2, <2>1 DEF Wanted
    <3> QED BY <1>2, <2>1, <3>1 DEF CaptureNew, Box
  <2> QED BY <2>1
<1>6. OthersRest(h) /\ Untouched(DOMAIN tasks) /\ SameBox(run[h].box, run'[h].box)
  BY <1>2, <1>3, <1>4 DEF OthersRest, Untouched, SameBox
<1> QED BY <1>1, <1>2, <1>4, <1>5, <1>6, SameOwn

LEMMA FinishOwn ==
    ASSUME OwnInv, CardInv', StoreGrows, NEW h \in Handlers, Finish(h) \/ Break(h)
    PROVE  OwnInv'
<1>1. run[h].at = "model" /\ run[h].at \in InTurn /\ UNCHANGED <<tasks, capture>>
  BY DEF Finish, Break, InTurn, store
<1>2. capture[h] = NoCapture /\ run[h].box = Box(h)
  BY <1>1, Turning DEF OwnInv, CardInv, Inv, Box
<1>3. /\ \A g \in Handlers \ {h} : run'[g] = run[g]
      /\ run'[h].at \in {"stash", "answer"} /\ run'[h].box = Box(h)
  BY FinishJob DEF OwnInv, CardInv, Inv
<1>4. OthersRest(h) /\ Untouched(DOMAIN tasks) /\ SameBox(run[h].box, run'[h].box)
  BY <1>1, <1>2, <1>3 DEF OthersRest, Untouched, SameBox
<1>5. run'[h].at \in InTurn \cup {"answer"} /\ run'[h].at # "capturing" /\ run[h].at # "merge"
  BY <1>1, <1>3 DEF InTurn
<1>6. run'[h].at = "capturing" => Wanted(h)'.title \notin DOMAIN run[h].box.merged
  BY <1>5
<1>7. Fresh(h)'
  BY <1>1, <1>2 DEF Fresh
<1> QED BY <1>1, <1>4, <1>5, <1>6, <1>7, SameOwn
(* A person put on a task is put on its entry too.                          *)
LEMMA MergePersonOwn ==
    ASSUME OwnInv, CardInv', StoreGrows, NEW h \in Handlers, MergePerson(h)
    PROVE  OwnInv'
<1>1. run[h].at = "merge" /\ UNCHANGED <<capture, wired, fsm>>
  BY DEF MergePerson
<1>2. /\ run[h].at \in InTurn /\ Box(h) \in Boxes /\ h \in DOMAIN run /\ capture[h] = NoCapture
      /\ Wanted(h).title \in DOMAIN Box(h).merged /\ Entry(h) \in Entries
  BY <1>1, Merging DEF OwnInv, CardInv, Inv
<1>3. PICK old \in Boxes : old = Box(h)
  BY <1>2
<1>4. PICK title : title = Wanted(h).title
  OBVIOUS
<1>5. PICK e : e = old.merged[title]
  OBVIOUS
<1>6. title \in DOMAIN old.merged /\ e = Entry(h) /\ e.people \in SUBSET Known
  BY <1>2, <1>3, <1>4, <1>5 DEF Entry, Entries
<1>7. PICK who \in SUBSET Known, box \in Boxes, r \in Turns :
          /\ tasks' = [tasks EXCEPT ![Entry(h).task].people = @ \cup who]
          /\ box = WithPeople(Box(h), Wanted(h).title, Entry(h).people \cup who)
          /\ run' = [run EXCEPT ![h] = r] /\ r.box = box /\ r.at = "merge"
          /\ r.calls = run[h].calls
  BY MergePersonBox, Zenon DEF OwnInv, CardInv, Inv
<1>8. PICK people \in SUBSET Known : people = e.people \cup who
  BY <1>6
<1>9. /\ DOMAIN box.merged = DOMAIN old.merged
      /\ \A t \in DOMAIN old.merged :
             /\ box.merged[t].task = old.merged[t].task
             /\ box.merged[t].card = old.merged[t].card
             /\ box.merged[t].people = IF t = title THEN people ELSE old.merged[t].people
      /\ box.cards = old.cards /\ box.refused = old.refused
  <2>1. box = WithPeople(old, title, people)
    BY <1>3, <1>4, <1>6, <1>7, <1>8
  <2> QED BY <1>6, <2>1, MergedBox
<1>10. /\ Shown(old) /\ Fits(old, {title}) /\ Apiece(old) /\ BoxExact(old)
       /\ TasksOf(old) \subseteq Owned(h)
  <2>1. Lag(h) = {title}
    BY <1>1, <1>4 DEF Lag
  <2> QED BY <1>2, <1>3, <2>1, TurnHas
<1>11. TasksOf(box) = TasksOf(old)
  BY <1>9 DEF TasksOf
<1>12. e.task \in TasksOf(old) /\ e.task \in DOMAIN tasks
  BY <1>5, <1>6, <1>10, BoxTasks DEF TasksOf
<1>13. \A i \in DOMAIN tasks : i # e.task => tasks'[i] = tasks[i]
  BY <1>6, <1>7
<1>14. tasks'[e.task].people = tasks[e.task].people \cup who
  BY <1>6, <1>7, <1>12, GivenOne DEF OwnInv, CardInv, Inv
<1>15. Untouched(DOMAIN tasks \ Owned(h))
  BY <1>10, <1>12, <1>13 DEF Untouched
<1>16. ASSUME NEW CONSTANT t \in DOMAIN box.merged
       PROVE  Exact(box.merged[t].task, box.merged[t].people)'
  <2>1. PICK k : k = box.merged[t].task
    OBVIOUS
  <2>2. PICK had : had = old.merged[t].people
    OBVIOUS
  <2>3. PICK has : has = box.merged[t].people
    OBVIOUS
  <2>4. Exact(k, had) /\ k = old.merged[t].task /\ k \in DOMAIN tasks
    BY <1>9, <1>10, <2>1, <2>2, BoxTasks DEF BoxExact, TasksOf
  <2>5. CASE t = title
    <3>1. k = e.task /\ had = e.people /\ has = e.people \cup who
      BY <1>5, <1>8, <1>9, <2>2, <2>3, <2>4, <2>5
    <3>2. tasks[k].moved => tasks'[k].moved
      BY <2>4 DEF StoreGrows, Keeps
    <3>3. Exact(k, has)'
      BY <1>14, <2>4, <3>1, <3>2 DEF Exact
    <3> QED BY <2>1, <2>3, <3>3
  <2>6. CASE t # title
    <3>1. k # e.task /\ has = had
      BY <1>5, <1>6, <1>9, <1>10, <2>2, <2>3, <2>4, <2>6 DEF Apiece
    <3>2. Untouched({k})
      BY <1>13, <2>4, <3>1 DEF Untouched
    <3>3. Exact(k, had)'
      BY <2>4, <3>2, ExactStays
    <3> QED BY <2>1, <2>3, <3>1, <3>3
  <2> QED BY <2>5, <2>6
<1>17. BoxExact(box)'
  BY <1>16 DEF BoxExact
<1>18. Apiece(box)
  BY <1>9, <1>10 DEF Apiece
<1>19. Fits(box, {title})
  <2> SUFFICES ASSUME NEW k \in DOMAIN box.cards
               PROVE  \E t \in DOMAIN box.merged : FitsAt(box, {title}, k, t)
    BY DEF Fits
  <2>1. PICK t \in DOMAIN old.merged : FitsAt(old, {title}, k, t)
    BY <1>9, <1>10 DEF Fits
  <2>2. FitsAt(box, {title}, k, t)
    BY <1>5, <1>8, <1>9, <2>1 DEF FitsAt
  <2> QED BY <1>9, <2>2
<1>20. run'[h] = r /\ OthersRest(h) /\ Fresh(h)'
  BY <1>1, <1>2, <1>7 DEF OthersRest, Fresh
<1>21. {title} = Lag(h)'
  BY <1>4, <1>7, <1>20 DEF Lag, Wanted
<1>22. run'[h].at \in InTurn \cup {"answer"} /\ run'[h].box = box
       /\ (run'[h].at = "capturing" => Wanted(h)'.title \notin DOMAIN box.merged)
  BY <1>7, <1>20 DEF InTurn
<1>23. TasksOf(box) \subseteq Owned(h)
  BY <1>10, <1>11
<1> QED BY <1>15, <1>17, <1>18, <1>19, <1>20, <1>21, <1>22, <1>23, TurnOwn

(* The card gets the people of its entry, or it is known to be behind.      *)
LEMMA MergeEndOwn ==
    ASSUME OwnInv, CardInv', StoreGrows, NEW h \in Handlers, MergeShown(h) \/ MergeRefused(h)
    PROVE  OwnInv'
<1>1. run[h].at = "merge" /\ UNCHANGED <<tasks, capture, wired, fsm>>
  BY DEF MergeShown, MergeRefused, store
<1>2. /\ run[h].at \in InTurn /\ Box(h) \in Boxes /\ run[h].calls # <<>>
      /\ capture[h] = NoCapture
      /\ Wanted(h).title \in DOMAIN Box(h).merged /\ Entry(h) \in Entries
  BY <1>1, Merging DEF OwnInv, CardInv, Inv
<1>3. PICK old \in Boxes : old = Box(h)
  BY <1>2
<1>4. PICK title : title = Wanted(h).title
  OBVIOUS
<1>5. PICK e \in Entries : e = Entry(h)
  BY <1>2
<1>6. title \in DOMAIN old.merged /\ e = old.merged[title]
  BY <1>2, <1>3, <1>4, <1>5 DEF Entry
<1>7. /\ Shown(old) /\ Fits(old, {title}) /\ Apiece(old) /\ BoxExact(old)
      /\ TasksOf(old) \subseteq Owned(h)
  <2>1. Lag(h) = {title}
    BY <1>1, <1>4 DEF Lag
  <2> QED BY <1>2, <1>3, <2>1, TurnHas
<1>8. BoxExact(old)'
  <2>1. Untouched(TasksOf(old)) /\ TasksOf(old) \subseteq DOMAIN tasks
    BY <1>1, <1>7, BoxTasks DEF Untouched
  <2> QED BY <1>7, <2>1, BoxStays
<1>9. ASSUME NEW CONSTANT box \in Boxes, Result(h, box), Fits(box, {}), box.merged = old.merged
      PROVE  OwnInv'
  <2>1. run'[h].box = box /\ run'[h].at \in {"model", "tool"}
        /\ \A g \in Handlers \ {h} : run'[g] = run[g]
    BY <1>1, <1>2, <1>9, ResultJob DEF OwnInv, CardInv, Inv
  <2>2. OthersRest(h) /\ Fresh(h)' /\ Untouched(DOMAIN tasks \ Owned(h))
    BY <1>1, <1>2, <2>1 DEF OthersRest, Fresh, Untouched
  <2>3. BoxExact(box)' /\ Apiece(box) /\ TasksOf(box) \subseteq Owned(h)
    BY <1>7, <1>8, <1>9 DEF BoxExact, Apiece, TasksOf
  <2>4. {} = Lag(h)' /\ run'[h].at \in InTurn \cup {"answer"}
        /\ (run'[h].at = "capturing" => Wanted(h)'.title \notin DOMAIN box.merged)
    BY <2>1 DEF Lag, InTurn
  <2> QED BY <1>9, <2>1, <2>2, <2>3, <2>4, TurnOwn
<1>10. CASE MergeRefused(h)
  <2>1. PICK refused \in SUBSET Nat : refused = old.refused \cup {e.card}
    BY DEF Boxes, Entries
  <2>2. PICK box : box = [old EXCEPT !.refused = refused]
    OBVIOUS
  <2>3. /\ box \in Boxes /\ box.cards = old.cards /\ box.merged = old.merged
        /\ box.refused = refused
    BY <2>2 DEF Boxes
  <2>4. Result(h, box)
    BY <1>3, <1>5, <1>10, <2>1, <2>2 DEF MergeRefused
  <2>5. ASSUME NEW k \in DOMAIN box.cards
        PROVE  \E t \in DOMAIN box.merged : FitsAt(box, {}, k, t)
    <3>1. PICK t \in DOMAIN old.merged : FitsAt(old, {title}, k, t)
      BY <1>7, <2>3, <2>5 DEF Fits
    <3>2. FitsAt(box, {}, k, t)
      BY <1>6, <2>1, <2>3, <3>1 DEF FitsAt
    <3> QED BY <2>3, <3>2
  <2>6. Fits(box, {})
    BY <2>5 DEF Fits
  <2> QED BY <1>9, <2>3, <2>4, <2>6
<1>11. CASE MergeShown(h)
  <2>1. PICK cards : cards = CardWith(old.cards, e.card, e.people)
    OBVIOUS
  <2>2. /\ cards \in Seq(Cards) /\ DOMAIN cards = DOMAIN old.cards
        /\ \A i \in DOMAIN old.cards :
               /\ cards[i].task = old.cards[i].task
               /\ cards[i].people = IF i = e.card THEN e.people ELSE old.cards[i].people
    <3>1. old.cards \in Seq(Cards) /\ e.people \in SUBSET Known
      BY DEF Boxes, Entries
    <3> QED BY <2>1, <3>1, CardPeople
  <2>3. PICK box : box = [old EXCEPT !.cards = cards, !.refused = @ \ {e.card}]
    OBVIOUS
  <2>4. box = [Box(h) EXCEPT !.cards[Entry(h).card].people = Entry(h).people,
                             !.refused = @ \ {Entry(h).card}]
    BY <1>3, <1>5, <2>1, <2>3 DEF CardWith
  <2>5. box \in Boxes /\ box.cards = cards /\ box.merged = old.merged
        /\ box.refused = old.refused \ {e.card}
    BY <2>2, <2>3 DEF Boxes
  <2>6. Result(h, box)
    BY <1>11, <2>4 DEF MergeShown
  <2>7. ASSUME NEW k \in DOMAIN box.cards
        PROVE  \E t \in DOMAIN box.merged : FitsAt(box, {}, k, t)
    <3>1. PICK t \in DOMAIN old.merged : FitsAt(old, {title}, k, t)
      BY <1>7, <2>2, <2>5, <2>7 DEF Fits
    <3>2. CASE k = e.card
      <4>1. box.cards[k].task = e.task
        BY <1>6, <1>7, <2>2, <2>5, <2>7, <3>2 DEF Shown, Entered
      <4>2. box.cards[k].people = e.people
        BY <2>2, <2>5, <2>7, <3>2
      <4>3. FitsAt(box, {}, k, title)
        BY <1>6, <2>5, <3>2, <4>1, <4>2 DEF FitsAt
      <4> QED BY <1>6, <2>5, <4>3
    <3>3. CASE k # e.card
      <4>1. t # title
        BY <1>6, <3>1, <3>3 DEF FitsAt
      <4>2. box.cards[k].task = old.cards[k].task /\ box.cards[k].people = old.cards[k].people
        BY <2>2, <2>5, <2>7, <3>3
      <4>3. FitsAt(box, {}, k, t)
        BY <2>5, <3>1, <3>3, <4>1, <4>2 DEF FitsAt
      <4> QED BY <2>5, <4>3
    <3> QED BY <3>2, <3>3
  <2>8. Fits(box, {})
    BY <2>7 DEF Fits
  <2> QED BY <1>9, <2>5, <2>6, <2>8
<1> QED BY <1>10, <1>11

(* A card more, of a task that nobody else has.                             *)
LEMMA CapturedOwn ==
    ASSUME OwnInv, CardInv', StoreGrows, NEW h \in Handlers,
           Captured(h) \/ CaptureRefused(h) \/ CaptureBroken(h)
    PROVE  OwnInv'
<1>1. run[h].at = "capturing" /\ run[h].at \in InTurn /\ UNCHANGED <<wired, fsm>>
  BY DEF Captured, CaptureRefused, CaptureBroken, InTurn
<1>2. capture'[h] = NoCapture /\ tasks' = tasks
      /\ \A g \in Handlers \ {h} : capture'[g] = capture[g]
  BY Left DEF Captured, CaptureRefused, CaptureBroken, OwnInv, CardInv, Inv
<1>3. \A g \in Handlers \ {h} : run'[g] = run[g]
  BY CapturedShown DEF OwnInv
<1>4. OthersRest(h) /\ Fresh(h)' /\ Untouched(DOMAIN tasks)
  BY <1>2, <1>3 DEF OthersRest, Fresh, Untouched
<1>5. /\ Box(h) \in Boxes /\ run[h].calls # <<>> /\ Wanted(h).title \in Titles
      /\ capture[h].task \in Nat /\ run[h].box = Box(h)
      /\ capture[h].at = "captured" => CardOf(h) \in Cards /\ EntryOf(h) \in Entries
  BY <1>1, Capturing DEF OwnInv, CardInv, Inv
<1>6. PICK old \in Boxes : old = Box(h)
  BY <1>5
<1>7. ASSUME NEW CONSTANT box \in Boxes, Result(h, box)
      PROVE  run'[h].box = box /\ run'[h].at \in {"model", "tool"}
  BY <1>1, <1>2, <1>5, <1>7, ResultJob DEF OwnInv, CardInv, Inv
<1>8. CASE CaptureRefused(h) \/ CaptureBroken(h)
  <2>1. PICK torn \in SUBSET Nat : torn = {capture[h].task} \ {0}
    BY <1>5
  <2>2. PICK broken : broken = [old EXCEPT !.wrote = @ \cup torn, !.broken = @ \cup torn]
    OBVIOUS
  <2>3. broken \in Boxes
    BY <2>2, BrokenBox
  <2>4. Result(h, old) \/ Result(h, broken)
    BY <1>6, <1>8, <2>1, <2>2 DEF CaptureRefused, CaptureBroken
  <2>5. PICK box \in Boxes : Result(h, box) /\ box \in {old, broken}
    BY <2>3, <2>4
  <2>6. SameBox(old, box)
    BY <2>2, <2>5 DEF SameBox, Boxes
  <2>7. run'[h].box = box /\ run'[h].at \in {"model", "tool"}
    BY <1>7, <2>5
  <2>8. SameBox(run[h].box, run'[h].box)
    BY <1>5, <1>6, <2>6, <2>7
  <2>9. run'[h].at \in InTurn \cup {"answer"} /\ run[h].at # "merge"
        /\ (run'[h].at = "capturing" => Wanted(h)'.title \notin DOMAIN run[h].box.merged)
    BY <1>1, <2>7 DEF InTurn
  <2> QED BY <1>1, <1>4, <2>8, <2>9, SameOwn
<1>9. CASE Captured(h)
  <2>1. capture[h].at = "captured" /\ capture[h] # NoCapture
    BY <1>9 DEF Captured, Leave, NoCapture
  <2>2. PICK card \in Cards : card = CardOf(h)
    BY <1>5, <2>1
  <2>3. PICK e \in Entries : e = EntryOf(h)
    BY <1>5, <2>1
  <2>4. PICK title \in Titles : title = Wanted(h).title
    BY <1>5
  <2>5. PICK task \in Nat : task = capture[h].task
    BY <1>5
  <2>6. PICK box : box = WithCard(old, card, e, title, task)
    OBVIOUS
  <2>7. /\ box \in Boxes
        /\ box.cards = Append(old.cards, card)
        /\ DOMAIN box.merged = DOMAIN old.merged \cup {title}
        /\ \A t \in DOMAIN box.merged :
               box.merged[t] = IF t = title THEN e ELSE old.merged[t]
        /\ box.refused = old.refused
    BY <2>6, NewCardBox
  <2>8. Result(h, box)
    BY <1>6, <1>9, <2>2, <2>3, <2>4, <2>5, <2>6 DEF Captured, WithCard
  <2>9. /\ card.task = task /\ card.people = capture[h].named
        /\ e.task = task /\ e.people = capture[h].named /\ e.card = Len(old.cards) + 1
    BY <1>6, <2>2, <2>3, <2>5 DEF CardOf, EntryOf
  <2>10. /\ Shown(old) /\ Fits(old, {}) /\ Apiece(old) /\ BoxExact(old)
         /\ TasksOf(old) \subseteq Owned(h)
    BY <1>1, <1>6, TurnHas
  <2>11. /\ title \notin DOMAIN old.merged /\ Exact(task, e.people)
         /\ task \in Owned(h) /\ task \notin TasksOf(old)
    <3>1. Own(h) /\ OfBox(h) = TasksOf(old)
      BY <1>1, <1>5, <1>6 DEF OwnInv, OfBox
    <3>2. task # 0
      BY <2>1, <2>5 DEF OwnInv, CardInv, Inv, StoreInv, Reads
    <3>3. OfCapture(h) = {task}
      BY <2>1, <2>5, <3>2 DEF OfCapture
    <3> QED BY <1>1, <1>5, <1>6, <2>1, <2>4, <2>5, <2>9, <3>1, <3>3 DEF Own, Owned
  <2>12. /\ DOMAIN box.cards = DOMAIN old.cards \cup {e.card}
         /\ box.cards[e.card] = card
         /\ \A i \in DOMAIN old.cards : i \in DOMAIN box.cards /\ box.cards[i] = old.cards[i]
    <3>1. old.cards \in Seq(Cards) /\ Len(old.cards) \in Nat /\ DOMAIN old.cards = 1..Len(old.cards)
      BY DEF Boxes
    <3> QED BY <2>7, <2>9, <3>1
  <2>13. \A t \in DOMAIN old.merged : t # title /\ box.merged[t] = old.merged[t]
    BY <2>7, <2>11
  <2>14. box.merged[title] = e /\ title \in DOMAIN box.merged
    BY <2>7
  <2>15. TasksOf(box) \subseteq Owned(h)
    BY <2>7, <2>9, <2>10, <2>11, <2>13 DEF TasksOf
  <2>16. Apiece(box)
    <3> SUFFICES ASSUME NEW s \in DOMAIN box.merged, NEW t \in DOMAIN box.merged, s # t
                 PROVE  box.merged[s].task # box.merged[t].task
      BY DEF Apiece
    <3>1. CASE s = title
      BY <2>7, <2>9, <2>11, <2>13, <2>14, <3>1 DEF TasksOf
    <3>2. CASE t = title
      BY <2>7, <2>9, <2>11, <2>13, <2>14, <3>2 DEF TasksOf
    <3>3. CASE s # title /\ t # title
      BY <2>7, <2>10, <2>13, <3>3 DEF Apiece
    <3> QED BY <3>1, <3>2, <3>3
  <2>17. BoxExact(box)
    <3> SUFFICES ASSUME NEW t \in DOMAIN box.merged
                 PROVE  Exact(box.merged[t].task, box.merged[t].people)
      BY DEF BoxExact
    <3>1. CASE t = title
      BY <2>9, <2>11, <2>14, <3>1
    <3>2. CASE t # title
      BY <2>7, <2>10, <2>13, <3>2 DEF BoxExact
    <3> QED BY <3>1, <3>2
  <2>18. BoxExact(box)'
    <3>1. TasksOf(box) \subseteq DOMAIN tasks
      BY <2>15, OwnedExist DEF OwnInv
    <3>2. Untouched(TasksOf(box))
      BY <1>4, <3>1 DEF Untouched
    <3> QED BY <2>17, <3>1, <3>2, BoxStays
  <2>19. ASSUME NEW k \in DOMAIN box.cards
         PROVE  \E t \in DOMAIN box.merged : FitsAt(box, {}, k, t)
    <3>1. CASE k = e.card
      <4>1. FitsAt(box, {}, k, title)
        BY <2>9, <2>12, <2>14, <3>1 DEF FitsAt
      <4> QED BY <2>14, <4>1
    <3>2. CASE k \in DOMAIN old.cards
      <4>1. PICK t \in DOMAIN old.merged : FitsAt(old, {}, k, t)
        BY <2>10, <3>2 DEF Fits
      <4>2. FitsAt(box, {}, k, t)
        BY <2>7, <2>12, <2>13, <3>2, <4>1 DEF FitsAt
      <4> QED BY <2>7, <4>2
    <3> QED BY <2>12, <3>1, <3>2
  <2>20. Fits(box, {})
    BY <2>19 DEF Fits
  <2>21. run'[h].box = box /\ run'[h].at \in {"model", "tool"}
    BY <1>7, <2>7, <2>8
  <2>22. {} = Lag(h)' /\ run'[h].at \in InTurn \cup {"answer"}
         /\ (run'[h].at = "capturing" => Wanted(h)'.title \notin DOMAIN box.merged)
    BY <2>21 DEF Lag, InTurn
  <2>23. Untouched(DOMAIN tasks \ Owned(h))
    BY <1>4 DEF Untouched
  <2> QED BY <1>4, <2>15, <2>16, <2>18, <2>20, <2>21, <2>22, <2>23, TurnOwn
<1> QED BY <1>8, <1>9

(* A step of a capture: only the task that it writes changes, and what it    *)
(* gives to a person it has given him itself.                                *)
LEMMA CapturingOwn ==
    ASSUME OwnInv, CardInv', StoreGrows, NEW h \in Handlers, CapturingStep(h)
    PROVE  OwnInv'
<1>1. run' = run /\ (CaptureStep(h) \/ Refused(h))
  BY DEF CapturingStep
<1>2. Running(h)
  BY <1>1 DEF CaptureStep, GetProjectByTitle, CreateProject, FindDuplicate, CreateTask,
              AssignNext, AddAudit, Refused, Running
<1>3. PICK old : old = capture[h]
  OBVIOUS
<1>4. /\ old # NoCapture /\ h \in DOMAIN capture /\ old \in Captures
      /\ DOMAIN capture = Handlers /\ Reads(h) /\ StoreInv
  BY <1>2, <1>3 DEF Running, NoCapture, OwnInv, CardInv, Inv, StoreInv, Reads
<1>5. /\ tasks \in [DOMAIN tasks -> TaskRows] /\ DOMAIN tasks = 1..Len(tasks)
      /\ Len(tasks) \in Nat
  BY <1>4 DEF StoreInv, Rows
<1>6. OfCapture(h) = {old.task} \ {0}
  BY <1>3, <1>4 DEF OfCapture
<1>7. old.at \in {"assign", "captured"} => Exact(old.task, old.named)
  BY <1>3 DEF OwnInv, Own
<1>8. ASSUME NEW CONSTANT n, capture' = [capture EXCEPT ![h] = n], n \in Captures',
             Untouched(DOMAIN tasks \ OfCapture(h)),
             n.task \in {old.task} \cup (Nat \ DOMAIN tasks),
             n.at \in {"assign", "captured"} => Exact(n.task, n.named)'
      PROVE  OwnInv'
  <2>1. capture'[h] = n /\ OthersRest(h)
    BY <1>1, <1>4, <1>8 DEF OthersRest
  <2>2. OfCapture(h)' \subseteq {n.task} \ {0}
    BY <2>1 DEF OfCapture
  <2>3. OfCapture(h)' \cap DOMAIN tasks \subseteq OfCapture(h)
    BY <1>6, <1>8, <2>2
  <2> QED BY <1>1, <1>8, <2>1, <2>3, CaptureOwn
<1>9. CASE GetProjectByTitle(h) \/ CreateProject(h) \/ FindDuplicate(h)
  <2>1. tasks' = tasks
    BY <1>9 DEF GetProjectByTitle, CreateProject, FindDuplicate
  <2>2. PICK at \in {"create", "check", "write", "duplicate"} :
            \/ capture' = [capture EXCEPT ![h].at = at]
            \/ \E project : capture' = [capture EXCEPT ![h].at = at, ![h].project = project]
    BY <1>9, Zenon DEF GetProjectByTitle, CreateProject, FindDuplicate
  <2>3. PICK n : /\ \/ n = [old EXCEPT !.at = at]
                    \/ \E project : n = [old EXCEPT !.at = at, !.project = project]
                 /\ capture' = [capture EXCEPT ![h] = n]
    BY <1>3, <1>4, <2>2
  <2>4. n.task = old.task /\ n.at = at /\ capture'[h] = n
    BY <1>4, <2>3 DEF Captures
  <2>5. n \in Captures'
    BY <2>4 DEF CardInv, Inv, StoreInv, Reads, NoCapture
  <2>6. Untouched(DOMAIN tasks \ OfCapture(h))
    BY <2>1 DEF Untouched
  <2> QED BY <1>8, <2>3, <2>4, <2>5, <2>6
<1>10. CASE CreateTask(h)
  <2>1. old.at = "write" /\ old.named = {} /\ old.task \in Nat
    BY <1>3, <1>4, <1>10 DEF CreateTask, Reads, Captures
  <2>2. PICK t : tasks' = Append(tasks, t) /\ t.people = {}
    BY <1>10 DEF CreateTask
  <2>3. PICK k : k = Len(tasks) + 1
    OBVIOUS
  <2>4. /\ k \in Nat \ DOMAIN tasks /\ Len(tasks') = k /\ tasks'[k] = t
        /\ \A i \in DOMAIN tasks : tasks'[i] = tasks[i]
    BY <1>5, <2>2, <2>3
  <2>5. PICK n : n = [old EXCEPT !.at = "assign", !.task = k]
    OBVIOUS
  <2>6. capture' = [capture EXCEPT ![h] = n]
    BY <1>3, <1>4, <1>10, <2>4, <2>5 DEF CreateTask
  <2>7. n.at = "assign" /\ n.task = k /\ n.named = {} /\ capture'[h] = n
    BY <1>4, <2>1, <2>5, <2>6 DEF Captures
  <2>8. n \in Captures'
    BY <2>7 DEF CardInv, Inv, StoreInv, Reads, NoCapture
  <2>9. Untouched(DOMAIN tasks \ OfCapture(h))
    BY <2>4 DEF Untouched
  <2>10. Exact(n.task, n.named)'
    <3>1. tasks'[k].people = {}
      BY <2>2, <2>4
    <3> QED BY <2>7, <3>1 DEF Exact
  <2> QED BY <1>8, <2>4, <2>6, <2>7, <2>8, <2>9, <2>10
<1>11. CASE AssignNext(h)
  <2>1. old.at = "assign" /\ old.task \in DOMAIN tasks /\ old.task # 0
    BY <1>3, <1>4, <1>11, Assigning DEF AssignNext
  <2>2. PICK k : k = old.task
    OBVIOUS
  <2>3. PICK who \in SUBSET Known : who = {Head(capture[h].todo)} \cap Known
    OBVIOUS
  <2>4. /\ tasks' = [tasks EXCEPT ![k].people = @ \cup who]
        /\ capture' = [capture EXCEPT ![h].todo = Tail(@), ![h].named = @ \cup who]
    BY <1>3, <1>11, <2>2, <2>3 DEF AssignNext
  <2>5. PICK n : n = [old EXCEPT !.todo = Tail(@), !.named = @ \cup who]
    OBVIOUS
  <2>6. capture' = [capture EXCEPT ![h] = n]
    BY <1>3, <1>4, <2>4, <2>5
  <2>7. n.at = "assign" /\ n.task = k /\ n.named = old.named \cup who /\ capture'[h] = n
    BY <1>4, <2>1, <2>2, <2>5, <2>6 DEF Captures
  <2>8. n \in Captures'
    BY <2>7 DEF CardInv, Inv, StoreInv, Reads, NoCapture
  <2>9. tasks'[k].people = tasks[k].people \cup who
    BY <1>4, <2>1, <2>2, <2>4, GivenOne
  <2>10. Untouched(DOMAIN tasks \ OfCapture(h))
    BY <1>6, <2>1, <2>2, <2>4 DEF Untouched
  <2>11. tasks[k].moved => tasks'[k].moved
    BY <2>1, <2>2 DEF StoreGrows, Keeps
  <2>12. Exact(n.task, n.named)'
    BY <1>7, <2>1, <2>2, <2>7, <2>9, <2>11 DEF Exact
  <2> QED BY <1>8, <2>2, <2>6, <2>7, <2>8, <2>10, <2>12
<1>12. CASE AddAudit(h)
  <2>1. old.at = "assign" /\ old.task \in DOMAIN tasks
    BY <1>3, <1>4, <1>12, Assigning DEF AddAudit
  <2>2. PICK k : k = old.task
    OBVIOUS
  <2>3. /\ tasks' = [tasks EXCEPT ![k].audited = TRUE]
        /\ capture' = [capture EXCEPT ![h].at = "captured"]
    BY <1>3, <1>12, <2>2 DEF AddAudit
  <2>4. PICK n : n = [old EXCEPT !.at = "captured"]
    OBVIOUS
  <2>5. capture' = [capture EXCEPT ![h] = n]
    BY <1>3, <1>4, <2>3, <2>4
  <2>6. n.at = "captured" /\ n.task = k /\ n.named = old.named /\ capture'[h] = n
    BY <1>4, <2>2, <2>4, <2>5 DEF Captures
  <2>7. n \in Captures'
    BY <2>6 DEF CardInv, Inv, StoreInv, Reads, NoCapture
  <2>8. \A i \in DOMAIN tasks : tasks'[i].people = tasks[i].people
    BY <1>5, <2>1, <2>2, <2>3 DEF TaskRows
  <2>9. Untouched(DOMAIN tasks \ OfCapture(h)) /\ Untouched({k})
    BY <2>1, <2>2, <2>8 DEF Untouched
  <2>10. PICK people : people = old.named
    OBVIOUS
  <2>11. Exact(k, people)'
    BY <1>7, <2>1, <2>2, <2>9, <2>10, ExactStays
  <2>12. Exact(n.task, n.named)'
    BY <2>6, <2>10, <2>11
  <2> QED BY <1>8, <2>2, <2>5, <2>6, <2>7, <2>9, <2>12
<1>13. CASE Refused(h)
  <2>1. tasks' = CutBy({h}) /\ capture' = [capture EXCEPT ![h].at = "failed"]
    BY <1>13 DEF Refused
  <2>2. PICK torn : tasks' = [i \in DOMAIN tasks |-> [tasks[i] EXCEPT !.cut = @ \/ i \in torn]]
    BY <2>1, Zenon DEF CutBy
  <2>3. ASSUME NEW i \in DOMAIN tasks PROVE tasks'[i].people = tasks[i].people
    <3>1. PICK cut : tasks'[i] = [tasks[i] EXCEPT !.cut = cut]
      BY <2>2
    <3> QED BY <1>5, <3>1 DEF TaskRows
  <2>4. Untouched(DOMAIN tasks \ OfCapture(h))
    BY <2>3 DEF Untouched
  <2>5. PICK n : n = [old EXCEPT !.at = "failed"]
    OBVIOUS
  <2>6. capture' = [capture EXCEPT ![h] = n]
    BY <1>3, <1>4, <2>1, <2>5
  <2>7. n.at = "failed" /\ n.task = old.task /\ capture'[h] = n
    BY <1>4, <2>5, <2>6 DEF Captures
  <2>8. n \in Captures'
    BY <2>7 DEF CardInv, Inv, StoreInv, Reads, NoCapture
  <2> QED BY <1>8, <2>4, <2>6, <2>7, <2>8
<1> QED BY <1>1, <1>9, <1>10, <1>11, <1>12, <1>13 DEF CaptureStep

(* The steps outside of the turns have no task, nor does a turn that begins. *)
LEMMA DialogueOwn ==
    ASSUME OwnInv, CardInv', StoreGrows, NEW h \in Handlers,
           \/ Stash(h) \/ AskField(h) \/ StoreOptions(h) \/ ClearTyping(h) \/ SendKeyboard(h)
           \/ SendRefused(h) \/ StoreFilled(h) \/ Finalize(h) \/ Finalized(h)
           \/ DispatchCapture(h) \/ DispatchRefused(h) \/ Dispatched(h) \/ DispatchEnd(h)
           \/ Answered(h)
    PROVE  OwnInv'
<1>1. DOMAIN run = Handlers /\ DOMAIN capture = Handlers /\ Job(h) /\ Job(h)'
  BY DEF OwnInv, CardInv, Inv, JobInv, StoreInv
<1>2. CASE \/ Stash(h) \/ AskField(h) \/ StoreOptions(h) \/ ClearTyping(h) \/ SendKeyboard(h)
           \/ SendRefused(h) \/ StoreFilled(h) \/ DispatchRefused(h) \/ DispatchEnd(h)
           \/ Answered(h)
  <2>1. UNCHANGED <<tasks, capture>>
    BY <1>2 DEF Stash, AskField, StoreOptions, ClearTyping, SendKeyboard, SendRefused, StoreFilled,
                DispatchRefused, DispatchEnd, Answered, store
  <2>2. PICK r : run' = [run EXCEPT ![h] = r]
    BY <1>2 DEF Stash, AskField, StoreOptions, ClearTyping, SendKeyboard, SendRefused, StoreFilled,
                DispatchRefused, DispatchEnd, Answered, To
  <2>3. capture[h] = NoCapture /\ run'[h].at \notin InTurn \cup {"answer"}
    <3>1. CASE Stash(h) \/ Answered(h)
      BY <1>1, <3>1 DEF Stash, Answered, Job, Idle, InTurn
    <3>2. CASE \/ AskField(h) \/ StoreOptions(h) \/ ClearTyping(h) \/ SendKeyboard(h)
               \/ SendRefused(h) \/ StoreFilled(h)
      <4>1. Apart(h)
        BY <3>2, DialogueApart DEF OwnInv
      <4>2. run[h].at \in {"ask", "options", "state", "send", "fill"}
        BY <3>2 DEF AskField, StoreOptions, ClearTyping, SendKeyboard, SendRefused, StoreFilled
      <4> QED BY <1>1, <4>1, <4>2 DEF Job, Apart, InTurn
    <3>3. CASE DispatchRefused(h) \/ DispatchEnd(h)
      <4>1. Apart(h)
        BY <3>3, DispatchApart DEF OwnInv
      <4>2. run[h].at = "dispatch"
        BY <3>3 DEF DispatchRefused, DispatchEnd
      <4> QED BY <1>1, <4>1, <4>2 DEF Job, Apart, InTurn
    <3> QED BY <1>2, <3>1, <3>2, <3>3
  <2>4. OthersRest(h) /\ Fresh(h)'
    BY <1>1, <2>1, <2>2, <2>3 DEF OthersRest, Fresh
  <2> QED BY <2>1, <2>3, <2>4, AwayOwn
<1>3. CASE Finalized(h) \/ Dispatched(h)
  <2>1. /\ capture'[h] = NoCapture /\ tasks' = tasks
        /\ \A g \in Handlers \ {h} : capture'[g] = capture[g]
    BY <1>3, Left DEF Finalized, Dispatched, OwnInv, CardInv, Inv
  <2>2. PICK r : run' = [run EXCEPT ![h] = r]
    BY <1>3 DEF Finalized, Dispatched
  <2>3. run'[h].at \notin InTurn \cup {"answer"}
    <3>1. Apart(h)
      BY <1>3, DialogueApart, DispatchApart DEF OwnInv
    <3>2. run[h].at \in {"finalizing", "dispatched"}
      BY <1>3 DEF Finalized, Dispatched
    <3> QED BY <3>1, <3>2 DEF Apart, InTurn
  <2>4. OthersRest(h) /\ Fresh(h)'
    BY <1>1, <2>1, <2>2 DEF OthersRest, Fresh
  <2> QED BY <2>1, <2>3, <2>4, AwayOwn
<1>4. CASE Finalize(h) \/ DispatchCapture(h)
  <2>1. PICK r : run' = [run EXCEPT ![h] = r]
    BY <1>4 DEF Finalize, DispatchCapture, To
  <2>2. capture[h] = NoCapture
    BY <1>1, <1>4 DEF Finalize, DispatchCapture, Job
  <2>3. run'[h].at \notin InTurn \cup {"answer"}
    <3>1. Apart(h)
      BY <1>4, DialogueApart, DispatchApart DEF OwnInv
    <3>2. run[h].at \in {"finalize", "dispatch"}
      BY <1>4 DEF Finalize, DispatchCapture
    <3> QED BY <3>1, <3>2 DEF Apart, InTurn
  <2>4. CASE \E want : \E parsed : Execute(h, want, parsed)
    <3>1. PICK want, parsed : Execute(h, want, parsed)
      BY <2>4
    <3>2. PICK c :
              c = [at |-> "lookup", want |-> want, parsed |-> parsed, project |-> 0, task |-> 0,
                   todo |-> want.people, named |-> {},
                   projectsThen |-> Len(projects), tasksThen |-> Len(tasks)]
      OBVIOUS
    <3>3. capture' = [capture EXCEPT ![h] = c] /\ tasks' = tasks
      BY <3>1, <3>2 DEF Execute
    <3>4. c.task = 0 /\ c.at = "lookup"
      BY <3>2
    <3>5. OthersRest(h) /\ Fresh(h)'
      BY <1>1, <2>1, <3>3, <3>4 DEF OthersRest, Fresh
    <3> QED BY <2>3, <3>3, <3>5, AwayOwn
  <2>5. CASE UNCHANGED <<tasks, capture>>
    <3>1. OthersRest(h) /\ Fresh(h)'
      BY <1>1, <2>1, <2>2, <2>5 DEF OthersRest, Fresh
    <3> QED BY <2>3, <2>5, <3>1, AwayOwn
  <2>6. \/ \E want : \E parsed : Execute(h, want, parsed)
        \/ UNCHANGED <<tasks, capture>>
    BY <1>4 DEF Finalize, DispatchCapture, store
  <2> QED BY <2>4, <2>5, <2>6
<1> QED BY <1>2, <1>3, <1>4

LEMMA AskedOwn ==
    ASSUME OwnInv, CardInv', StoreGrows, NEW h \in Handlers, NEW u \in Users, Asked(h, u)
    PROVE  OwnInv'
<1>1. DOMAIN run = Handlers /\ Job(h)
  BY DEF OwnInv, CardInv, Inv, JobInv
<1>2. CASE Message(h, u)
  <2>1. UNCHANGED <<tasks, capture>> /\ capture[h] = NoCapture
    BY <1>1, <1>2 DEF Message, store, Job, Idle
  <2>2. CASE run' = [run EXCEPT ![h] = [at |-> "model", user |-> u, calls |-> <<>>,
                                        todo |-> <<>>, rounds |-> 0, box |-> NewBox]]
    <3>1. run'[h].at = "model" /\ run'[h].box = NewBox /\ \A g \in Handlers \ {h} : run'[g] = run[g]
      BY <1>1, <2>2
    <3>2. PICK box : box = NewBox
      OBVIOUS
    <3>3. DOMAIN box.merged = {} /\ DOMAIN box.cards = {}
      BY <3>2 DEF NewBox
    <3>4. Fits(box, {}) /\ Apiece(box) /\ TasksOf(box) = {} /\ BoxExact(box)
      BY <3>3 DEF Fits, Apiece, TasksOf, BoxExact
    <3>5. BoxExact(box)'
      BY <3>3 DEF BoxExact
    <3>6. OthersRest(h) /\ Fresh(h)' /\ Untouched(DOMAIN tasks \ Owned(h))
      BY <2>1, <3>1 DEF OthersRest, Fresh, Untouched
    <3>7. {} = Lag(h)' /\ run'[h].at \in InTurn \cup {"answer"} /\ run'[h].box = box
          /\ (run'[h].at = "capturing" => Wanted(h)'.title \notin DOMAIN box.merged)
      BY <3>1, <3>2 DEF Lag, InTurn
    <3>8. TasksOf(box) \subseteq Owned(h)
      BY <3>4
    <3> QED BY <3>4, <3>5, <3>6, <3>7, <3>8, TurnOwn
  <2>3. CASE \E wants \in Answers(Wants) :
                 run' = [run EXCEPT ![h] = [at |-> "dispatch", user |-> u, calls |-> wants]]
    <3>1. run'[h].at = "dispatch" /\ \A g \in Handlers \ {h} : run'[g] = run[g]
      BY <1>1, <2>3
    <3>2. OthersRest(h) /\ Fresh(h)' /\ run'[h].at \notin InTurn \cup {"answer"}
      BY <2>1, <3>1 DEF OthersRest, Fresh, InTurn
    <3> QED BY <2>1, <3>2, AwayOwn
  <2> QED BY <1>2, <2>2, <2>3 DEF Message
<1>3. CASE Replied(h, u)
  <2>1. UNCHANGED <<tasks, capture>> /\ run[h] = Idle /\ capture[h] = NoCapture
    <3>1. run[h] = Idle
      BY <1>3 DEF Replied, TapOption, TapDeadline, TapType, PressEdit, TypeProject, TypeDeadline,
                  Begins
    <3>2. UNCHANGED <<tasks, capture>>
      BY <1>3, RepliedJob DEF OwnInv, CardInv, Inv, store
    <3> QED BY <1>1, <3>1, <3>2 DEF Job, Idle
  <2>2. \A g \in Handlers \ {h} : run'[g] = run[g]
    <3>1. run' = run \/ \E r : run' = [run EXCEPT ![h] = r]
      BY <1>3 DEF Replied, TapOption, TapDeadline, TapType, PressEdit, TypeProject, TypeDeadline,
                  Fill
    <3> QED BY <1>1, <3>1
  <2>3. run'[h].at \notin InTurn \cup {"answer"}
    <3>1. run'[h] = run[h] \/ run'[h].at = "fill"
      BY <1>3, RepliedJob DEF OwnInv, CardInv, Inv
    <3> QED BY <2>1, <3>1 DEF Idle, InTurn
  <2>4. OthersRest(h) /\ Fresh(h)'
    BY <1>1, <2>1, <2>2 DEF OthersRest, Fresh
  <2> QED BY <2>1, <2>3, <2>4, AwayOwn
<1> QED BY <1>2, <1>3 DEF Asked, Replied

LEMMA CrashOwn ==
    ASSUME OwnInv, CardInv', Crash
    PROVE  OwnInv'
<1>1. ASSUME NEW g \in Handlers
      PROVE  run'[g] = Idle /\ capture'[g] = NoCapture
  BY DEF Crash
<1>2. ASSUME NEW g \in Handlers
      PROVE  OfCapture(g)' = {} /\ OfBox(g)' = {}
  BY <1>1 DEF OfCapture, OfBox, Idle, InTurn
<1>3. ASSUME NEW g \in Handlers
      PROVE  Own(g)' /\ Owned(g)' = {}
  BY <1>1, <1>2 DEF Own, Owned, Idle, InTurn, NoCapture
<1> QED BY <1>3 DEF OwnInv

LEMMA OwnStays ==
    ASSUME OwnInv, [Next]_vars
    PROVE  OwnInv'
<1>1. CardInv' /\ StoreGrows
  BY CardsStay, InvStays DEF OwnInv, CardInv
<1>2. ASSUME NEW h \in Handlers, Step(h)
      PROVE  OwnInv'
  <2>1. CASE PlainCall(h) \/ Think(h) \/ CaptureAgain(h) \/ CaptureNew(h)
    BY <1>1, <2>1, PlainOwn, GoesOnOwn
  <2>2. CASE MergePerson(h) \/ MergeShown(h) \/ MergeRefused(h)
    BY <1>1, <2>2, MergePersonOwn, MergeEndOwn
  <2>3. CASE Captured(h) \/ CaptureRefused(h) \/ CaptureBroken(h) \/ Finish(h) \/ Break(h)
    BY <1>1, <2>3, CapturedOwn, FinishOwn
  <2>4. CASE \/ Stash(h) \/ AskField(h) \/ StoreOptions(h) \/ ClearTyping(h) \/ SendKeyboard(h)
             \/ SendRefused(h) \/ StoreFilled(h) \/ Finalize(h) \/ Finalized(h)
             \/ DispatchCapture(h) \/ DispatchRefused(h) \/ Dispatched(h) \/ DispatchEnd(h)
             \/ Answered(h)
    BY <1>1, <2>4, DialogueOwn
  <2>5. CASE CapturingStep(h)
    BY <1>1, <2>5, CapturingOwn
  <2> QED BY <1>2, <2>1, <2>2, <2>3, <2>4, <2>5 DEF Step, PlainCall
<1>3. ASSUME NEW h \in Handlers, NEW u \in Users, Asked(h, u)
      PROVE  OwnInv'
  BY <1>1, <1>3, AskedOwn
<1>4. CASE Crash
  BY <1>1, <1>4, CrashOwn
<1>5. CASE UNCHANGED vars
  <2>1. ASSUME NEW g \in Handlers
        PROVE  Own(g)' /\ Owned(g)' = Owned(g)
    <3>1. run'[g] = run[g] /\ capture'[g] = capture[g] /\ Untouched(Owned(g))
      BY <1>5 DEF vars, store, Untouched
    <3> QED BY <1>1, <3>1, RestOwn
  <2> QED BY <1>1, <2>1 DEF OwnInv
<1> QED BY <1>2, <1>3, <1>4, <1>5 DEF Next

THEOREM CardsOwnedHold == Spec => []OwnInv
<1>1. Init => OwnInv
  <2> SUFFICES ASSUME Init PROVE OwnInv
    OBVIOUS
  <2>1. CardInv
    <3>1. Inv
      BY StoreBegins, JobBegins DEF Inv
    <3> QED BY <3>1 DEF Init, CardInv, ShownAt, Idle, InTurn
  <2>2. ASSUME NEW g \in Handlers
        PROVE  run[g] = Idle /\ capture[g] = NoCapture
    BY DEF Init, StoreInit
  <2>3. ASSUME NEW g \in Handlers
        PROVE  Own(g) /\ Owned(g) = {}
    BY <2>2 DEF Own, Owned, OfCapture, OfBox, Idle, InTurn, NoCapture
  <2> QED BY <2>1, <2>3 DEF OwnInv
<1>2. OwnInv /\ [Next]_vars => OwnInv'
  BY OwnStays
<1> QED BY <1>1, <1>2, PTL DEF Spec

(* A card of an answer names the project of its task and exactly the people  *)
(* who have the task, those a repeated capture added included, unless the    *)
(* task was given to somebody else since or a merge for it was refused       *)
(* halfway (capture_task, _merge_repeat_capture).                            *)
THEOREM CardsAreTrue == Spec => []CardsTrue
<1>1. ASSUME OwnInv, NEW h \in Handlers, run[h].at = "answer", NEW k \in DOMAIN run[h].cards
      PROVE  /\ projects[tasks[run[h].cards[k].task].project].title = run[h].cards[k].project
             /\ ~tasks[run[h].cards[k].task].moved =>
                    /\ run[h].cards[k].people \subseteq tasks[run[h].cards[k].task].people
                    /\ k \notin run[h].box.refused =>
                           run[h].cards[k].people = tasks[run[h].cards[k].task].people
  <2>1. PICK box : box = run[h].box
    OBVIOUS
  <2>2. Shown(box) /\ run[h].cards = box.cards
    BY <1>1, <2>1 DEF OwnInv, CardInv, ShownAt
  <2>3. Lag(h) = {} /\ Fits(box, Lag(h)) /\ BoxExact(box)
    BY <1>1, <2>1 DEF OwnInv, Own, Lag
  <2>4. PICK t \in DOMAIN box.merged : FitsAt(box, {}, k, t)
    BY <1>1, <2>2, <2>3 DEF Fits
  <2>5. PICK card : card = box.cards[k]
    OBVIOUS
  <2>6. CardTrue(card)
    BY <1>1, <2>2, <2>5 DEF Shown
  <2>7. projects[tasks[card.task].project].title = card.project
    BY <2>6 DEF CardTrue
  <2>8. /\ card.task = box.merged[t].task /\ card.people \subseteq box.merged[t].people
        /\ k \notin box.refused => card.people = box.merged[t].people
    BY <2>4, <2>5 DEF FitsAt
  <2>9. ~tasks[card.task].moved => tasks[card.task].people = box.merged[t].people
    BY <2>3, <2>4, <2>8 DEF BoxExact, Exact
  <2>10. run[h].cards[k] = card /\ run[h].box.refused = box.refused
    BY <2>1, <2>2, <2>5
  <2>11. ~tasks[card.task].moved =>
             /\ card.people \subseteq tasks[card.task].people
             /\ k \notin box.refused => card.people = tasks[card.task].people
    BY <2>8, <2>9
  <2> QED BY <2>7, <2>10, <2>11
<1>2. OwnInv => CardsTrue
  BY <1>1 DEF CardsTrue, Replies
<1> QED BY <1>2, CardsOwnedHold, PTL

(* The answer of a turn shows every task it captured whole, and the buttons  *)
(* of what it proposed, however the turn ended; that it says nothing of what *)
(* other tools stored is the one thing left open (_handle_text,              *)
(* _partial_reply).                                                          *)
THEOREM AnswersHideNothing == Spec => []WrittenIsShown
<1>1. CardInv => WrittenIsShown
  <2> SUFFICES ASSUME CardInv, NEW h \in Handlers, run[h].at = "answer"
               PROVE  /\ run[h].box.wrote \ run[h].box.broken
                             \subseteq {c.task : c \in ToSet(run[h].cards)}
                      /\ run[h].box.last = "proposed" => run[h].proposed # None
    BY DEF WrittenIsShown, Replies, Unsaid
  <2>1. Shown(run[h].box) /\ run[h].cards = run[h].box.cards /\ run[h].proposed = run[h].box.proposed
    BY DEF CardInv, ShownAt
  <2> QED BY <2>1 DEF Shown, ToSet
<1> QED BY <1>1, CardsOfCapturesHold, PTL
-----------------------------------------------------------------------------
(* The keyboards.  What a button says is the option stored when its          *)
(* keyboard was made: with no other for the field under way or sent since,   *)
(* nobody stored other options, and only the end of a dialogue clears them.  *)

(* No keyboard but this one, for this field of this user, since its options  *)
(* were read: none sent, lost or on its way.                                 *)
Alone(kb) ==
    /\ ~kb.lost
    /\ \A k \in keyboards \ {kb} : k.user = kb.user /\ k.field = kb.field => k.n < kb.began
    /\ \A g \in Handlers : ~OnItsWay(g, kb.user, kb.field)

Stored(u, field, options) == fsm[u].options[field] \in {options, <<>>}

Keyboard(kb) ==
    /\ kb = [user |-> kb.user, field |-> kb.field, options |-> kb.options,
             began |-> kb.began, n |-> kb.n, shown |-> kb.shown,
             lost |-> kb.lost]
    /\ kb.user \in Users /\ kb.lost \in BOOLEAN
    /\ kb.began \in Nat /\ kb.n \in Nat
    /\ kb.began <= kb.n /\ kb.n < Cardinality(keyboards)
    /\ \A k \in keyboards : k.n = kb.n => k = kb
    /\ kb.field \in Fields /\ Alone(kb) => Stored(kb.user, kb.field, kb.options)

(* The same of a keyboard that is not sent yet.                              *)
AloneMade(h) ==
    /\ \A k \in keyboards :
           k.user = run[h].user /\ k.field = run[h].field => k.n < run[h].began
    /\ \A g \in Handlers \ {h} : ~OnItsWay(g, run[h].user, run[h].field)

Making(h) ==
    /\ run[h].at \in Showing =>
           run[h].began \in Nat /\ run[h].began <= Cardinality(keyboards)
    /\ run[h].at \in {"state", "send"} /\ run[h].field \in Fields /\ AloneMade(h) =>
           Stored(run[h].user, run[h].field, run[h].options)

Taking(h) ==
    run[h].at = "fill" /\ run[h].tap # None =>
        /\ run[h].tap.pressed \in keyboards
        /\ Alone(run[h].tap.pressed) /\ run[h].tap.pressed.user = run[h].user =>
               run[h].tap.took = run[h].tap.meant

KeyInv ==
    /\ Inv
    /\ IsFiniteSet(keyboards) /\ \A kb \in keyboards : Keyboard(kb)
    /\ \A h \in Handlers : Making(h) /\ Taking(h)

(* A step that sends no keyboard, and that stores options only while its     *)
(* own keyboard is on its way, leaves the others as they are.               *)
LEMMA KeysFrame ==
    ASSUME KeyInv, Inv', NEW h \in Handlers, keyboards' = keyboards,
           \A g \in Handlers \ {h} : run'[g] = run[g],
           \/ run[h].at \notin Showing
           \/ /\ run[h].at \in Showing /\ run'[h].at \in Showing
              /\ run'[h].user = run[h].user /\ run'[h].field = run[h].field,
           \A u \in Users : \A f \in Fields :
               \/ fsm'[u].options[f] \in {fsm[u].options[f], <<>>}
               \/ OnItsWay(h, u, f)',
           Making(h)', Taking(h)'
    PROVE  KeyInv'
<1>1. ASSUME NEW g \in Handlers, NEW u, NEW f, OnItsWay(g, u, f)
      PROVE  OnItsWay(g, u, f)'
  <2>1. CASE g # h
    BY <1>1, <2>1 DEF OnItsWay
  <2>2. CASE g = h
    BY <1>1, <2>2 DEF OnItsWay, Showing
  <2> QED BY <2>1, <2>2
<1>2. ASSUME NEW kb, Alone(kb)' PROVE Alone(kb)
  BY <1>1, <1>2 DEF Alone
<1>3. ASSUME NEW u \in Users, NEW f \in Fields, NEW options, ~OnItsWay(h, u, f)',
             Stored(u, f, options)
      PROVE  Stored(u, f, options)'
  BY <1>3 DEF Stored
<1>4. ASSUME NEW kb \in keyboards PROVE Keyboard(kb)'
  <2>1. Keyboard(kb)
    BY DEF KeyInv
  <2>2. ASSUME kb.field \in Fields, Alone(kb)'
        PROVE  Stored(kb.user, kb.field, kb.options)'
    <3>1. ~OnItsWay(h, kb.user, kb.field)'
      BY <2>2 DEF Alone
    <3>2. kb.user \in Users /\ Stored(kb.user, kb.field, kb.options)
      BY <1>2, <2>1, <2>2 DEF Keyboard
    <3> QED BY <1>3, <2>2, <3>1, <3>2
  <2> QED BY <2>1, <2>2 DEF Keyboard
<1>5. ASSUME NEW g \in Handlers \ {h} PROVE Making(g)' /\ Taking(g)'
  <2>1. run'[g] = run[g] /\ Making(g) /\ Taking(g)
    BY DEF KeyInv
  <2>2. Taking(g)'
    <3>1. PICK kb : kb = run[g].tap.pressed
      OBVIOUS
    <3> QED BY <1>2, <2>1, <3>1 DEF Taking
  <2>3. PICK u : u = run[g].user
    OBVIOUS
  <2>4. PICK f : f = run[g].field
    OBVIOUS
  <2>5. PICK options : options = run[g].options
    OBVIOUS
  <2>6. ASSUME AloneMade(g)' PROVE AloneMade(g) /\ ~OnItsWay(h, u, f)'
    BY <1>1, <2>1, <2>3, <2>4, <2>6 DEF AloneMade
  <2>7. run[g].at \in Showing => u \in Users
    BY <2>3 DEF KeyInv, Inv, JobInv, Job
  <2>8. ASSUME run[g].at \in {"state", "send"}, f \in Fields, AloneMade(g)'
        PROVE  Stored(u, f, options)'
    <3>1. Stored(u, f, options)
      BY <2>1, <2>3, <2>4, <2>5, <2>6, <2>8 DEF Making
    <3> QED BY <1>3, <2>6, <2>7, <2>8, <3>1 DEF Showing
  <2>9. Making(g)'
    BY <2>1, <2>3, <2>4, <2>5, <2>8 DEF Making
  <2> QED BY <2>2, <2>9
<1> QED BY <1>4, <1>5 DEF KeyInv

(* A step of something else.                                                *)
LEMMA Quiet ==
    ASSUME KeyInv, Inv', NEW h \in Handlers, keyboards' = keyboards,
           \A g \in Handlers \ {h} : run'[g] = run[g],
           run[h].at \notin Showing, run'[h].at \notin Showing \cup {"fill"},
           \A u \in Users : fsm'[u].options \in {fsm[u].options, NoData.options}
    PROVE  KeyInv'
<1>1. Making(h)' /\ Taking(h)'
  BY DEF Making, Taking, Showing
<1>2. \A u \in Users : \A f \in Fields : fsm'[u].options[f] \in {fsm[u].options[f], <<>>}
  BY DEF NoData
<1> QED BY <1>1, <1>2, KeysFrame

(* A turn shows no keyboard.                                                *)
LEMMA ResultQuiet ==
    ASSUME KeyInv, Inv', NEW h \in Handlers, run[h].at \in InTurn, NEW box, Result(h, box),
           UNCHANGED <<fsm, keyboards>>
    PROVE  KeyInv'
<1>1. run[h] \in Turns /\ h \in DOMAIN run
  BY Turning DEF KeyInv, Inv
<1>2. PICK at : at = IF Len(run[h].calls) = 1 THEN "model" ELSE "tool"
  OBVIOUS
<1>3. PICK r : r = [run[h] EXCEPT !.at = at, !.calls = Tail(run[h].calls), !.box = box]
  OBVIOUS
<1>4. run' = [run EXCEPT ![h] = r]
  BY <1>1, <1>2, <1>3 DEF Result
<1>5. r.at \in {"model", "tool"}
  BY <1>1, <1>2, <1>3 DEF Turns
<1>6. run'[h].at \in {"model", "tool"} /\ \A g \in Handlers \ {h} : run'[g] = run[g]
  BY <1>1, <1>4, <1>5
<1>7. run[h].at \notin Showing /\ run'[h].at \notin Showing \cup {"fill"}
  BY <1>6 DEF InTurn, Showing
<1> QED BY <1>6, <1>7, Quiet

LEMMA TurnQuiet ==
    ASSUME KeyInv, Inv', NEW h \in Handlers,
           \/ PlainCall(h) \/ Think(h) \/ CaptureAgain(h) \/ CaptureNew(h)
           \/ MergePerson(h) \/ MergeShown(h) \/ MergeRefused(h)
           \/ Captured(h) \/ CaptureRefused(h) \/ CaptureBroken(h) \/ Finish(h) \/ Break(h)
    PROVE  KeyInv'
<1>1. UNCHANGED <<fsm, keyboards>> /\ run[h].at \in InTurn
  BY DEF PlainCall, CallWithoutEffect, CapturePending, PlanProject, AssignTask, MarkTaskDone,
         SetVacation,
         Think, CaptureAgain, CaptureNew, MergePerson, MergeShown, MergeRefused, Captured,
         CaptureRefused, CaptureBroken, Finish, Break, Call, InTurn
<1>2. run[h] \in Turns /\ h \in DOMAIN run /\ run[h].at \notin Showing /\ DOMAIN run = Handlers
  BY <1>1, Turning DEF KeyInv, Inv, JobInv, InTurn, Showing
<1>3. ASSUME NEW r, run' = [run EXCEPT ![h] = r], r.at \in InTurn
      PROVE  KeyInv'
  <2>1. run'[h].at \notin Showing \cup {"fill"}
    BY <1>2, <1>3 DEF InTurn, Showing
  <2> QED BY <1>1, <1>2, <1>3, <2>1, Quiet
<1>4. CASE PlainCall(h)
  <2>1. PICK box : Result(h, box)
    BY <1>4, PlainCalls DEF KeyInv, Inv
  <2> QED BY <1>1, <2>1, ResultQuiet
<1>5. CASE MergeShown(h) \/ MergeRefused(h) \/ Captured(h) \/ CaptureRefused(h)
  <2>1. PICK box : Result(h, box)
    BY <1>5 DEF MergeShown, MergeRefused, Captured, CaptureRefused
  <2> QED BY <1>1, <2>1, ResultQuiet
<1>6. CASE CaptureBroken(h)
  <2>1. PICK box : Result(h, box)
    BY <1>6 DEF CaptureBroken
  <2> QED BY <1>1, <2>1, ResultQuiet
<1>7. CASE Think(h)
  <2>1. PICK calls \in Answers(CaptureCalls \cup Calls) :
            run' = [run EXCEPT ![h].at = "tool", ![h].calls = calls, ![h].rounds = @ + 1]
    BY <1>7 DEF Think
  <2>2. PICK r : r = [run[h] EXCEPT !.at = "tool", !.calls = calls, !.rounds = @ + 1]
    OBVIOUS
  <2>3. run' = [run EXCEPT ![h] = r] /\ r.at \in InTurn
    BY <1>2, <2>1, <2>2 DEF Turns, InTurn
  <2> QED BY <1>3, <2>3
<1>8. CASE CaptureAgain(h)
  <2>1. PICK r : r = [run[h] EXCEPT !.at = "merge", !.todo = Wanted(h).people]
    OBVIOUS
  <2>2. run' = [run EXCEPT ![h] = r] /\ r.at \in InTurn
    BY <1>2, <1>8, <2>1 DEF CaptureAgain, Turns, InTurn
  <2> QED BY <1>3, <2>2
<1>9. CASE CaptureNew(h)
  <2>1. PICK r : r = [run[h] EXCEPT !.at = "capturing"]
    OBVIOUS
  <2>2. run' = [run EXCEPT ![h] = r] /\ r.at \in InTurn
    BY <1>2, <1>9, <2>1 DEF CaptureNew, To, Turns, InTurn
  <2> QED BY <1>3, <2>2
<1>10. CASE MergePerson(h)
  <2>1. PICK r \in Turns : run' = [run EXCEPT ![h] = r]
    BY <1>10, MergePersonBox DEF KeyInv, Inv
  <2> QED BY <1>3, <2>1 DEF Turns
<1>11. CASE Finish(h) \/ Break(h)
  <2>1. \A g \in Handlers \ {h} : run'[g] = run[g]
    BY <1>11, FinishJob DEF KeyInv, Inv
  <2>2. run'[h].at \in {"stash", "answer"}
    BY <1>11, FinishJob DEF KeyInv, Inv
  <2>3. run'[h].at \notin Showing \cup {"fill"}
    BY <2>2 DEF Showing
  <2> QED BY <1>1, <1>2, <2>1, <2>3, Quiet
<1> QED BY <1>4, <1>5, <1>6, <1>7, <1>8, <1>9, <1>10, <1>11

(* Nor do the intents of a message, nor the end of a dialogue.              *)
LEMMA OtherQuiet ==
    ASSUME KeyInv, Inv', NEW h \in Handlers,
           \/ DispatchCapture(h) \/ DispatchRefused(h) \/ Dispatched(h) \/ DispatchEnd(h)
           \/ Answered(h) \/ Finalized(h) \/ Stash(h) \/ StoreFilled(h) \/ Finalize(h)
    PROVE  KeyInv'
<1>1. keyboards' = keyboards /\ DOMAIN run = Handlers
  BY DEF DispatchCapture, DispatchRefused, Dispatched, DispatchEnd, Answered, Finalized, Stash,
         StoreFilled, Finalize, KeyInv, Inv, JobInv
<1>2. ASSUME NEW r, run' = [run EXCEPT ![h] = r], run[h].at \notin Showing,
             r.at \notin Showing \cup {"fill"},
             \A u \in Users : fsm'[u].options \in {fsm[u].options, NoData.options}
      PROVE  KeyInv'
  BY <1>1, <1>2, Quiet
<1>3. Idle.at \notin Showing \cup {"fill"}
  BY DEF Idle, Showing
<1>4. CASE Dispatched(h) \/ DispatchEnd(h) \/ Answered(h) \/ Finalized(h)
            \/ DispatchCapture(h) \/ DispatchRefused(h)
  <2>1. fsm' = fsm /\ run[h].at \notin Showing
        /\ run[h].at \in {"dispatched", "dispatch", "answer", "finalizing"}
    BY <1>4 DEF Dispatched, DispatchEnd, Answered, Finalized, DispatchCapture,
                DispatchRefused, Showing
  <2>2. "at" \in DOMAIN run[h]
    BY <2>1 DEF KeyInv, Inv, JobInv, Job, InDialogue, Dispatches, Replying, Dialogues
  <2>3. CASE run' = [run EXCEPT ![h] = Idle]
    BY <1>2, <1>3, <2>1, <2>3
  <2>4. ASSUME NEW r, run' = [run EXCEPT ![h] = r], r.at \in {"dispatch", "dispatched"}
        PROVE  KeyInv'
    BY <1>2, <2>1, <2>4 DEF Showing
  <2>5. CASE run' = [run EXCEPT ![h].at = "dispatched"]
    <3>1. PICK r : r = [run[h] EXCEPT !.at = "dispatched"]
      OBVIOUS
    <3> QED BY <2>2, <2>4, <2>5, <3>1
  <2>6. CASE run' = [run EXCEPT ![h].calls = Tail(@)] /\ run[h].at = "dispatch"
    <3>1. PICK r : r = [run[h] EXCEPT !.calls = Tail(@)]
      OBVIOUS
    <3> QED BY <2>2, <2>4, <2>6, <3>1
  <2>7. CASE run' = [run EXCEPT ![h].at = "dispatch", ![h].calls = Tail(@)]
    <3>1. PICK r : r = [run[h] EXCEPT !.at = "dispatch", !.calls = Tail(run[h].calls)]
      OBVIOUS
    <3>2. run' = [run EXCEPT ![h] = r]
      BY <2>7, <3>1
    <3>3. r.at = "dispatch"
      BY <2>2, <3>1
    <3> QED BY <2>4, <3>2, <3>3
  <2> QED BY <1>4, <2>3, <2>5, <2>6, <2>7
          DEF Dispatched, DispatchEnd, Answered, Finalized, DispatchCapture, DispatchRefused, To
<1>5. ASSUME NEW u \in Users, NEW w, fsm' = [fsm EXCEPT ![u].capture = w]
      PROVE  \A v \in Users : fsm'[v].options \in {fsm[v].options, NoData.options}
  <2>1. PICK d : d = [fsm[u] EXCEPT !.capture = w]
    OBVIOUS
  <2>2. fsm' = [fsm EXCEPT ![u] = d] /\ d.options = fsm[u].options
    BY <1>5, <2>1 DEF KeyInv, Inv, JobInv, Dialogue
  <2> QED BY <2>2 DEF KeyInv, Inv, JobInv, Dialogue
<1>6. CASE Stash(h)
  <2>1. run[h].user \in Users /\ run[h].at = "stash"
    <3>1. run[h].at = "stash" /\ run[h].at \in InTurn
      BY <1>6 DEF Stash, InTurn
    <3> QED BY <3>1, Turning DEF KeyInv, Inv
  <2>2. PICK r : r = [at |-> "ask", user |-> run[h].user, args |-> Box(h).pending]
    OBVIOUS
  <2>3. r.at \notin Showing \cup {"fill"} /\ run[h].at \notin Showing
    BY <2>1, <2>2 DEF Showing
  <2> QED BY <1>2, <1>5, <1>6, <2>1, <2>2, <2>3 DEF Stash
<1>7. CASE StoreFilled(h)
  <2>1. run[h].user \in Users /\ run[h].at = "fill"
    BY <1>7 DEF StoreFilled, KeyInv, Inv, JobInv, Job
  <2>2. PICK r : r = [at |-> IF Missing(run[h].args) = {} THEN "finalize" ELSE "ask",
                      user |-> run[h].user, args |-> run[h].args]
    OBVIOUS
  <2>3. r.at \notin Showing \cup {"fill"} /\ run[h].at \notin Showing
    BY <2>1, <2>2 DEF Showing
  <2>4. run' = [run EXCEPT ![h] = r]
    BY <1>7, <2>2 DEF StoreFilled
  <2> QED BY <1>2, <1>5, <1>7, <2>1, <2>3, <2>4 DEF StoreFilled
<1>8. CASE Finalize(h)
  <2>1. run[h].at = "finalize" /\ run[h] \in Dialogues /\ run[h].user \in Users
    BY <1>8 DEF Finalize, KeyInv, Inv, JobInv, Job, InDialogue, Dialogues
  <2>2. \A v \in Users : fsm'[v].options \in {fsm[v].options, NoData.options}
    BY <1>8, <2>1 DEF Finalize, KeyInv, Inv, JobInv, Dialogue
  <2>3. run[h].at \notin Showing
    BY <2>1 DEF Showing
  <2>4. CASE run' = [run EXCEPT ![h] = Idle]
    BY <1>2, <1>3, <2>2, <2>3, <2>4
  <2>5. CASE To(h, "finalizing")
    <3>1. PICK r : r = [run[h] EXCEPT !.at = "finalizing"]
      OBVIOUS
    <3>2. run' = [run EXCEPT ![h] = r] /\ r.at \notin Showing \cup {"fill"}
      BY <2>1, <2>5, <3>1 DEF To, Dialogues, Showing
    <3> QED BY <1>2, <2>2, <2>3, <3>2
  <2> QED BY <1>8, <2>4, <2>5 DEF Finalize
<1> QED BY <1>4, <1>6, <1>7, <1>8

(* A handler on the way to its keyboard goes on with the same keyboard.      *)
LEMMA GoingOn ==
    ASSUME Inv, NEW h \in Handlers, run[h].at \in Showing, NEW at, To(h, at)
    PROVE  /\ run'[h].at = at /\ run'[h].user = run[h].user /\ run'[h].field = run[h].field
           /\ run'[h].options = run[h].options /\ run'[h].began = run[h].began
           /\ \A g \in Handlers \ {h} : run'[g] = run[g]
           /\ run[h].user \in Users
<1>1. "at" \in DOMAIN run[h] /\ DOMAIN run = Handlers /\ run[h].user \in Users
  BY DEF Inv, JobInv, Job
<1>2. PICK r : r = [run[h] EXCEPT !.at = at]
  OBVIOUS
<1>3. run' = [run EXCEPT ![h] = r] /\ r.at = at /\ r.user = run[h].user /\ r.field = run[h].field
      /\ r.options = run[h].options /\ r.began = run[h].began
  BY <1>1, <1>2 DEF To
<1> QED BY <1>1, <1>3

LEMMA AskKeys ==
    ASSUME KeyInv, Inv', NEW h \in Handlers, AskField(h)
    PROVE  KeyInv'
<1>1. UNCHANGED <<fsm, keyboards>> /\ run[h].at = "ask" /\ DOMAIN run = Handlers
      /\ Cardinality(keyboards) \in Nat
  BY FS_CardinalityType DEF AskField, KeyInv, Inv, JobInv
<1>2. /\ \A g \in Handlers \ {h} : run'[g] = run[g]
      /\ run'[h].at = IF run'[h].field = "deadline" THEN "state" ELSE "options"
      /\ run'[h].began = Cardinality(keyboards)
  BY <1>1 DEF AskField
<1>3. Making(h)' /\ Taking(h)'
  BY <1>1, <1>2 DEF Making, Taking, Fields
<1>4. run[h].at \notin Showing
  BY <1>1 DEF Showing
<1> QED BY <1>1, <1>2, <1>3, <1>4, KeysFrame

LEMMA StoreKeys ==
    ASSUME KeyInv, Inv', NEW h \in Handlers, StoreOptions(h)
    PROVE  KeyInv'
<1>1. run[h].at = "options" /\ run[h].at \in Showing /\ keyboards' = keyboards /\ To(h, "state")
      /\ Making(h) /\ DOMAIN fsm = Users
  BY DEF StoreOptions, Showing, KeyInv, Inv, JobInv, Dialogue
<1>2. PICK u : u = run[h].user
  OBVIOUS
<1>3. PICK field : field = run[h].field
  OBVIOUS
<1>4. PICK options : options = run[h].options
  OBVIOUS
<1>5. /\ run'[h].at = "state" /\ run'[h].user = u /\ run'[h].field = field
      /\ run'[h].options = options /\ run'[h].began = run[h].began /\ u \in Users
      /\ \A g \in Handlers \ {h} : run'[g] = run[g]
  BY <1>1, <1>2, <1>3, <1>4, GoingOn DEF KeyInv
<1>6. PICK o : o = [f \in Fields |-> IF f = field THEN options ELSE fsm[u].options[f]]
  OBVIOUS
<1>7. PICK d : d = [fsm[u] EXCEPT !.options = o]
  OBVIOUS
<1>8. fsm' = [fsm EXCEPT ![u] = d] /\ d.options = o
  BY <1>2, <1>3, <1>4, <1>5, <1>6, <1>7 DEF StoreOptions, KeyInv, Inv, JobInv, Dialogue
<1>9. ASSUME NEW v \in Users, NEW f \in Fields
      PROVE  fsm'[v].options[f] = fsm[v].options[f] \/ OnItsWay(h, v, f)'
  BY <1>1, <1>5, <1>6, <1>8 DEF OnItsWay
<1>10. Making(h)'
  <2>1. field \in Fields => Stored(u, field, options)'
    BY <1>1, <1>5, <1>6, <1>8 DEF Stored
  <2> QED BY <1>1, <1>5, <2>1 DEF Making
<1>11. Taking(h)'
  BY <1>5 DEF Taking
<1>12. run'[h].at \in Showing /\ run'[h].user = run[h].user /\ run'[h].field = run[h].field
  BY <1>2, <1>3, <1>5 DEF Showing
<1> QED BY <1>1, <1>5, <1>9, <1>10, <1>11, <1>12, KeysFrame

LEMMA ClearKeys ==
    ASSUME KeyInv, Inv', NEW h \in Handlers, ClearTyping(h)
    PROVE  KeyInv'
<1>1. run[h].at = "state" /\ run[h].at \in Showing /\ keyboards' = keyboards /\ To(h, "send")
      /\ Making(h) /\ DOMAIN fsm = Users /\ \A v \in Users : "options" \in DOMAIN fsm[v]
  BY DEF ClearTyping, Showing, KeyInv, Inv, JobInv, Dialogue
<1>2. PICK u : u = run[h].user
  OBVIOUS
<1>3. PICK field : field = run[h].field
  OBVIOUS
<1>4. PICK options : options = run[h].options
  OBVIOUS
<1>5. /\ run'[h].at = "send" /\ run'[h].user = u /\ run'[h].field = field
      /\ run'[h].options = options /\ run'[h].began = run[h].began /\ u \in Users
      /\ \A g \in Handlers \ {h} : run'[g] = run[g]
  BY <1>1, <1>2, <1>3, <1>4, GoingOn DEF KeyInv
<1>6. PICK d : d = [fsm[u] EXCEPT !.typing = None]
  OBVIOUS
<1>7. fsm' = [fsm EXCEPT ![u] = d] /\ d.options = fsm[u].options
  BY <1>1, <1>2, <1>5, <1>6 DEF ClearTyping
<1>8. \A v \in Users : fsm'[v].options = fsm[v].options
  BY <1>1, <1>7
<1>9. Making(h)'
  <2>1. AloneMade(h)' => AloneMade(h)
    BY <1>1, <1>2, <1>3, <1>5 DEF AloneMade, OnItsWay
  <2>2. Stored(u, field, options) => Stored(u, field, options)'
    BY <1>5, <1>8 DEF Stored
  <2> QED BY <1>1, <1>2, <1>3, <1>4, <1>5, <2>1, <2>2 DEF Making
<1>10. Taking(h)'
  BY <1>5 DEF Taking
<1>11. run'[h].at \in Showing /\ run'[h].user = run[h].user /\ run'[h].field = run[h].field
  BY <1>2, <1>3, <1>5 DEF Showing
<1> QED BY <1>1, <1>5, <1>8, <1>9, <1>10, <1>11, KeysFrame

(* A press: the options of the user are those of the keyboard pressed, or    *)
(* are cleared, and then there is no button of it.                           *)
LEMMA TapKeys ==
    ASSUME KeyInv, Inv', NEW h \in Handlers, NEW u \in Users, Replied(h, u)
    PROVE  KeyInv'
<1>0. run[h] = Idle /\ keyboards' = keyboards
  BY DEF Replied, TapOption, TapDeadline, TapType, PressEdit, TypeProject, TypeDeadline, Begins
<1>1. /\ run[h] = Idle /\ run[h].at \notin Showing /\ keyboards' = keyboards
      /\ DOMAIN run = Handlers /\ DOMAIN fsm = Users /\ \A v \in Users : "options" \in DOMAIN fsm[v]
  BY <1>0 DEF Idle, Showing, KeyInv, Inv, JobInv, Dialogue
<1>2. ASSUME NEW args, NEW tap, Fill(h, u, args, tap), fsm' = fsm,
             tap # None => tap.pressed \in keyboards
                           /\ (Alone(tap.pressed) /\ tap.pressed.user = u => tap.took = tap.meant)
      PROVE  KeyInv'
  <2>1. PICK kb : kb = tap.pressed
    OBVIOUS
  <2>2. /\ \A g \in Handlers \ {h} : run'[g] = run[g]
        /\ run'[h].at = "fill" /\ run'[h].user = u /\ run'[h].tap = tap
    BY <1>1, <1>2 DEF Fill
  <2>3. Alone(kb)' => Alone(kb)
    BY <1>1, <2>2 DEF Alone, OnItsWay, Idle
  <2>4. Taking(h)'
    BY <1>1, <1>2, <2>1, <2>2, <2>3 DEF Taking
  <2>5. Making(h)'
    BY <2>2 DEF Making, Showing
  <2> QED BY <1>1, <1>2, <2>2, <2>4, <2>5, KeysFrame
<1>3. ASSUME NEW kb \in OnDisplay, NEW i \in DOMAIN kb.options, TapOption(h, u, kb, i)
      PROVE  KeyInv'
  <2>1. PICK label : label = fsm[u].options[kb.field][i]
    OBVIOUS
  <2>2. PICK tap : tap = [pressed |-> kb, meant |-> kb.options[i], took |-> label]
    OBVIOUS
  <2>3. PICK args : Fill(h, u, args, tap)
    BY <1>3, <2>1, <2>2 DEF TapOption
  <2>4. fsm' = fsm /\ kb.field \in Fields /\ i \in DOMAIN fsm[u].options[kb.field]
    BY <1>3 DEF TapOption
  <2>6. kb \in keyboards
    BY DEF OnDisplay
  <2>5. ASSUME Alone(kb), kb.user = u PROVE label = kb.options[i]
    <3>1. fsm[u].options[kb.field] \in {kb.options, <<>>}
      BY <2>4, <2>5, <2>6 DEF KeyInv, Keyboard, Stored
    <3>2. DOMAIN << >> = {}
      OBVIOUS
    <3>3. fsm[u].options[kb.field] = kb.options
      BY <2>4, <3>1, <3>2
    <3> QED BY <2>1, <3>3
  <2> QED BY <1>2, <2>2, <2>3, <2>4, <2>5, <2>6
<1>4. ASSUME NEW args, Fill(h, u, args, None), fsm' = fsm
      PROVE  KeyInv'
  BY <1>2, <1>4
<1>5. ASSUME NEW field, TapType(h, u, field)
      PROVE  KeyInv'
  <2>1. PICK d : d = [fsm[u] EXCEPT !.typing = field]
    OBVIOUS
  <2>2. fsm' = [fsm EXCEPT ![u] = d] /\ d.options = fsm[u].options /\ run' = run
    BY <1>1, <1>5, <2>1 DEF TapType
  <2>3. \A v \in Users : fsm'[v].options = fsm[v].options
    BY <1>1, <2>2
  <2>4. run'[h].at \notin Showing \cup {"fill"}
    BY <1>1, <2>2 DEF Idle, Showing
  <2> QED BY <1>1, <2>2, <2>3, <2>4, Quiet
<1>9. ASSUME PressEdit(h, u)
      PROVE  KeyInv'
  <2>1. PICK d : d = [fsm[u] EXCEPT !.typing = "edit"]
    OBVIOUS
  <2>2. fsm' = [fsm EXCEPT ![u] = d] /\ d.options = fsm[u].options /\ run' = run
    BY <1>1, <1>9, <2>1 DEF PressEdit
  <2>3. \A v \in Users : fsm'[v].options = fsm[v].options
    BY <1>1, <2>2
  <2>4. run'[h].at \notin Showing \cup {"fill"}
    BY <1>1, <2>2 DEF Idle, Showing
  <2> QED BY <1>1, <2>2, <2>3, <2>4, Quiet
<1>6. ASSUME NEW kb, TapDeadline(h, u, kb) PROVE KeyInv'
  BY <1>4, <1>6 DEF TapDeadline
<1>7. ASSUME NEW title, TypeProject(h, u, title) PROVE KeyInv'
  BY <1>4, <1>7 DEF TypeProject
<1>8. ASSUME TypeDeadline(h, u) PROVE KeyInv'
  BY <1>4, <1>8 DEF TypeDeadline
<1> QED BY <1>3, <1>5, <1>6, <1>7, <1>8, <1>9 DEF Replied

(* A keyboard that arrives is the newest, and no other for the field is      *)
(* alone any more.                                                          *)
LEMMA SendKeys ==
    ASSUME KeyInv, Inv', NEW h \in Handlers, SendKeyboard(h) \/ SendRefused(h)
    PROVE  KeyInv'
<1>1. PICK u : u = run[h].user
  OBVIOUS
<1>2. PICK field : field = run[h].field
  OBVIOUS
<1>3. PICK size : size = Cardinality(keyboards)
  OBVIOUS
<1>0. PICK shown : Sent(h, shown)
  BY DEF SendKeyboard, SendRefused
<1>4. PICK new : new = [user |-> u, field |-> field, options |-> run[h].options,
                        began |-> run[h].began, n |-> size, shown |-> shown, lost |-> FALSE]
  OBVIOUS
<1>5. /\ run[h].at = "send" /\ run[h].at \in Showing /\ fsm' = fsm
      /\ keyboards' = keyboards \cup {new}
      /\ run'[h] = Idle /\ \A g \in Handlers \ {h} : run'[g] = run[g]
  BY <1>0, <1>1, <1>2, <1>3, <1>4 DEF SendKeyboard, SendRefused, Sent, Showing, KeyInv, Inv, JobInv
<1>6. /\ u \in Users /\ size \in Nat /\ new.began \in Nat /\ new.began <= size
      /\ \A k \in keyboards : Keyboard(k)
      /\ \A k \in keyboards : k.n \in Nat /\ k.began <= k.n /\ k.n < size /\ k.began \in Nat
  BY <1>1, <1>3, <1>4, <1>5, FS_CardinalityType
     DEF KeyInv, Inv, JobInv, Job, Making, Keyboard
<1>7. new \notin keyboards
  BY <1>4, <1>6
<1>8. IsFiniteSet(keyboards') /\ Cardinality(keyboards') = size + 1
  BY <1>3, <1>5, <1>7, FS_AddElement DEF KeyInv
<1>9. ASSUME NEW g \in Handlers, NEW v, NEW f
      PROVE  OnItsWay(g, v, f)' <=> g # h /\ OnItsWay(g, v, f)
  BY <1>5 DEF OnItsWay, Idle
<1>10. OnItsWay(h, u, field) /\ (\A v, f : v # u \/ f # field => ~OnItsWay(h, v, f))
  BY <1>1, <1>2, <1>5 DEF OnItsWay
<1>11. ASSUME NEW kb \in keyboards, Alone(kb)' PROVE Alone(kb)
  <2>1. ~kb.lost
    BY <1>11 DEF Alone
  <2>2. \A k \in keyboards \ {kb} : k.user = kb.user /\ k.field = kb.field => k.n < kb.began
    BY <1>5, <1>11 DEF Alone
  <2>3. kb.user # u \/ kb.field # field
    <3> SUFFICES ASSUME kb.user = u, kb.field = field PROVE FALSE
      OBVIOUS
    <3>1. new \in keyboards' \ {kb} /\ new.user = kb.user /\ new.field = kb.field
      BY <1>4, <1>5, <1>7
    <3>2. new.n < kb.began
      BY <1>11, <3>1 DEF Alone
    <3> QED BY <1>4, <1>6, <3>2
  <2>4. \A g \in Handlers : ~OnItsWay(g, kb.user, kb.field)
    <3> SUFFICES ASSUME NEW g \in Handlers PROVE ~OnItsWay(g, kb.user, kb.field)
      OBVIOUS
    <3>1. ~OnItsWay(g, kb.user, kb.field)'
      BY <1>11 DEF Alone
    <3>2. CASE g = h
      BY <1>10, <2>3, <3>2
    <3>3. CASE g # h
      BY <1>9, <3>1, <3>3
    <3> QED BY <3>2, <3>3
  <2> QED BY <2>1, <2>2, <2>4 DEF Alone
<1>12. ASSUME NEW kb \in keyboards PROVE Keyboard(kb)'
  <2>1. Keyboard(kb)
    BY <1>6
  <2>2. \A k \in keyboards' : k.n = kb.n => k = kb
    <3>1. kb.n < size /\ new.n = size /\ kb.n \in Nat
      BY <1>4, <1>6
    <3>2. new.n # kb.n
      BY <1>6, <3>1
    <3> QED BY <1>5, <2>1, <3>2 DEF Keyboard
  <2>3. kb.n < Cardinality(keyboards)'
    BY <1>6, <1>8
  <2>4. kb.field \in Fields /\ Alone(kb)' => Stored(kb.user, kb.field, kb.options)'
    BY <1>5, <1>11, <2>1 DEF Keyboard, Stored
  <2> QED BY <2>1, <2>2, <2>3, <2>4 DEF Keyboard
<1>13. Keyboard(new)'
  <2>1. \A k \in keyboards' : k.n = new.n => k = new
    BY <1>4, <1>5, <1>6
  <2>2. ASSUME field \in Fields, Alone(new)'
        PROVE  Stored(u, field, new.options)'
    <3>1. \A k \in keyboards : k.user = u /\ k.field = field => k.n < new.began
      BY <1>4, <1>5, <1>7, <2>2 DEF Alone
    <3>2. \A g \in Handlers \ {h} : ~OnItsWay(g, u, field)
      <4> SUFFICES ASSUME NEW g \in Handlers \ {h} PROVE ~OnItsWay(g, u, field)
        OBVIOUS
      <4>1. ~OnItsWay(g, u, field)'
        BY <1>4, <2>2 DEF Alone
      <4> QED BY <1>9, <4>1
    <3>3. AloneMade(h)
      BY <1>1, <1>2, <1>4, <3>1, <3>2 DEF AloneMade
    <3>4. Stored(u, field, new.options)
      BY <1>1, <1>2, <1>4, <1>5, <2>2, <3>3 DEF KeyInv, Making
    <3> QED BY <1>5, <3>4 DEF Stored
  <2> QED BY <1>4, <1>6, <1>8, <2>1, <2>2 DEF Keyboard
<1>14. ASSUME NEW g \in Handlers PROVE Making(g)' /\ Taking(g)'
  <2>1. CASE g = h
    BY <1>5, <2>1 DEF Making, Taking, Idle, Showing
  <2>2. CASE g # h
    <3>1. run'[g] = run[g] /\ Making(g) /\ Taking(g)
      BY <1>5, <2>2 DEF KeyInv
    <3>2. PICK kb : kb = run[g].tap.pressed
      OBVIOUS
    <3>3. Taking(g)'
      BY <1>5, <1>11, <3>1, <3>2 DEF Taking
    <3>4. PICK r : r = run[g]
      OBVIOUS
    <3>5. ASSUME r.at \in Showing, AloneMade(g)' PROVE AloneMade(g)
      <4>1. r.user # u \/ r.field # field
        <5> SUFFICES ASSUME r.user = u, r.field = field PROVE FALSE
          OBVIOUS
        <5>1. new.n < r.began
          BY <1>4, <1>5, <3>1, <3>4, <3>5 DEF AloneMade
        <5> QED BY <1>3, <1>4, <1>6, <3>1, <3>4, <3>5, <5>1 DEF Making
      <4>2. \A k \in keyboards : k.user = r.user /\ k.field = r.field => k.n < r.began
        BY <1>5, <3>1, <3>4, <3>5 DEF AloneMade
      <4>3. ASSUME NEW e \in Handlers \ {g} PROVE ~OnItsWay(e, r.user, r.field)
        <5>1. ~OnItsWay(e, r.user, r.field)'
          BY <3>1, <3>4, <3>5 DEF AloneMade
        <5> QED BY <1>9, <1>10, <4>1, <5>1
      <4> QED BY <3>4, <4>2, <4>3 DEF AloneMade
    <3>6. r.at \in Showing => r.began \in Nat /\ r.began <= Cardinality(keyboards)'
      BY <1>3, <1>6, <1>8, <3>1, <3>4 DEF Making
    <3>7. ASSUME r.at \in {"state", "send"}, r.field \in Fields, AloneMade(g)'
          PROVE  Stored(r.user, r.field, r.options)'
      <4>1. AloneMade(g)
        BY <3>5, <3>7 DEF Showing
      <4>2. Stored(r.user, r.field, r.options)
        BY <3>1, <3>4, <3>7, <4>1 DEF Making
      <4> QED BY <1>5, <4>2 DEF Stored
    <3>8. Making(g)'
      BY <3>1, <3>4, <3>6, <3>7 DEF Making
    <3> QED BY <3>3, <3>8
  <2> QED BY <2>1, <2>2
<1> QED BY <1>5, <1>8, <1>12, <1>13, <1>14 DEF KeyInv

(* A restart: the keyboards stay, and those that were to be replaced by one  *)
(* on its way are so marked.                                                *)
LEMMA CrashKeys ==
    ASSUME KeyInv, Inv', Crash
    PROVE  KeyInv'
<1> DEFINE Marked(kb) ==
        [kb EXCEPT !.lost = @ \/ \E h \in Handlers : OnItsWay(h, kb.user, kb.field)]
<1>1. /\ keyboards' = {Marked(kb) : kb \in keyboards} /\ fsm' = fsm
      /\ \A g \in Handlers : run'[g] = Idle
  BY DEF Crash
<1>2. ASSUME NEW kb \in keyboards
      PROVE  /\ Keyboard(kb)
             /\ Marked(kb) = [user |-> kb.user, field |-> kb.field, options |-> kb.options,
                              began |-> kb.began, n |-> kb.n, shown |-> kb.shown,
                              lost |-> kb.lost \/ \E h \in Handlers : OnItsWay(h, kb.user, kb.field)]
  <2>1. Keyboard(kb)
    BY DEF KeyInv
  <2> QED BY <2>1 DEF Keyboard
<1> HIDE DEF Marked
<1>3. PICK f : f = [kb \in keyboards |-> Marked(kb)]
  OBVIOUS
<1>4. f \in Bijection(keyboards, keyboards')
  <2>1. f \in [keyboards -> keyboards'] /\ \A t \in keyboards' : \E kb \in keyboards : f[kb] = t
    BY <1>1, <1>3
  <2>2. ASSUME NEW a \in keyboards, NEW b \in keyboards, f[a] = f[b] PROVE a = b
    <3>1. f[a].n = a.n /\ f[b].n = b.n
      BY <1>2, <1>3
    <3> QED BY <1>2, <2>2, <3>1 DEF Keyboard
  <2>3. IsInjective(f)
    BY <2>1, <2>2 DEF IsInjective
  <2> QED BY <2>1, <2>3 DEF Bijection, Injection, Surjection
<1>5. IsFiniteSet(keyboards') /\ Cardinality(keyboards') = Cardinality(keyboards)
  BY <1>4, FS_Bijection DEF ExistsBijection, KeyInv
<1>6. ASSUME NEW new \in keyboards' PROVE Keyboard(new)'
  <2>1. PICK kb \in keyboards : new = Marked(kb)
    BY <1>1
  <2>2. Keyboard(kb) /\ new \in keyboards'
    BY <1>1, <1>2, <2>1
  <2>3. /\ new = [user |-> kb.user, field |-> kb.field, options |-> kb.options,
                  began |-> kb.began, n |-> kb.n, shown |-> kb.shown, lost |-> new.lost]
        /\ new.lost \in BOOLEAN
        /\ ~new.lost => ~kb.lost /\ \A h \in Handlers : ~OnItsWay(h, kb.user, kb.field)
    <3>1. PICK way \in BOOLEAN : way <=> \E h \in Handlers : OnItsWay(h, kb.user, kb.field)
      OBVIOUS
    <3>2. new = [user |-> kb.user, field |-> kb.field, options |-> kb.options,
                 began |-> kb.began, n |-> kb.n, shown |-> kb.shown,
                 lost |-> kb.lost \/ way]
      BY <1>2, <2>1, <3>1
    <3>3. kb.lost \in BOOLEAN /\ new.lost = (kb.lost \/ way)
      BY <2>2, <3>2 DEF Keyboard
    <3> QED BY <3>1, <3>2, <3>3
  <2>4. \A k \in keyboards' : k.n = new.n => k = new
    <3> SUFFICES ASSUME NEW a \in keyboards, Marked(a).n = new.n PROVE a = kb
      BY <1>1, <2>1
    <3>1. a.n = kb.n
      BY <1>2, <2>3
    <3> QED BY <1>2, <3>1 DEF Keyboard
  <2>5. ASSUME Alone(new)' PROVE Alone(kb)
    <3>1. ~kb.lost /\ \A g \in Handlers : ~OnItsWay(g, kb.user, kb.field)
      BY <2>3, <2>5 DEF Alone
    <3>2. ASSUME NEW k \in keyboards \ {kb}, k.user = kb.user, k.field = kb.field
          PROVE  k.n < kb.began
      <4>1. PICK m : m = Marked(k)
        OBVIOUS
      <4>2. m \in keyboards' /\ m.user = k.user /\ m.field = k.field /\ m.n = k.n
        BY <1>1, <1>2, <4>1
      <4>3. m # new
        BY <1>2, <2>2, <2>3, <3>2, <4>2 DEF Keyboard
      <4> QED BY <2>3, <2>5, <3>2, <4>2, <4>3 DEF Alone
    <3> QED BY <3>1, <3>2 DEF Alone
  <2>6. kb.field \in Fields /\ Alone(new)' => Stored(kb.user, kb.field, kb.options)'
    BY <1>1, <2>2, <2>5 DEF Keyboard, Stored
  <2>7. Keyboard(new)'
    BY <1>5, <2>2, <2>3, <2>4, <2>6 DEF Keyboard
  <2> QED BY <2>7
<1>7. \A h \in Handlers : Making(h)' /\ Taking(h)'
  BY <1>1 DEF Making, Taking, Idle, Showing
<1> QED BY <1>5, <1>6, <1>7 DEF KeyInv

LEMMA KeysStay ==
    ASSUME KeyInv, [Next]_vars
    PROVE  KeyInv'
<1>1. Inv'
  BY InvStays DEF KeyInv
<1> USE <1>1
<1>2. ASSUME NEW h \in Handlers, NEW u \in Users, Asked(h, u) PROVE KeyInv'
  <2>1. CASE Message(h, u)
    <3>1. run[h] = Idle /\ UNCHANGED <<fsm, keyboards>> /\ DOMAIN run = Handlers
      BY <2>1 DEF Message, KeyInv, Inv, JobInv
    <3>2. run'[h].at \in {"model", "dispatch"} /\ \A g \in Handlers \ {h} : run'[g] = run[g]
      BY <2>1, <3>1 DEF Message
    <3> QED BY <3>1, <3>2, Quiet DEF Idle, Showing
  <2>2. CASE Replied(h, u)
    BY <2>2, TapKeys
  <2> QED BY <1>2, <2>1, <2>2 DEF Asked, Replied
<1>3. CASE UNCHANGED <<run, fsm, keyboards>>
  <2>1. ASSUME NEW kb PROVE Alone(kb)' = Alone(kb)
    BY <1>3 DEF Alone, OnItsWay
  <2>2. ASSUME NEW kb \in keyboards PROVE Keyboard(kb)'
    <3>1. Keyboard(kb)
      BY DEF KeyInv
    <3> QED BY <1>3, <2>1, <3>1 DEF Keyboard, Stored
  <2>3. ASSUME NEW h \in Handlers PROVE Making(h)' /\ Taking(h)'
    <3>1. Making(h) /\ Taking(h) /\ run'[h] = run[h]
      BY <1>3 DEF KeyInv
    <3>2. AloneMade(h)' = AloneMade(h)
      BY <1>3 DEF AloneMade, OnItsWay
    <3>3. Making(h)'
      BY <1>3, <3>1, <3>2 DEF Making, Stored
    <3>4. PICK kb : kb = run[h].tap.pressed
      OBVIOUS
    <3>5. Taking(h)'
      BY <1>3, <2>1, <3>1, <3>4 DEF Taking
    <3> QED BY <3>3, <3>5
  <2> QED BY <1>3, <2>2, <2>3 DEF KeyInv
<1>4. ASSUME NEW h \in Handlers, Step(h) PROVE KeyInv'
  <2>1. CASE \/ PlainCall(h) \/ Think(h) \/ CaptureAgain(h) \/ CaptureNew(h)
             \/ MergePerson(h) \/ MergeShown(h) \/ MergeRefused(h)
             \/ Captured(h) \/ CaptureRefused(h) \/ CaptureBroken(h) \/ Finish(h) \/ Break(h)
    BY <2>1, TurnQuiet
  <2>2. CASE \/ DispatchCapture(h) \/ DispatchRefused(h) \/ Dispatched(h) \/ DispatchEnd(h)
             \/ Answered(h) \/ Finalized(h) \/ Stash(h) \/ StoreFilled(h) \/ Finalize(h)
    BY <2>2, OtherQuiet
  <2>3. CASE AskField(h) \/ StoreOptions(h) \/ ClearTyping(h) \/ SendKeyboard(h) \/ SendRefused(h)
    BY <2>3, AskKeys, StoreKeys, ClearKeys, SendKeys
  <2>4. CASE CapturingStep(h)
    BY <1>3, <2>4 DEF CapturingStep
  <2> QED BY <1>4, <2>1, <2>2, <2>3, <2>4 DEF Step, PlainCall
<1>5. CASE Crash
  BY <1>5, CrashKeys
<1>6. CASE UNCHANGED vars
  BY <1>3, <1>6 DEF vars
<1> QED BY <1>2, <1>4, <1>5, <1>6 DEF Next

(* What a keyboard shows and what is stored for whoever it was sent to.      *)
THEOREM KeyboardsHold == Spec => []KeyInv
<1>1. Init => KeyInv
  <2> SUFFICES ASSUME Init PROVE KeyInv
    OBVIOUS
  <2>1. Inv
    BY StoreBegins, JobBegins DEF Inv
  <2>2. keyboards = {} /\ IsFiniteSet(keyboards)
    BY FS_EmptySet DEF Init
  <2>3. \A h \in Handlers : Making(h) /\ Taking(h)
    BY DEF Init, Making, Taking, Idle, Showing
  <2> QED BY <2>1, <2>2, <2>3 DEF KeyInv
<1>2. KeyInv /\ [Next]_vars => KeyInv'
  BY KeysStay
<1> QED BY <1>1, <1>2, PTL DEF Spec

(* A button of the newest keyboard for a field means what it says to the     *)
(* user it was sent to, whatever projects are made and whatever dialogues    *)
(* run meanwhile, unless another for the field was under way with it, or was *)
(* lost, by a crash or because Telegram refused it (clarify.py               *)
(* _send_field_keyboard, _pick_from_options).                                *)
THEOREM ButtonsMeanWhatTheySay == Spec => []PressedIsTaken
<1>1. KeyInv => PressedIsTaken
  BY DEF KeyInv, Taking, Alone, PressedIsTaken
<1> QED BY <1>1, KeyboardsHold, PTL
=============================================================================
