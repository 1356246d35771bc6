----------------------------- MODULE MCChatGate -----------------------------
(* Instances of ChatGate for TLC: three file sets, of which the second has   *)
(* other tasks, links and skills than the first, and the third names         *)
(* somebody who is not in its team; a member, who is a stranger until his    *)
(* Telegram id is linked, and an administrator who is no person; a private   *)
(* chat, the team's chat and another group.                                  *)
EXTENDS ChatGate

CONSTANTS ann, bob, cyd, dan, member, boss, dm, team, group

Name == <<ann, bob, cyd, dan>>
Person == (member :> ann) @@ (boss :> None)
Booked == (ann :> 8)

By(person) == [person |-> person, rank |-> None, strict |-> 1]
Entry(pair, two, people, after) == [pair |-> pair, two |-> two, people |-> people, after |-> after]
On(o) == [on |-> o, link |-> None, lag |-> None]

File1 ==
    [team      |-> (ann :> "sales") @@ (bob :> None),
     templates |-> [c \in {"lite"} |->
        <<Entry(None, TRUE, <<By(bob), By(ann)>>, {}),
          Entry("none", TRUE, <<By(ann)>>, {On(1)})>>],
     roles     |-> [r \in {"sales"} |-> {"talk", "write"}]]
File2 ==
    [team      |-> (bob :> "sales") @@ (cyd :> "design") @@ (dan :> "design"),
     templates |-> [c \in {"lite"} |->
        <<Entry("required", FALSE, <<[By(bob) EXCEPT !.rank = 1], [By(cyd) EXCEPT !.rank = 0]>>, {}),
          Entry(None, FALSE, <<By(dan)>>, {[On(1) EXCEPT !.link = "SS", !.lag = 1]}),
          Entry(None, FALSE, <<>>, {On(1), On(2)})>>],
     roles     |-> ("sales" :> {"talk"}) @@ ("design" :> {"draw", "write"})]
File3 == [File2 EXCEPT !.team = (bob :> "sales")]
AllFiles == {File1, File2, File3}

Text(addressed, wish) == [form |-> "text", addressed |-> addressed, wish |-> wish]
AllMessages == {Text(FALSE, "other"), Text(TRUE, "none"), Text(TRUE, "plan"),
                Text(TRUE, "confirm"),
                [form |-> "voice", addressed |-> FALSE, wish |-> "who"],
                [form |-> "task", addressed |-> FALSE, wish |-> "plan"]}
AllNeeds == {[need |-> {"talk", "write"}, bound |-> {}],
             [need |-> {"draw"}, bound |-> {dan}]}

Budget(messages, ticks, loads, edits, presses, fails, restarts, chats) ==
    [messages |-> messages, ticks |-> ticks, loads |-> loads, edits |-> edits,
     presses |-> presses, fails |-> fails, restarts |-> restarts, chats |-> chats]
(* Two messages in time, with a restart, a failure or a button; a message    *)
(* to a member that is linked meanwhile; a message and two loads; an edit   *)
(* after a load.                                                            *)
SomeBudgets == {Budget(2, 2, 0, 0, 0, 0, 1, {dm, team, group}),
                Budget(2, 2, 0, 0, 0, 1, 0, {team, group}),
                Budget(2, 1, 0, 0, 1, 0, 0, {dm, group}),
                Budget(1, 0, 1, 2, 0, 0, 0, {dm, team, group}),
                Budget(1, 0, 2, 0, 0, 0, 0, {dm, team, group}),
                Budget(1, 0, 1, 0, 1, 0, 0, {dm})}
CodeOrder == <<"lite">>
=============================================================================
