----------------------------- MODULE MCDayplan -----------------------------
(* Lists of up to four entries in the order of their begin times: tasks,  *)
(* open and done, work linked to entries on either side, some of it over   *)
(* the end of the period, some with an end before its begin; and command   *)
(* lines that set the period in every way.                                 *)
EXTENDS Dayplan

\* Works begin at eight in the morning of a day and end at half past nine of
\* one, and 40 seconds; tasks begin with the day.
Task(day, done) == [type |-> "TASK", begin |-> day * 86400, end |-> 0,
                    task |-> 0, done |-> done, keys |-> {1}]
Work(day, end, task, key) ==
    [type |-> "WORK", begin |-> day * 86400 + 28800,
     end |-> end * 86400 + 34240, task |-> task, done |-> FALSE, keys |-> key]

Shapes == {Task(1, FALSE), Task(1, TRUE), Task(2, TRUE), Task(3, FALSE),
           Work(1, 2, 0, {1}), Work(1, 2, 1, {2}), Work(1, 4, 2, {1}),
           Work(2, 2, 1, {1, 2}), Work(2, 2, 2, {1}), Work(2, 4, 1, {2}),
           Work(2, 3, 3, {1, 2}), Work(2, 1, 0, {2})}

\* Four entries hold two tasks and the work that closes them in either order.
Closing == {Task(1, TRUE), Task(1, FALSE), Work(2, 2, 2, {1}),
            Work(2, 4, 1, {2}), Work(2, 3, 2, {1})}

Files == UNION {[1..n -> Shapes] : n \in 0..3} \union [1..4 -> Closing]

MCLists == {l \in Files :
              /\ \A e \in 1..(Len(l) - 1) : l[e].begin <= l[e + 1].begin
              /\ \A e \in 1..Len(l) :
                    l[e].task # 0 => /\ l[e].task \in 1..Len(l)
                                     /\ l[l[e].task].type = "TASK"}

MCCommands == {<<"tasks">>, <<"sum", "work">>, <<"work", "unknown", "sum">>}

O(opt) == [opt |-> opt, word |-> "none", day |-> 0]
Iso(opt, day) == [opt |-> opt, word |-> "iso", day |-> day]
Relative(opt, day) == [opt |-> opt, word |-> "relative", day |-> day]
Word(opt, word) == [opt |-> opt, word |-> word, day |-> 0]

\* Summer begins with day 3; today is day 2.
MCArguments == {
    <<>>, <<O("t")>>, <<Iso("d", 1), Relative("b", 2)>>, <<Iso("b", 2)>>,
    <<Iso("c", 2), Iso("b", 2), O("o")>>, <<O("t"), Iso("c", 3)>>,
    <<Iso("c", 2), O("s")>>, <<O("f"), O("r"), Word("g", "day")>>,
    <<O("h")>>, <<O("s"), O("v")>>, <<O("?")>>, <<Word("g", "none")>>,
    <<Word("g", "invalid")>>, <<O("t"), Word("c", "invalid")>>}

\* The command lines the violated claims are about.
DateArguments == {<<Iso("b", 1), Iso("d", 2)>>}
SummerArguments == {<<Iso("b", 3)>>}
=============================================================================
