----------------------------- MODULE MCGrammar -----------------------------
(* Files of up to four lines: every sequence of the lines below in which   *)
(* only the last one may be out of place, cut off at any character of it.  *)
EXTENDS Documents, SequencesExt

CONSTANT MaxLines

T(lead, cat, closed, name, trail) ==
    [lead |-> lead, cat |-> cat, closed |-> closed, name |-> name,
     trail |-> trail]

DateLine(year, trail) ==
    [kind |-> "date", year |-> year, month |-> 1, mday |-> 2, trail |-> trail]
WorkLine(hour, min, gap, txt) ==
    [kind |-> "work", hour |-> hour, min |-> min, gap |-> gap, text |-> txt]
TaskLine(id, txt) == [kind |-> "task", id |-> id, text |-> {txt}]
DescLine(desc, trail) == [kind |-> "desc", desc |-> desc, trail |-> trail]

Lines == {DateLine(12, 1),
          WorkLine(8, 0, 0, {}),
          WorkLine(25, 30, 2, {T(0, {}, TRUE, <<"a", "b", ":", "d">>, 1)}),
          WorkLine(9, 5, 1, {T(1, {<<"c", " ">>}, TRUE, <<"n">>, 0)}),
          TaskLine(12, T(0, {<<"u">>}, FALSE, <<>>, 0)),
          TaskLine(0, T(0, {}, TRUE, <<"t">>, 0)),
          DescLine(<<"x", " ", "y">>, 1),
          [kind |-> "empty"]}

\* The sequences of n lines that are not refused before the last one.
Sequences[n \in 1..MaxLines] ==
    IF n = 1 THEN {<<line>> : line \in Lines}
    ELSE {Append(s, line) : s \in {t \in Sequences[n - 1] :
                                      Meaning(t).verdict = "OK"},
                            line \in Lines}

AllLines == UNION {Sequences[n] : n \in 1..MaxLines}

MCDocuments == UNION {{[lines |-> s, cut |-> n] :
                          n \in 0..(Len(Written(Last(s))) + 1)} : s \in AllLines}

\* The characters of these lines, and the terminator.
MCCharacter == {"NUL", "\n", "\t", " ", "#", "(", ")", "-", ":", "a", "b", "c",
                "d", "g", "n", "t", "u", "x", "y"} \union Digit

MCGarbage == {<<>>, <<"g">>}
=============================================================================
