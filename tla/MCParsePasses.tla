--------------------------- MODULE MCParsePasses ---------------------------
(* Files of up to MaxLen entries drawn from a few shapes: an end marker,   *)
(* tasks with two ids, and work entries whose name and description hold    *)
(* every combination of references the passes tell apart.                  *)
EXTENDS ParsePasses

Ref(n)       == [kind |-> "number", num |-> n, word |-> "other"]
Word(w, n)   == [kind |-> "number", num |-> n, word |-> w]
NoNumber     == [kind |-> "word", num |-> 0, word |-> "other"]
TrailingHash == [kind |-> "end", num |-> 0, word |-> "other"]

Marker(begin) == [type |-> "WORK", named |-> FALSE, id |-> 0,
                  begin |-> begin, name |-> <<>>, desc |-> <<>>]
Work(begin, name, desc) == [type |-> "WORK", named |-> TRUE, id |-> 0,
                            begin |-> begin, name |-> name, desc |-> desc]
Task(begin, id1) == [type |-> "TASK", named |-> TRUE, id |-> id1,
                     begin |-> begin, name |-> <<>>, desc |-> <<>>]

MCShape == {Marker(2),
            Task(1, 1),
            Task(3, 2),
            Work(2, <<Word("Fixes", 1), NoNumber, Ref(1)>>, <<>>),
            Work(1, <<Word("Fixes", 1)>>, <<>>),
            Work(3, <<Ref(1)>>, <<Word("closes", 2)>>),
            Work(2, <<Word("Fix", 1), TrailingHash>>, <<TrailingHash>>)}

MCGarbage == {0, 2}

\* The shapes the violated claims are about.
CloseShape == {Marker(2), Task(1, 1), Work(1, <<Word("Close", 1)>>, <<>>),
               Work(2, <<Word("closes", 1)>>, <<>>)}
TailShape == {Marker(2), Task(1, 2), Work(1, <<TrailingHash>>, <<>>)}
=============================================================================
