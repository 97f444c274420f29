------------------------------ MODULE DplSort ------------------------------
(***************************************************************************)
(* dpl_list_sort of src/src/list.c: a recursive quicksort that relinks the *)
(* nodes of a list in place.  The recursion is a stack of frames; each     *)
(* turn of a loop is an action.  A node stands for the entry it holds, and *)
(* is named by its place in the list that is to be sorted.                 *)
(***************************************************************************)
EXTENDS Lists

CONSTANTS MaxLen,  \* bound: the number of nodes of the list
          Time,    \* the begin times of the entries
          NULL     \* the null pointer

ASSUME MaxLenAssumption == MaxLen \in Nat
ASSUME TimeAssumption == Time \subseteq Int
ASSUME NullAssumption == NULL \notin Nat

VARIABLES begin,  \* the begin time of the entry in each node, never changed
          next,   \* the next pointer of each node
          first,  \* list->first
          last,   \* list->last
          stack,  \* the frames of dpl_list_sort_quick
          pc,     \* where the innermost call is
          list,   \* *list of the innermost call, and its result
          input,  \* the local variables of dpl_list_sort_quick_divide
          pos1,
          pos2,
          pivot,  \* its begin1
          pos     \* the pointer the last list is followed with

vars == <<begin, next, first, last, stack, pc, list, input, pos1, pos2,
          pivot, pos>>

Node == DOMAIN begin
Pointer == Node \union {NULL}

Frame == [part1 : Pointer, part2 : Pointer, stage : {"part1", "part2"}]

Init == /\ begin \in UNION {[1..n -> Time] : n \in 0..MaxLen}
        /\ next = [n \in Node |-> IF n + 1 \in Node THEN n + 1 ELSE NULL]
        /\ first = IF Node = {} THEN NULL ELSE 1
        /\ last = IF Node = {} THEN NULL ELSE Cardinality(Node)
        /\ stack = <<>>
        /\ pc = "call"
        /\ list = first
        /\ input = NULL
        /\ pos1 = NULL
        /\ pos2 = NULL
        /\ pivot = 0
        /\ pos = NULL

Top == stack[Len(stack)]
Pop == SubSeq(stack, 1, Len(stack) - 1)

\* No item, or one, is in the list.
Short(items) == items # NULL => next[items] = NULL

\* Lists of less than two items are sorted.
Trivial == /\ pc = "call"
           /\ Short(list)
           /\ pc' = "return"
           /\ UNCHANGED <<begin, next, first, last, stack, list, input, pos1,
                          pos2, pivot, pos>>

\* Mutant of Swaps: the first two items change places when they are equal.
SwapsEqual(item1, item2) == begin[item1] >= begin[item2]

Swaps(item1, item2) == begin[item1] > begin[item2]

\* dpl_list_sort_quick_divide up to its loop: the smaller of the first two
\* items opens part1 and is the pivot, the other opens part2.
Divide ==
    /\ pc = "call"
    /\ ~Short(list)
    /\ LET swap == Swaps(list, next[list])
           part1 == IF swap THEN next[list] ELSE list
           part2 == IF swap THEN list ELSE next[list]
       IN  /\ stack' = Append(stack, [part1 |-> part1, part2 |-> part2,
                                      stage |-> "part1"])
           /\ pivot' = begin[part1]
           /\ pos1' = part1
           /\ pos2' = part2
    /\ input' = next[next[list]]
    /\ pc' = "divide"
    /\ UNCHANGED <<begin, next, first, last, list, pos>>

DivideNext ==
    /\ pc = "divide"
    /\ input # NULL
    /\ IF begin[input] < pivot
       THEN /\ next' = [next EXCEPT ![pos1] = input]
            /\ pos1' = input
            /\ UNCHANGED pos2
       ELSE /\ next' = [next EXCEPT ![pos2] = input]
            /\ pos2' = input
            /\ UNCHANGED pos1
    /\ input' = next[input]
    /\ UNCHANGED <<begin, first, last, stack, pc, list, pivot, pos>>

\* Both parts are ended, and dpl_list_sort_quick is called for the first.
DivideEnd ==
    /\ pc = "divide"
    /\ input = NULL
    /\ next' = [next EXCEPT ![pos1] = NULL, ![pos2] = NULL]
    /\ list' = Top.part1
    /\ pc' = "call"
    /\ UNCHANGED <<begin, first, last, stack, input, pos1, pos2, pivot, pos>>

\* The first part is sorted; the second is next.
ReturnPart1 ==
    /\ pc = "return"
    /\ stack # <<>>
    /\ Top.stage = "part1"
    /\ stack' = Append(Pop, [Top EXCEPT !.part1 = list, !.stage = "part2"])
    /\ list' = Top.part2
    /\ pc' = "call"
    /\ UNCHANGED <<begin, next, first, last, input, pos1, pos2, pivot, pos>>

\* Both parts are sorted; DPL_LISTITEMS_JOIN follows the first to its end.
ReturnPart2 ==
    /\ pc = "return"
    /\ stack # <<>>
    /\ Top.stage = "part2"
    /\ stack' = Append(Pop, [Top EXCEPT !.part2 = list])
    /\ pos' = Top.part1
    /\ pc' = "join"
    /\ UNCHANGED <<begin, next, first, last, list, input, pos1, pos2, pivot>>

\* Mutants of AtEnd: the first node is taken for the last; the loop runs past
\* the last.
AtStart == TRUE
PastEnd == pos = NULL

AtEnd == next[pos] = NULL

\* Mutant of JoinNext: the pointer does not move.
JoinStands == /\ pc = "join"
              /\ ~AtEnd
              /\ UNCHANGED vars

JoinNext == /\ pc = "join"
            /\ ~AtEnd
            /\ pos' = next[pos]
            /\ UNCHANGED <<begin, next, first, last, stack, pc, list, input,
                           pos1, pos2, pivot>>

JoinEnd == /\ pc = "join"
           /\ AtEnd
           /\ next' = [next EXCEPT ![pos] = Top.part2]
           /\ list' = Top.part1
           /\ stack' = Pop
           /\ pc' = "return"
           /\ UNCHANGED <<begin, first, last, input, pos1, pos2, pivot, pos>>

\* The outermost call returns to dpl_list_sort, which looks for the last node.
Reset == /\ pc = "return"
         /\ stack = <<>>
         /\ first' = list
         /\ pos' = list
         /\ pc' = "reset"
         /\ UNCHANGED <<begin, next, last, stack, list, input, pos1, pos2,
                        pivot>>

ResetNext == /\ pc = "reset"
             /\ ~Short(pos)
             /\ pos' = next[pos]
             /\ UNCHANGED <<begin, next, first, last, stack, pc, list, input,
                            pos1, pos2, pivot>>

ResetEnd == /\ pc = "reset"
            /\ Short(pos)
            /\ last' = pos
            /\ pc' = "done"
            /\ UNCHANGED <<begin, next, first, stack, list, input, pos1,
                           pos2, pivot, pos>>

Next == \/ Trivial \/ Divide \/ DivideNext \/ DivideEnd
        \/ ReturnPart1 \/ ReturnPart2 \/ JoinNext \/ JoinEnd
        \/ Reset \/ ResetNext \/ ResetEnd

Spec == Init /\ [][Next]_vars /\ WF_vars(Next)

----------------------------------------------------------------------------
TypeOK == /\ begin \in Seq(Time)
          /\ next \in [Node -> Pointer]
          /\ {first, last, list, input, pos1, pos2, pos} \subseteq Pointer
          /\ stack \in Seq(Frame)
          /\ pc \in {"call", "divide", "return", "join", "reset", "done"}
          /\ pivot \in Time \union {0}
          /\ pc = "divide" => NULL \notin {pos1, pos2}
          /\ pc = "join" => pos # NULL

\* The nodes found from a pointer by following next pointers: what every set
\* has in common that has the node it leads to and, of a node, the next one.
Closed(nodes) == \A n \in nodes : next[n] \in nodes \union {NULL}

Reached(pointer) ==
    {n \in Node : \A nodes \in SUBSET Node :
        Closed(nodes) /\ pointer \in nodes \union {NULL} => n \in nodes}

\* The list leads through every entry once, by begin time, and through those
\* that begin together in their old order: the quicksort is stable
\* (list.c:530-539).  list->last is the last of them again, so that a push
\* appends.
SortedStably ==
    pc = "done" =>
        /\ Node = {} => first = NULL /\ last = NULL
        /\ Node # {} => first \in Node /\ last \in Node
        /\ \A n \in Node :
              /\ n = first \/ Before(begin, first, n)
              /\ n = last \/ Before(begin, n, last)
              /\ n = last => next[n] = NULL
              /\ n # last =>
                    /\ next[n] \in Node
                    /\ Before(begin, n, next[n])
                    /\ \A m \in Node \ {next[n]} :
                          Before(begin, n, m) => Before(begin, next[n], m)

\* Relinking in place loses no entry and doubles none: between any two
\* assignments every node can be found from a pointer some frame holds, and
\* what an inner call was given, or returns, has no node in common with what
\* its callers keep for later.
NoneLost ==
    LET held == {list, input}
                    \union (IF pc = "done" THEN {first} ELSE {})
                    \union {stack[i].part1 : i \in 1..Len(stack)}
                    \union {stack[i].part2 : i \in 1..Len(stack)}
        kept(frame) == IF frame.stage = "part1" THEN frame.part2
                       ELSE frame.part1
    IN  /\ UNION {Reached(p) : p \in held} = Node
        /\ pc \in {"call", "return"} =>
              \A i \in 1..Len(stack) :
                  Reached(kept(stack[i])) \intersect Reached(list) = {}

\* The sort comes to an end, each part being shorter than its list.
Terminates == <>(pc = "done")
=============================================================================
