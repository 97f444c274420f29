--------------------------- MODULE DplSortProofs ---------------------------
(***************************************************************************)
(* Proofs about dpl_list_sort, for every list.  Each frame of the          *)
(* quicksort divides the nodes of the call it belongs to in those of its   *)
(* first part and those of its second one, and sorts one of the two while  *)
(* it keeps the other: SortInv says which nodes these are and that the     *)
(* next pointers link them in the old order or sorted.                     *)
(***************************************************************************)
EXTENDS DplSort, FiniteSetTheorems, SequenceTheorems,
        WellFoundedInduction, TLAPS

\* A set of natural numbers that is not empty has a least one.
LEMMA Least ==
    ASSUME NEW S \in SUBSET Nat, S # {}
    PROVE  \E m \in S : \A k \in S : m <= k
<1>1. PICK m \in S : \A k \in S : <<k, m>> \notin OpToRel(<, Nat)
  BY NatLessThanWellFounded, WFMin
<1>2. \A k \in S : ~(k < m)
  BY <1>1 DEF OpToRel
<1>. QED
  BY <1>2

\* A set of numbers that has 0, and each number's successor, has all of them.
LEMMA Induction ==
    ASSUME NEW S \in SUBSET Nat, 0 \in S, \A n \in S : n + 1 \in S
    PROVE  S = Nat
<1>. SUFFICES ASSUME Nat \ S # {}
              PROVE  FALSE
  OBVIOUS
<1>1. PICK m \in Nat \ S : \A k \in Nat \ S : <<k, m>> \notin OpToRel(<, Nat)
  BY NatLessThanWellFounded, WFMin
<1>2. \A k \in Nat \ S : ~(k < m)
  BY <1>1 DEF OpToRel
<1>3. m \in Nat /\ m \notin S /\ m # 0
  OBVIOUS
<1>4. m - 1 \in S
  BY <1>2, <1>3
<1>. QED
  BY <1>3, <1>4

\* The nodes are numbers.
LEMMA NodeFacts ==
    ASSUME begin \in Seq(Time)
    PROVE  /\ Len(begin) \in Nat /\ Node = 1..Len(begin) /\ Node \subseteq Nat
           /\ NULL \notin Node
           /\ \A n \in Node : n \in Int /\ begin[n] \in Int
<1>1. /\ Len(begin) \in Nat /\ Node = 1..Len(begin)
      /\ \A n \in Node : begin[n] \in Time
  BY LenProperties, ElementOfSeq DEF Node
<1>2. ASSUME NEW n \in Node
      PROVE  n \in Nat /\ begin[n] \in Int
  <2>1. n \in 1..Len(begin)
    BY <1>1
  <2>2. n \in Nat
    BY <1>1, <2>1
  <2>3. begin[n] \in Time
    BY <1>1
  <2>. QED
    BY <2>2, <2>3, TimeAssumption
<1>. QED
  BY <1>1, <1>2, NullAssumption

----------------------------------------------------------------------------
(* The two orders of nodes, that of the unsorted list and that of the sort, *)
(* and lists that are linked in such an order.                              *)

Less == {pair \in Node \X Node : pair[1] < pair[2]}
Order == {pair \in Node \X Node : Before(begin, pair[1], pair[2])}

IsOrder(R) ==
    /\ \A n \in Node : <<n, n>> \notin R
    /\ \A l, m, n \in Node : <<l, m>> \in R /\ <<m, n>> \in R => <<l, n>> \in R
    /\ \A m, n \in Node : m = n \/ <<m, n>> \in R \/ <<n, m>> \in R

\* p points to the first of the nodes.
Opens(nodes, R, p) ==
    IF nodes = {} THEN p = NULL
    ELSE p \in nodes /\ \A m \in nodes : m = p \/ <<p, m>> \in R

\* p points to the last of the nodes.
Ends(nodes, R, p) == p \in nodes /\ \A m \in nodes : m = p \/ <<m, p>> \in R

\* p points to the node that follows n among the nodes.
Follows(nodes, R, n, p) ==
    IF \E m \in nodes : <<n, m>> \in R
    THEN /\ p \in nodes /\ <<n, p>> \in R
         /\ \A m \in nodes : <<n, m>> \in R => m = p \/ <<p, m>> \in R
    ELSE p = NULL

\* With the next pointers nx, p points to a list of the nodes in this order.
IsList(nx, nodes, R, p) ==
    /\ Opens(nodes, R, p)
    /\ \A n \in nodes : Follows(nodes, R, n, nx[n])

\* The same of a list that does not end yet behind its last node q.
IsPart(nx, nodes, R, p, q) ==
    /\ Opens(nodes, R, p)
    /\ Ends(nodes, R, q)
    /\ \A n \in nodes \ {q} : Follows(nodes, R, n, nx[n])

LEMMA InLess == \A m, n : <<m, n>> \in Less <=>
                             m \in Node /\ n \in Node /\ m < n
  BY DEF Less

LEMMA InOrder == \A m, n : <<m, n>> \in Order <=>
                              m \in Node /\ n \in Node /\ Before(begin, m, n)
  BY DEF Order

LEMMA LessOrder == begin \in Seq(Time) => IsOrder(Less)
<1>. SUFFICES ASSUME begin \in Seq(Time)
              PROVE  IsOrder(Less)
  OBVIOUS
<1>1. \A n \in Node : n \in Int
  BY NodeFacts
<1>. QED
  BY <1>1, InLess DEF IsOrder

LEMMA SortOrder == begin \in Seq(Time) => IsOrder(Order)
<1>. SUFFICES ASSUME begin \in Seq(Time)
              PROVE  IsOrder(Order)
  OBVIOUS
<1>1. \A n \in Node : n \in Int /\ begin[n] \in Int
  BY NodeFacts
<1>2. \A n \in Node : <<n, n>> \notin Order
  BY <1>1, InOrder DEF Before
<1>3. ASSUME NEW l \in Node, NEW m \in Node, NEW n \in Node,
             <<l, m>> \in Order, <<m, n>> \in Order
      PROVE  <<l, n>> \in Order
  BY <1>1, <1>3, InOrder DEF Before
<1>4. ASSUME NEW m \in Node, NEW n \in Node, m # n
      PROVE  <<m, n>> \in Order \/ <<n, m>> \in Order
  <2>1. m \in Int /\ n \in Int /\ begin[m] \in Int /\ begin[n] \in Int
    BY <1>1
  <2>2. Before(begin, m, n) \/ Before(begin, n, m)
    BY <1>4, <2>1 DEF Before
  <2>. QED
    BY <2>2, InOrder
<1>. QED
  BY <1>2, <1>3, <1>4 DEF IsOrder

\* Each set of nodes that is not empty has a first node and a last one.
LEMMA Extremes ==
    ASSUME begin \in Seq(Time), NEW R, IsOrder(R)
    PROVE  \A nodes \in SUBSET Node :
               nodes # {} => /\ \E p \in nodes : Opens(nodes, R, p)
                             /\ \E p \in nodes : Ends(nodes, R, p)
<1>. DEFINE Has(nodes) == nodes # {} =>
                              /\ \E p \in nodes : Opens(nodes, R, p)
                              /\ \E p \in nodes : Ends(nodes, R, p)
            S == {n \in Nat : \A nodes \in SUBSET Node :
                                  nodes \subseteq 1..n => Has(nodes)}
<1>1. Len(begin) \in Nat /\ Node = 1..Len(begin)
  BY NodeFacts
<1>2. 0 \in S
  OBVIOUS
<1>3. ASSUME NEW n \in S
      PROVE  n + 1 \in S
  <2>1. n \in Nat /\ n + 1 \in Nat
    OBVIOUS
  <2>2. ASSUME NEW nodes \in SUBSET Node, nodes \subseteq 1..(n + 1)
        PROVE  Has(nodes)
    <3>. DEFINE less == nodes \ {n + 1}
    <3>1. less \in SUBSET Node /\ less \subseteq 1..n
      <4>1. \A k : k \in 1..(n + 1) => k \in 1..n \/ k = n + 1
        BY <2>1
      <4>. QED
        BY <2>2, <4>1
    <3>2. Has(less)
      BY <3>1
    <3>3. CASE n + 1 \notin nodes
      BY <3>2, <3>3
    <3>4. CASE nodes = {n + 1}
      BY <3>4 DEF Opens, Ends
    <3>5. CASE n + 1 \in nodes /\ less # {}
      <4>. DEFINE new == n + 1
      <4>1. PICK p \in less : Opens(less, R, p)
        BY <3>2, <3>5
      <4>2. PICK q \in less : Ends(less, R, q)
        BY <3>2, <3>5
      <4>. HIDE DEF new
      <4>3. /\ new \in Node /\ p \in Node /\ q \in Node
            /\ nodes = less \union {new}
            /\ new \notin less
            /\ less \subseteq Node
        BY <2>2, <3>1, <3>5 DEF new
      <4>. HIDE DEF less
      <4>4. <<p, new>> \in R => Opens(nodes, R, p)
        BY <4>1, <4>3 DEF Opens
      <4>5. <<new, p>> \in R => Opens(nodes, R, new)
        BY <4>1, <4>3 DEF Opens, IsOrder
      <4>6. <<new, q>> \in R => Ends(nodes, R, q)
        BY <4>2, <4>3 DEF Ends
      <4>7. <<q, new>> \in R => Ends(nodes, R, new)
        BY <4>2, <4>3 DEF Ends, IsOrder
      <4>8. /\ p \in nodes /\ q \in nodes /\ new \in nodes
            /\ <<p, new>> \in R \/ <<new, p>> \in R
            /\ <<q, new>> \in R \/ <<new, q>> \in R
        BY <4>3 DEF IsOrder
      <4>. QED
        BY <4>4, <4>5, <4>6, <4>7, <4>8
    <3>. QED
      BY <3>3, <3>4, <3>5
  <2>. HIDE DEF Has
  <2>. QED
    BY <2>1, <2>2
<1>. HIDE DEF Has
<1>4. S \in SUBSET Nat
  OBVIOUS
<1>. HIDE DEF S
<1>5. S = Nat
  BY <1>2, <1>3, <1>4, Induction
<1>6. Len(begin) \in S
  BY <1>1, <1>5
<1>7. \A nodes \in SUBSET Node : Has(nodes)
  BY <1>1, <1>6 DEF S
<1>. QED
  BY <1>7 DEF Has

\* A change of next pointers elsewhere.
LEMMA SameList ==
    ASSUME NEW nx, NEW ny, NEW S, NEW R, NEW p,
           IsList(nx, S, R, p), \A n \in S : ny[n] = nx[n]
    PROVE  IsList(ny, S, R, p)
  BY DEF IsList

LEMMA SamePart ==
    ASSUME NEW nx, NEW ny, NEW S, NEW R, NEW p, NEW q,
           IsPart(nx, S, R, p, q), \A n \in S \ {q} : ny[n] = nx[n]
    PROVE  IsPart(ny, S, R, p, q)
  BY DEF IsPart

\* A list of less than two nodes is in any order.
LEMMA ShortList ==
    ASSUME NEW nx, NEW S \in SUBSET Node, NEW R, NEW Q, NEW p,
           IsOrder(Q), IsList(nx, S, R, p), NULL \notin Node,
           p # NULL => nx[p] = NULL
    PROVE  IsList(nx, S, Q, p)
<1>1. CASE S = {}
  BY <1>1 DEF IsList, Opens
<1>2. CASE S # {}
  <2>1. p \in S /\ S \subseteq Node /\ p # NULL
    BY <1>2 DEF IsList, Opens
  <2>2. Follows(S, R, p, NULL)
    BY <2>1 DEF IsList
  <2>3. \A m \in S : <<p, m>> \notin R
    BY <2>1, <2>2 DEF Follows
  <2>4. S = {p}
    BY <2>1, <2>3, <1>2 DEF IsList, Opens
  <2>5. <<p, p>> \notin Q
    BY <2>1 DEF IsOrder
  <2>. QED
    BY <2>1, <2>4, <2>5 DEF IsList, Opens, Follows
<1>. QED
  BY <1>1, <1>2

\* A list without its first node.
LEMMA TailList ==
    ASSUME NEW nx, NEW S \in SUBSET Node, NEW R, NEW p,
           IsOrder(R), IsList(nx, S, R, p), p # NULL
    PROVE  /\ p \in S
           /\ \A m \in S \ {p} : <<p, m>> \in R
           /\ IsList(nx, S \ {p}, R, nx[p])
<1>1. p \in S /\ S \subseteq Node
  BY DEF IsList, Opens
<1>2. \A m \in S \ {p} : <<p, m>> \in R
  BY DEF IsList, Opens
<1>3. Follows(S, R, p, nx[p])
  BY <1>1 DEF IsList
<1>4. <<p, p>> \notin R
  BY <1>1 DEF IsOrder
<1>5. Opens(S \ {p}, R, nx[p])
  <2>1. CASE S \ {p} = {}
    BY <1>1, <1>3, <1>4, <2>1 DEF Follows, Opens
  <2>2. CASE S \ {p} # {}
    BY <1>1, <1>2, <1>3, <1>4, <2>2 DEF Follows, Opens
  <2>. QED
    BY <2>1, <2>2
<1>6. ASSUME NEW n \in S \ {p}
      PROVE  Follows(S \ {p}, R, n, nx[n])
  <2>1. Follows(S, R, n, nx[n])
    BY <1>6 DEF IsList
  <2>2. <<n, p>> \notin R
    BY <1>1, <1>2, <1>4, <1>6 DEF IsOrder
  <2>. QED
    BY <1>6, <2>1, <2>2 DEF Follows
<1>. QED
  BY <1>1, <1>2, <1>5, <1>6 DEF IsList

\* One node is a part.
LEMMA OnePart ==
    ASSUME NEW nx, NEW R, NEW p \in Node
    PROVE  IsPart(nx, {p}, R, p, p)
  BY DEF IsPart, Opens, Ends

\* A part with a node linked behind it.
LEMMA LongerPart ==
    ASSUME NEW nx, NEW ny, NEW S \in SUBSET Node, NEW R, NEW p, NEW q,
           NEW x \in Node,
           IsOrder(R), IsPart(nx, S, R, p, q),
           \A n \in S : <<n, x>> \in R,
           \A n \in S \ {q} : ny[n] = nx[n],
           ny[q] = x
    PROVE  IsPart(ny, S \union {x}, R, p, x)
<1>1. /\ S \subseteq Node /\ p \in S /\ q \in S
      /\ \A m \in S : m = p \/ <<p, m>> \in R
      /\ \A m \in S : m = q \/ <<m, q>> \in R
      /\ \A n \in S \ {q} : Follows(S, R, n, nx[n])
  BY DEF IsPart, Opens, Ends
<1>2. x \notin S /\ <<x, x>> \notin R
  BY DEF IsOrder
<1>3. Opens(S \union {x}, R, p) /\ Ends(S \union {x}, R, x)
  BY <1>1 DEF Opens, Ends
<1>4. ASSUME NEW n \in S \ {q}
      PROVE  Follows(S \union {x}, R, n, ny[n])
  <2>1. Follows(S, R, n, nx[n]) /\ ny[n] = nx[n]
    BY <1>1, <1>4
  <2>2. q \in S /\ <<n, q>> \in R
    BY <1>1, <1>4
  <2>3. /\ nx[n] \in S /\ <<n, nx[n]>> \in R
        /\ \A m \in S : <<n, m>> \in R => m = nx[n] \/ <<nx[n], m>> \in R
    BY <2>1, <2>2 DEF Follows
  <2>. QED
    BY <1>1, <2>1, <2>3 DEF Follows
<1>5. Follows(S \union {x}, R, q, ny[q])
  <2>1. \A m \in S : <<q, m>> \notin R
    BY <1>1 DEF IsOrder
  <2>2. <<q, x>> \in R
    BY <1>1
  <2>. QED
    BY <1>1, <2>1, <2>2 DEF Follows
<1>. QED
  BY <1>1, <1>2, <1>3, <1>4, <1>5 DEF IsPart

\* A part with the end marker set is a list.
LEMMA EndedPart ==
    ASSUME NEW nx, NEW ny, NEW S \in SUBSET Node, NEW R, NEW p, NEW q,
           IsOrder(R), IsPart(nx, S, R, p, q),
           \A n \in S \ {q} : ny[n] = nx[n],
           ny[q] = NULL
    PROVE  IsList(ny, S, R, p)
<1>1. /\ S \subseteq Node /\ q \in S
      /\ \A m \in S : m = q \/ <<m, q>> \in R
  BY DEF IsPart, Ends
<1>2. \A m \in S : <<q, m>> \notin R
  BY <1>1 DEF IsOrder
<1>3. Follows(S, R, q, ny[q])
  BY <1>2 DEF Follows
<1>. QED
  BY <1>3 DEF IsPart, IsList

\* Two lists joined.
LEMMA JoinedList ==
    ASSUME NEW nx, NEW ny, NEW S \in SUBSET Node, NEW T \in SUBSET Node,
           NEW R, NEW p, NEW q, NEW r,
           IsOrder(R), NULL \notin Node,
           IsList(nx, S, R, p), IsList(nx, T, R, r), T # {},
           \A a \in S, b \in T : <<a, b>> \in R,
           q \in S, nx[q] = NULL, ny[q] = r,
           \A n \in (S \union T) \ {q} : ny[n] = nx[n]
    PROVE  IsList(ny, S \union T, R, p)
<1>1. /\ S \subseteq Node /\ T \subseteq Node /\ p \in S /\ r \in T
      /\ \A m \in S : m = p \/ <<p, m>> \in R
      /\ \A m \in T : m = r \/ <<r, m>> \in R
      /\ \A n \in S : Follows(S, R, n, nx[n])
      /\ \A n \in T : Follows(T, R, n, nx[n])
  BY DEF IsList, Opens
<1>2. \A n \in S : n \notin T
  BY <1>1 DEF IsOrder
<1>3. \A a \in S, b \in T : <<b, a>> \notin R
  BY <1>1 DEF IsOrder
<1>4. Opens(S \union T, R, p)
  BY <1>1 DEF Opens
<1>5. ASSUME NEW n \in T
      PROVE  Follows(S \union T, R, n, ny[n])
  <2>1. Follows(T, R, n, nx[n]) /\ ny[n] = nx[n]
    BY <1>1, <1>2, <1>5
  <2>2. \A m \in S \union T : <<n, m>> \in R => m \in T
    BY <1>3, <1>5
  <2>. QED
    BY <2>1, <2>2 DEF Follows
<1>6. Follows(S \union T, R, q, ny[q])
  <2>1. Follows(S, R, q, NULL)
    BY <1>1
  <2>2. \A m \in S : <<q, m>> \notin R
    BY <1>1, <2>1 DEF Follows
  <2>. QED
    BY <1>1, <2>2 DEF Follows
<1>7. ASSUME NEW n \in S, n # q
      PROVE  Follows(S \union T, R, n, ny[n])
  <2>1. Follows(S, R, n, nx[n]) /\ ny[n] = nx[n]
    BY <1>1, <1>7
  <2>2. \A m \in S : <<q, m>> \notin R
    <3>1. Follows(S, R, q, NULL)
      BY <1>1
    <3>. QED
      BY <1>1, <3>1 DEF Follows
  <2>3. <<n, q>> \in R
    BY <1>1, <1>7, <2>2 DEF IsOrder
  <2>4. /\ nx[n] \in S /\ <<n, nx[n]>> \in R
        /\ \A m \in S : <<n, m>> \in R => m = nx[n] \/ <<nx[n], m>> \in R
    BY <2>1, <2>3 DEF Follows
  <2>. QED
    BY <1>1, <2>1, <2>4 DEF Follows
<1>. QED
  BY <1>1, <1>4, <1>5, <1>6, <1>7 DEF IsList

\* What is found from the pointer to a part is at least the part, and from the
\* pointer to a list just the list.
LEMMA PartReached ==
    ASSUME begin \in Seq(Time), NEW R, IsOrder(R), NEW S \in SUBSET Node,
           NEW p, NEW q,
           IsPart(next, S, R, p, q)
    PROVE  S \subseteq Reached(p)
<1>1. /\ S \subseteq Node /\ p \in S /\ q \in S /\ NULL \notin Node
      /\ \A m \in S : m = p \/ <<p, m>> \in R
      /\ \A m \in S : m = q \/ <<m, q>> \in R
      /\ \A n \in S \ {q} : Follows(S, R, n, next[n])
  BY NodeFacts DEF IsPart, Opens, Ends
<1>. SUFFICES ASSUME NEW C \in SUBSET Node, Closed(C), p \in C \union {NULL}
              PROVE  S \subseteq C
  BY <1>1 DEF Reached
<1>2. p \in C
  BY <1>1
<1>. SUFFICES ASSUME S \ C # {}
              PROVE  FALSE
  OBVIOUS
<1>3. S \ C \in SUBSET Node
  BY <1>1
<1>4. PICK m \in S \ C : Opens(S \ C, R, m)
  BY <1>3, Extremes
<1>5. \A n \in S : <<n, m>> \in R => n \in C
  BY <1>1, <1>4 DEF Opens, IsOrder
<1>. DEFINE U == {n \in S : <<n, m>> \in R}
<1>6. U \in SUBSET Node /\ U # {}
  BY <1>1, <1>2
<1>7. PICK k \in U : Ends(U, R, k)
  BY <1>6, Extremes
<1>8. k \in S /\ <<k, m>> \in R /\ k \in C /\ k # q
  BY <1>1, <1>5, <1>7 DEF IsOrder
<1>9. Follows(S, R, k, next[k])
  BY <1>1, <1>8
<1>10. /\ next[k] \in S /\ <<k, next[k]>> \in R
       /\ m = next[k] \/ <<next[k], m>> \in R
  BY <1>8, <1>9 DEF Follows
<1>11. next[k] \notin U
  BY <1>1, <1>7, <1>10 DEF Ends, IsOrder
<1>12. next[k] = m
  BY <1>10, <1>11
<1>13. next[k] \in C
  BY <1>1, <1>8, <1>10 DEF Closed
<1>. QED
  BY <1>12, <1>13

LEMMA ListReached ==
    ASSUME begin \in Seq(Time), NEW R, IsOrder(R), NEW S \in SUBSET Node, NEW p,
           IsList(next, S, R, p)
    PROVE  Reached(p) = S
<1>1. S \subseteq Node /\ NULL \notin Node
  BY NodeFacts DEF IsList
<1>2. Reached(p) \subseteq S
  <2>1. Closed(S) /\ p \in S \union {NULL}
    BY DEF IsList, Opens, Follows, Closed
  <2>. QED
    BY <1>1, <2>1 DEF Reached
<1>3. S \subseteq Reached(p)
  <2>1. CASE S = {}
    BY <2>1
  <2>2. CASE S # {}
    <3>1. PICK q \in S : Ends(S, R, q)
      BY <1>1, <2>2, Extremes
    <3>2. p \in S
      BY <2>2 DEF IsList, Opens
    <3>3. IsPart(next, S, R, p, q)
      BY <3>1 DEF IsList, IsPart
    <3>. QED
      BY <3>3, PartReached
  <2>. QED
    BY <2>1, <2>2
<1>. QED
  BY <1>2, <1>3

(* The nodes a frame of dpl_list_sort_quick has divided: those of part1, of *)
(* part2, and those that are still in input.                                *)
Division == [one : SUBSET Node, two : SUBSET Node, rest : SUBSET Node]

Whole(part) == part.one \union part.two \union part.rest

\* The part a frame sorts, and the part it keeps meanwhile.
Inner(frame, part) == IF frame.stage = "part1" THEN part.one ELSE part.two

\* The nodes of the innermost call.
Current(parts) == IF stack = <<>> THEN Node
                  ELSE Inner(Top, parts[Len(stack)])

\* Every node of the first part is in front of every node of the second.
Divided(part) ==
    /\ part.one # {} /\ part.two # {}
    /\ \A a \in part.one, b \in part.two : <<a, b>> \in Order
    /\ \A n \in part.rest : n \notin part.one /\ n \notin part.two

\* Each frame divides the part that the frame around it sorts.
Nested(parts) ==
    /\ parts \in [1..Len(stack) -> Division]
    /\ \A i \in 1..Len(stack) :
          /\ Divided(parts[i])
          /\ parts[i].rest # {} => i = Len(stack) /\ pc = "divide"
    /\ \A i \in 1..Len(stack) : i = 1 => Whole(parts[i]) = Node
    /\ \A i, j \in 1..Len(stack) :
          /\ j = i + 1 => Whole(parts[j]) = Inner(stack[i], parts[i])
          /\ i < j => Whole(parts[j]) \subseteq Inner(stack[i], parts[i])

\* The part a frame keeps is a list, in its old order or sorted.
KeptList(nx, frame, part) ==
    IF frame.stage = "part1" THEN IsList(nx, part.two, Less, frame.part2)
    ELSE IsList(nx, part.one, Order, frame.part1)

\* The loop invariant of dpl_list_sort_quick_divide.
Dividing(frame, part) ==
    /\ frame.stage = "part1"
    /\ IsPart(next, part.one, Less, frame.part1, pos1)
    /\ IsPart(next, part.two, Less, frame.part2, pos2)
    /\ IsList(next, part.rest, Less, input)
    /\ \A m \in part.rest, n \in part.one \union part.two : <<n, m>> \in Less
    /\ pivot = begin[frame.part1]
    /\ \A a \in part.one : begin[a] <= pivot
    /\ \A b \in part.two : begin[b] >= pivot

\* What the innermost call, or dpl_list_sort, is at.
Running(parts) ==
    /\ pc = "call" => IsList(next, Current(parts), Less, list)
    /\ pc = "return" => IsList(next, Current(parts), Order, list)
    /\ pc = "divide" =>
          stack # <<>> /\ Dividing(Top, parts[Len(stack)])
    /\ pc = "join" =>
          /\ stack # <<>>
          /\ Top.stage = "part2"
          /\ IsList(next, parts[Len(stack)].two, Order, Top.part2)
          /\ pos \in parts[Len(stack)].one
    /\ pc \in {"reset", "done"} =>
          stack = <<>> /\ first = list /\ IsList(next, Node, Order, list)
    /\ pc = "reset" => IF Node = {} THEN pos = NULL ELSE pos \in Node
    /\ pc = "done" => IF Node = {} THEN last = NULL
                      ELSE Ends(Node, Order, last)

Kept(parts) ==
    \A i \in 1..Len(stack) :
        i < Len(stack) \/ pc # "divide" => KeptList(next, stack[i], parts[i])

SortInv == TypeOK /\ \E parts : Nested(parts) /\ Kept(parts) /\ Running(parts)

----------------------------------------------------------------------------
LEMMA InitSort == Init => SortInv
<1>. SUFFICES ASSUME Init
              PROVE  SortInv
  OBVIOUS
<1>1. PICK n \in 0..MaxLen : begin \in [1..n -> Time]
  BY DEF Init
<1>2. /\ n \in Nat /\ begin \in Seq(Time) /\ Len(begin) = n /\ Node = 1..n
      /\ \A m \in Node : m \in Nat
      /\ NULL \notin Node
  <2>1. n \in Nat
    BY MaxLenAssumption
  <2>2. begin \in Seq(Time) /\ DOMAIN begin = 1..n
    BY <1>1, <2>1, SeqDef
  <2>3. Len(begin) = n
    BY <2>1, <2>2, LenProperties
  <2>. QED
    BY <2>1, <2>2, <2>3, NodeFacts DEF Node
<1>3. /\ next = [m \in Node |-> IF m + 1 \in Node THEN m + 1 ELSE NULL]
      /\ stack = <<>> /\ pc = "call" /\ list = first /\ input = NULL
      /\ pos1 = NULL /\ pos2 = NULL /\ pos = NULL /\ pivot = 0
      /\ first = IF Node = {} THEN NULL ELSE 1
      /\ last = IF Node = {} THEN NULL ELSE Cardinality(Node)
  BY DEF Init
<1>4. stack \in Seq(Frame) /\ Len(stack) = 0
  BY <1>3, EmptySeq
<1>5. Node # {} => Cardinality(Node) \in Node
  <2>1. Cardinality(1..n) = IF 1 > n THEN 0 ELSE n - 1 + 1
    BY <1>2, FS_Interval
  <2>. QED
    BY <1>2, <2>1
<1>6. TypeOK
  <2>1. next \in [Node -> Pointer]
    BY <1>3 DEF Pointer
  <2>2. first \in Pointer /\ last \in Pointer
    <3>1. CASE Node = {}
      BY <1>3, <3>1 DEF Pointer
    <3>2. CASE Node # {}
      <4>1. 1 \in Node
        BY <1>2, <3>2
      <4>. QED
        BY <1>3, <1>5, <3>2, <4>1 DEF Pointer
    <3>. QED
      BY <3>1, <3>2
  <2>. QED
    BY <1>2, <1>3, <1>4, <2>1, <2>2 DEF TypeOK, Pointer
<1>7. IsList(next, Node, Less, first)
  <2>1. Opens(Node, Less, first)
    BY <1>2, <1>3, InLess DEF Opens
  <2>2. ASSUME NEW m \in Node
        PROVE  Follows(Node, Less, m, next[m])
    <3>1. next[m] = IF m + 1 \in Node THEN m + 1 ELSE NULL
      BY <1>3
    <3>2. \A k \in Node : <<m, k>> \in Less <=> m < k
      BY InLess
    <3>3. CASE m + 1 \in Node
      <4>1. <<m, m + 1>> \in Less
        BY <1>2, <3>3, InLess
      <4>2. \A k \in Node :
                <<m, k>> \in Less => k = m + 1 \/ <<m + 1, k>> \in Less
        BY <1>2, <3>3, InLess
      <4>. QED
        BY <3>1, <3>3, <4>1, <4>2 DEF Follows
    <3>4. CASE m + 1 \notin Node
      <4>1. \A k \in Node : ~(m < k)
        BY <1>2, <3>4
      <4>. QED
        BY <3>1, <3>2, <3>4, <4>1 DEF Follows
    <3>. QED
      BY <3>3, <3>4
  <2>. QED
    BY <2>1, <2>2 DEF IsList
<1>. DEFINE parts == [i \in 1..0 |-> {}]
<1>8. Nested(parts) /\ Kept(parts)
  BY <1>3, <1>4 DEF Nested, Kept
<1>9. Running(parts)
  BY <1>3, <1>7 DEF Running, Current
<1>. QED
  BY <1>6, <1>8, <1>9 DEF SortInv

----------------------------------------------------------------------------
(* What follows from the invariant, as long as the innermost call works on  *)
(* its own nodes.                                                           *)

LEMMA SortFacts ==
    ASSUME TypeOK, NEW parts, Nested(parts)
    PROVE  /\ begin \in Seq(Time)
           /\ NULL \notin Node /\ Node \subseteq Nat
           /\ IsOrder(Less) /\ IsOrder(Order)
           /\ stack \in Seq(Frame)
           /\ Len(stack) \in Nat
           /\ stack # <<>> => Len(stack) \in 1..Len(stack)
           /\ \A i \in 1..Len(stack) :
                 /\ stack[i] \in Frame
                 /\ parts[i] \in Division
           /\ next \in [Node -> Pointer]
<1>1. begin \in Seq(Time) /\ stack \in Seq(Frame) /\ next \in [Node -> Pointer]
  BY DEF TypeOK
<1>2. Len(stack) \in Nat /\ (stack # <<>> => Len(stack) # 0)
  BY <1>1, EmptySeq, LenProperties
<1>3. \A i \in 1..Len(stack) : stack[i] \in Frame /\ parts[i] \in Division
  BY <1>1, ElementOfSeq DEF Nested
<1>. QED
  BY <1>1, <1>2, <1>3, NodeFacts, LessOrder, SortOrder

\* The parts of a frame have no node in common.
LEMMA DividedApart ==
    ASSUME IsOrder(Order), NEW part \in Division, Divided(part)
    PROVE  part.one \intersect part.two = {}
  BY DEF Divided, IsOrder, Division

\* A change of next pointers among the nodes of the innermost frame is none of
\* the lists the frames around it keep.
LEMMA KeptAround ==
    ASSUME TypeOK, NEW parts, Nested(parts), Kept(parts), stack # <<>>,
           NEW ny,
           \A n \in Node \ Whole(parts[Len(stack)]) : ny[n] = next[n]
    PROVE  \A i \in 1..(Len(stack) - 1) : KeptList(ny, stack[i], parts[i])
<1>. SUFFICES ASSUME NEW i \in 1..(Len(stack) - 1)
              PROVE  KeptList(ny, stack[i], parts[i])
  OBVIOUS
<1>. DEFINE k == Len(stack)
<1>1. k \in Nat /\ i \in 1..k /\ k \in 1..k /\ i < k
  BY SortFacts
<1>2. /\ Whole(parts[k]) \subseteq Inner(stack[i], parts[i])
      /\ KeptList(next, stack[i], parts[i])
      /\ Divided(parts[i]) /\ parts[i] \in Division
      /\ IsOrder(Order)
  <2>. HIDE DEF k
  <2>1. Whole(parts[k]) \subseteq Inner(stack[i], parts[i])
    BY <1>1 DEF Nested, k
  <2>. QED
    BY <1>1, <2>1, SortFacts DEF Nested, Kept, k
<1>3. parts[i].one \intersect parts[i].two = {}
  BY <1>2, DividedApart
<1>4. CASE stack[i].stage = "part1"
  <2>1. \A n \in parts[i].two : ny[n] = next[n]
    BY <1>2, <1>3, <1>4 DEF Inner, Division
  <2>. QED
    BY <1>2, <1>4, <2>1, SameList DEF KeptList
<1>5. CASE stack[i].stage # "part1"
  <2>1. \A n \in parts[i].one : ny[n] = next[n]
    BY <1>2, <1>3, <1>5 DEF Inner, Division
  <2>. QED
    BY <1>2, <1>5, <2>1, SameList DEF KeptList
<1>. QED
  BY <1>4, <1>5

----------------------------------------------------------------------------
(* The steps.                                                               *)

LEMMA SameNodes ==
    begin' = begin => /\ Node' = Node /\ Pointer' = Pointer /\ Frame' = Frame
                      /\ Less' = Less /\ Order' = Order
                      /\ Division' = Division
<1>. SUFFICES ASSUME begin' = begin
              PROVE  /\ Node' = Node /\ Pointer' = Pointer /\ Frame' = Frame
                     /\ Less' = Less /\ Order' = Order
                     /\ Division' = Division
  OBVIOUS
<1>1. Node' = Node
  BY DEF Node
<1>. QED
  BY <1>1 DEF Pointer, Frame, Less, Order, Division

\* A stack with another top frame.
LEMMA NewTop ==
    ASSUME NEW S, NEW st \in Seq(S), st # <<>>, NEW f \in S
    PROVE  LET pop == SubSeq(st, 1, Len(st) - 1)
           IN  /\ Len(st) \in Nat /\ Len(st) \in 1..Len(st)
               /\ st[Len(st)] \in S
               /\ pop \in Seq(S) /\ Len(pop) = Len(st) - 1
               /\ \A i \in 1..(Len(st) - 1) : pop[i] = st[i]
               /\ Append(pop, f) \in Seq(S)
               /\ Len(Append(pop, f)) = Len(st)
               /\ Append(pop, f)[Len(st)] = f
               /\ \A i \in 1..Len(st) :
                     i # Len(st) => Append(pop, f)[i] = st[i]
<1>. DEFINE n == Len(st)
            pop == SubSeq(st, 1, n - 1)
<1>1. n \in Nat /\ n \in 1..n /\ n - 1 \in Nat
  BY EmptySeq, LenProperties
<1>2. st[n] \in S
  BY <1>1, ElementOfSeq
<1>3. 1 \in 1..(n + 1) /\ n - 1 \in (1 - 1)..n
  BY <1>1
<1>4. \A i \in 1..(n - 1) : st[i] \in S
  BY <1>1, ElementOfSeq
<1>5. /\ pop \in Seq(S) /\ Len(pop) = n - 1
      /\ \A i \in 1..(n - 1) : pop[i] = st[i]
  <2>. HIDE DEF n
  <2>1. DEFINE sub == SubSeq(st, 1, n - 1)
  <2>2. /\ sub \in Seq(S)
        /\ Len(sub) = IF 1 <= n - 1 THEN n - 1 - 1 + 1 ELSE 0
        /\ \A i \in 1..(n - 1 - 1 + 1) : sub[i] = st[1 + i - 1]
    BY <1>1, <1>4, SubSeqProperties DEF n
  <2>. HIDE DEF sub
  <2>3. Len(sub) = n - 1
    BY <1>1, <2>2
  <2>4. ASSUME NEW i \in 1..(n - 1)
        PROVE  sub[i] = st[i]
    <3>1. i \in 1..(n - 1 - 1 + 1) /\ 1 + i - 1 = i
      BY <1>1
    <3>. QED
      BY <2>2, <3>1
  <2>. QED
    BY <2>2, <2>3, <2>4 DEF sub
<1>. HIDE DEF pop
<1>6. /\ Append(pop, f) \in Seq(S)
      /\ Len(Append(pop, f)) = Len(pop) + 1
      /\ \A i \in 1..Len(pop) : Append(pop, f)[i] = pop[i]
      /\ Append(pop, f)[Len(pop) + 1] = f
  BY <1>5, AppendProperties
<1>7. ASSUME NEW i \in 1..n, i # n
      PROVE  Append(pop, f)[i] = st[i]
  BY <1>1, <1>5, <1>6, <1>7
<1>8. Len(Append(pop, f)) = n /\ Append(pop, f)[n] = f
  BY <1>1, <1>5, <1>6
<1>. QED
  BY <1>1, <1>2, <1>5, <1>6, <1>7, <1>8 DEF pop

\* Only the top frame changes, and what it divides is divided.
LEMMA NestedSame ==
    ASSUME TypeOK, NEW parts, Nested(parts), begin' = begin,
           Len(stack') = Len(stack),
           \A i \in 1..Len(stack) : i # Len(stack) => stack'[i] = stack[i],
           \A i \in 1..Len(stack) : parts[i].rest # {} => pc' = "divide"
    PROVE  Nested(parts)'
<1>1. Division' = Division /\ Node' = Node /\ Order' = Order
  BY SameNodes
<1>2. Len(stack) \in Nat
  BY SortFacts
<1>. DEFINE k == Len(stack)
<1>3. parts \in [1..Len(stack') -> Division']
  BY <1>1 DEF Nested
<1>4. ASSUME NEW i \in 1..k
      PROVE  /\ Divided(parts[i])'
             /\ parts[i].rest # {} => i = k /\ pc' = "divide"
  BY <1>1, <1>4 DEF Nested, Divided
<1>5. ASSUME NEW i \in 1..k, i = 1
      PROVE  Whole(parts[i]) = Node'
  BY <1>1, <1>5 DEF Nested
<1>6. ASSUME NEW i \in 1..k, NEW j \in 1..k, i < j
      PROVE  /\ j = i + 1 => Whole(parts[j]) = Inner(stack'[i], parts[i])
             /\ Whole(parts[j]) \subseteq Inner(stack'[i], parts[i])
  <2>1. i # k
    BY <1>2, <1>6
  <2>2. stack'[i] = stack[i]
    BY <2>1
  <2>3. /\ j = i + 1 => Whole(parts[j]) = Inner(stack[i], parts[i])
        /\ Whole(parts[j]) \subseteq Inner(stack[i], parts[i])
    BY <1>6 DEF Nested
  <2>. QED
    BY <2>2, <2>3
<1>7. \A i, j \in 1..k : j = i + 1 => i < j
  BY <1>2
<1>. QED
  BY <1>3, <1>4, <1>5, <1>6, <1>7 DEF Nested, Whole, Inner

LEMMA CurrentIn ==
    ASSUME TypeOK, NEW parts, Nested(parts)
    PROVE  Current(parts) \in SUBSET Node
<1>1. CASE stack = <<>>
  BY <1>1 DEF Current
<1>2. CASE stack # <<>>
  <2>1. Len(stack) \in 1..Len(stack) /\ parts[Len(stack)] \in Division
    BY <1>2, SortFacts
  <2>. QED
    BY <1>2, <2>1 DEF Current, Inner, Division
<1>. QED
  BY <1>1, <1>2

LEMMA TrivialSort == SortInv /\ Trivial => SortInv'
<1>. SUFFICES ASSUME SortInv, Trivial
              PROVE  SortInv'
  OBVIOUS
<1>1. PICK parts : Nested(parts) /\ Kept(parts) /\ Running(parts)
  BY DEF SortInv
<1>2. TypeOK /\ pc = "call" /\ Short(list) /\ pc' = "return"
  BY DEF SortInv, Trivial
<1>3. /\ begin' = begin /\ next' = next /\ first' = first /\ last' = last
      /\ stack' = stack /\ list' = list /\ input' = input /\ pos1' = pos1
      /\ pos2' = pos2 /\ pivot' = pivot /\ pos' = pos
  BY DEF Trivial
<1>4. Node' = Node /\ Less' = Less /\ Order' = Order /\ Pointer' = Pointer
      /\ Frame' = Frame
  BY <1>3, SameNodes
<1>5. TypeOK'
  BY <1>2, <1>3, <1>4 DEF TypeOK
<1>6. \A i \in 1..Len(stack) : parts[i].rest = {}
  BY <1>1, <1>2 DEF Nested
<1>7. Nested(parts)'
  BY <1>1, <1>2, <1>3, <1>6, NestedSame
<1>8. Kept(parts)'
  BY <1>1, <1>2, <1>3, <1>4 DEF Kept, KeptList
<1>9. IsList(next, Current(parts), Order, list)
  <2>1. IsList(next, Current(parts), Less, list)
    BY <1>1, <1>2 DEF Running
  <2>2. list # NULL => next[list] = NULL
    BY <1>2 DEF Short
  <2>. QED
    BY <1>1, <1>2, <2>1, <2>2, CurrentIn, SortFacts, ShortList
<1>10. Current(parts)' = Current(parts)
  BY <1>3, <1>4 DEF Current, Top, Inner
<1>11. Running(parts)'
  BY <1>2, <1>3, <1>4, <1>9, <1>10 DEF Running
<1>. QED
  BY <1>5, <1>7, <1>8, <1>11 DEF SortInv

LEMMA DivideSort == SortInv /\ Divide => SortInv'
<1>. SUFFICES ASSUME SortInv, Divide
              PROVE  SortInv'
  OBVIOUS
<1>1. PICK parts : Nested(parts) /\ Kept(parts) /\ Running(parts)
  BY DEF SortInv
<1>2. TypeOK /\ pc = "call" /\ ~Short(list) /\ pc' = "divide"
  BY DEF SortInv, Divide
<1>3. /\ begin' = begin /\ next' = next /\ first' = first /\ last' = last
      /\ list' = list /\ pos' = pos /\ input' = next[next[list]]
  BY DEF Divide
<1>4. Node' = Node /\ Less' = Less /\ Order' = Order /\ Pointer' = Pointer
      /\ Frame' = Frame /\ Division' = Division
  BY <1>3, SameNodes
<1>. DEFINE k == Len(stack)
<1>5. /\ begin \in Seq(Time) /\ NULL \notin Node /\ Node \subseteq Nat
      /\ IsOrder(Less) /\ IsOrder(Order)
      /\ stack \in Seq(Frame) /\ k \in Nat /\ next \in [Node -> Pointer]
      /\ \A n \in Node : n \in Int /\ begin[n] \in Int
      /\ \A n \in Node : begin[n] \in Time
  BY <1>1, <1>2, SortFacts, NodeFacts, ElementOfSeq DEF Node
<1>6. PICK C \in SUBSET Node : C = Current(parts)
  BY <1>1, <1>2, CurrentIn
<1>7. IsList(next, C, Less, list)
  BY <1>1, <1>2, <1>6 DEF Running
<1>8. list # NULL /\ next[list] # NULL
  BY <1>2 DEF Short
<1>9. /\ list \in C /\ \A m \in C \ {list} : <<list, m>> \in Less
      /\ IsList(next, C \ {list}, Less, next[list])
  BY <1>5, <1>7, <1>8, TailList
<1>. DEFINE item1 == list
            item2 == next[list]
            rest == (C \ {list}) \ {item2}
<1>10. /\ item2 \in C \ {list} /\ \A m \in rest : <<item2, m>> \in Less
       /\ IsList(next, rest, Less, next[item2])
  <2>1. PICK S, p : S \in SUBSET Node /\ S = C \ {list} /\ p = next[list]
    OBVIOUS
  <2>2. IsList(next, S, Less, p) /\ p # NULL
    BY <1>8, <1>9, <2>1
  <2>3. IsOrder(Less) /\ S \in SUBSET Node
    BY <1>5, <2>1
  <2>4. /\ p \in S
        /\ \A m \in S \ {p} : <<p, m>> \in Less
        /\ IsList(next, S \ {p}, Less, next[p])
    BY <2>2, <2>3, TailList
  <2>. QED
    BY <2>1, <2>4
<1>11. PICK p1, p2 : /\ p1 = IF Swaps(item1, item2) THEN item2 ELSE item1
                     /\ p2 = IF Swaps(item1, item2) THEN item1 ELSE item2
  OBVIOUS
<1>12. /\ stack' = Append(stack, [part1 |-> p1, part2 |-> p2,
                                  stage |-> "part1"])
       /\ pivot' = begin[p1] /\ pos1' = p1 /\ pos2' = p2
  BY <1>11 DEF Divide
<1>13. /\ p1 \in Node /\ p2 \in Node /\ p1 # p2
       /\ {p1, p2} \union rest = C
       /\ p1 \notin rest /\ p2 \notin rest
       /\ \A m \in rest : <<p1, m>> \in Less /\ <<p2, m>> \in Less
  BY <1>6, <1>9, <1>10, <1>11
<1>14. <<p1, p2>> \in Order
  <2>1. <<item1, item2>> \in Less /\ item1 \in Node /\ item2 \in Node
    BY <1>9, <1>10
  <2>2. item1 < item2
    BY <2>1, InLess
  <2>3. begin[item1] \in Int /\ begin[item2] \in Int
    BY <1>5, <2>1
  <2>4. Before(begin, p1, p2)
    <3>1. CASE Swaps(item1, item2)
      BY <1>11, <2>3, <3>1 DEF Swaps, Before
    <3>2. CASE ~Swaps(item1, item2)
      <4>1. ~(begin[item1] > begin[item2])
        BY <3>2 DEF Swaps
      <4>2. Before(begin, item1, item2)
        BY <2>2, <2>3, <4>1 DEF Before
      <4>. QED
        BY <1>11, <3>2, <4>2
    <3>. QED
      BY <3>1, <3>2
  <2>. QED
    BY <1>13, <2>4, InOrder
<1>15. begin[p1] <= begin[p2] /\ begin[p1] \in Int /\ begin[p1] \in Time
  <2>1. begin[p1] \in Int /\ begin[p2] \in Int /\ begin[p1] \in Time
    BY <1>5, <1>13
  <2>2. Before(begin, p1, p2)
    BY <1>14, InOrder
  <2>. QED
    BY <2>1, <2>2 DEF Before
<1>. HIDE DEF item1, item2
<1>16. PICK f : f = [part1 |-> p1, part2 |-> p2, stage |-> "part1"]
  OBVIOUS
<1>17. /\ f \in Frame /\ f.part1 = p1 /\ f.part2 = p2 /\ f.stage = "part1"
       /\ stack' = Append(stack, f)
  <2>1. p1 \in Pointer /\ p2 \in Pointer
    BY <1>13 DEF Pointer
  <2>. QED
    BY <1>12, <1>16, <2>1 DEF Frame
<1>18. /\ stack' \in Seq(Frame) /\ Len(stack') = k + 1 /\ stack'[k + 1] = f
       /\ \A i \in 1..k : stack'[i] = stack[i]
  BY <1>5, <1>17, AppendProperties
<1>19. PICK part : part = [one |-> {p1}, two |-> {p2}, rest |-> rest]
  OBVIOUS
<1>20. /\ part \in Division
       /\ part.one = {p1} /\ part.two = {p2} /\ part.rest = rest
  <2>1. rest \in SUBSET Node
    BY <1>6
  <2>. HIDE DEF rest
  <2>. QED
    BY <1>13, <1>19, <2>1 DEF Division
<1>21. Whole(part) = C
  BY <1>13, <1>20 DEF Whole
<1>. HIDE DEF rest
<1>22. PICK new : new = [i \in 1..(k + 1) |-> IF i = k + 1 THEN part
                                              ELSE parts[i]]
  OBVIOUS
<1>. HIDE DEF k
<1>23. /\ k + 1 \in 1..(k + 1) /\ k + 1 \in Nat
       /\ \A i : i \in 1..(k + 1) <=> (i \in 1..k \/ i = k + 1)
       /\ \A i \in 1..k : i # k + 1
  BY <1>5
<1>24. new[k + 1] = part /\ \A i \in 1..k : new[i] = parts[i]
  BY <1>22, <1>23
<1>25. /\ parts \in [1..k -> Division]
       /\ \A i \in 1..k : Divided(parts[i]) /\ parts[i].rest = {}
       /\ \A i \in 1..k : i = 1 => Whole(parts[i]) = Node
       /\ \A i, j \in 1..k :
             /\ j = i + 1 => Whole(parts[j]) = Inner(stack[i], parts[i])
             /\ i < j => Whole(parts[j]) \subseteq Inner(stack[i], parts[i])
  BY <1>1, <1>2 DEF Nested, k
<1>26. k = 0 => C = Node
  <2>1. k = 0 => stack = <<>>
    BY <1>5, EmptySeq DEF k
  <2>. QED
    BY <1>6, <2>1 DEF Current
<1>27. k # 0 => k \in 1..k /\ C = Inner(stack[k], parts[k])
  <2>1. k # 0 => k \in 1..k /\ stack # <<>>
    BY <1>5, EmptySeq DEF k
  <2>. QED
    BY <1>6, <2>1 DEF Current, Top, k
<1>28. Divided(part)'
  <2>1. \A n \in part.rest : n \notin part.one /\ n \notin part.two
    BY <1>13, <1>20
  <2>2. \A a \in part.one, b \in part.two : <<a, b>> \in Order'
    BY <1>4, <1>14, <1>20
  <2>. QED
    BY <1>20, <2>1, <2>2 DEF Divided
<1>29. Nested(new)'
  <2>1. new \in [1..Len(stack') -> Division']
    BY <1>4, <1>18, <1>20, <1>22, <1>23, <1>25
  <2>2. ASSUME NEW i \in 1..(k + 1)
        PROVE  /\ Divided(new[i])'
               /\ new[i].rest # {} => i = k + 1
    <3>1. CASE i = k + 1
      BY <1>24, <1>28, <3>1
    <3>2. CASE i \in 1..k
      <4>1. Divided(parts[i])'
        BY <1>4, <1>25, <3>2 DEF Divided
      <4>. QED
        BY <1>24, <1>25, <3>2, <4>1
    <3>. QED
      BY <1>23, <3>1, <3>2
  <2>3. ASSUME NEW i \in 1..(k + 1), i = 1
        PROVE  Whole(new[i]) = Node'
    <3>1. CASE k = 0
      BY <1>4, <1>21, <1>24, <1>26, <2>3, <3>1
    <3>2. CASE k # 0
      <4>1. i \in 1..k
        BY <1>5, <2>3, <3>2
      <4>. QED
        BY <1>4, <1>24, <1>25, <2>3, <4>1
    <3>. QED
      BY <3>1, <3>2
  <2>4. ASSUME NEW i \in 1..(k + 1), NEW j \in 1..(k + 1), i < j
        PROVE  /\ j = i + 1 => Whole(new[j]) = Inner(stack'[i], new[i])
               /\ Whole(new[j]) \subseteq Inner(stack'[i], new[i])
    <3>1. i \in 1..k /\ (j \in 1..k \/ j = k + 1)
      BY <1>5, <2>4
    <3>2. Inner(stack'[i], new[i]) = Inner(stack[i], parts[i])
      BY <1>18, <1>24, <3>1
    <3>3. CASE j \in 1..k
      BY <1>24, <1>25, <2>4, <3>1, <3>2, <3>3
    <3>4. CASE j = k + 1
      <4>1. k # 0 /\ k \in 1..k /\ C = Inner(stack[k], parts[k])
        BY <1>5, <1>27, <3>1
      <4>2. Whole(new[j]) = C
        BY <1>21, <1>24, <3>4
      <4>3. CASE i = k
        BY <3>2, <4>1, <4>2, <4>3
      <4>4. CASE i # k
        <5>1. i < k /\ j # i + 1
          BY <1>5, <3>1, <3>4, <4>4
        <5>2. Whole(parts[k]) \subseteq Inner(stack[i], parts[i])
          BY <1>25, <3>1, <4>1, <5>1
        <5>3. C \subseteq Whole(parts[k])
          BY <4>1 DEF Inner, Whole
        <5>. QED
          BY <3>2, <4>2, <5>1, <5>2, <5>3
      <4>. QED
        BY <4>3, <4>4
    <3>. QED
      BY <3>1, <3>3, <3>4
  <2>5. \A i, j \in 1..(k + 1) : j = i + 1 => i < j
    BY <1>5
  <2>. QED
    BY <1>2, <1>18, <2>1, <2>2, <2>3, <2>4, <2>5
    DEF Nested, Whole, Inner
<1>30. Kept(new)'
  <2>1. ASSUME NEW i \in 1..(k + 1), i < k + 1
        PROVE  KeptList(next, stack[i], new[i])'
    <3>1. i \in 1..k
      BY <1>23, <2>1
    <3>2. KeptList(next, stack[i], parts[i])
      BY <1>1, <1>2, <3>1 DEF Kept, k
    <3>3. stack'[i] = stack[i] /\ new[i] = parts[i]
      BY <1>18, <1>24, <3>1
    <3>. QED
      BY <1>3, <1>4, <3>2, <3>3 DEF KeptList
  <2>. QED
    BY <1>2, <1>18, <2>1 DEF Kept
<1>31. Dividing(f, part)'
  <2>1. IsPart(next, {p1}, Less, p1, p1) /\ IsPart(next, {p2}, Less, p2, p2)
    BY <1>13, OnePart
  <2>2. \A m \in part.rest, n \in part.one \union part.two :
            <<n, m>> \in Less
    BY <1>13, <1>20
  <2>3. IsList(next, part.rest, Less, input')
    BY <1>3, <1>10, <1>20 DEF rest, item2
  <2>4. /\ \A a \in part.one : begin[a] <= begin[p1]
        /\ \A b \in part.two : begin[b] >= begin[p1]
    BY <1>5, <1>13, <1>15, <1>20
  <2>. QED
    BY <1>3, <1>4, <1>12, <1>17, <1>20, <2>1, <2>2, <2>3, <2>4 DEF Dividing
<1>32. Running(new)'
  <2>1. stack' # <<>> /\ Top' = f /\ new[Len(stack')] = part
    BY <1>5, <1>18, <1>24, EmptySeq DEF Top
  <2>. QED
    BY <1>2, <1>31, <2>1 DEF Running, Dividing
<1>33. TypeOK'
  <2>1. next[list] \in Pointer /\ next[list] \in Node
    BY <1>5, <1>6, <1>9, <1>10 DEF item2
  <2>2. next[next[list]] \in Pointer
    BY <1>5, <2>1
  <2>3. p1 \in Pointer /\ p2 \in Pointer /\ p1 # NULL /\ p2 # NULL
    BY <1>5, <1>13 DEF Pointer
  <2>4. {first', last', list', input', pos1', pos2', pos'} \subseteq Pointer
    BY <1>2, <1>3, <1>12, <2>2, <2>3 DEF TypeOK
  <2>5. begin' \in Seq(Time) /\ next' \in [Node' -> Pointer']
        /\ stack' \in Seq(Frame') /\ pivot' \in Time
    BY <1>3, <1>4, <1>5, <1>12, <1>15, <1>18
  <2>. QED
    BY <1>2, <1>4, <1>12, <2>3, <2>4, <2>5 DEF TypeOK
<1>. QED
  BY <1>29, <1>30, <1>32, <1>33 DEF SortInv

\* What the loop of dpl_list_sort_quick_divide finds.
LEMMA LoopFacts ==
    ASSUME TypeOK, NEW parts, Nested(parts), Running(parts), pc = "divide"
    PROVE  LET part == parts[Len(stack)]
           IN  /\ stack # <<>> /\ Len(stack) \in 1..Len(stack)
               /\ Top \in Frame /\ Top = stack[Len(stack)]
               /\ part \in Division
               /\ part.one \in SUBSET Node /\ part.two \in SUBSET Node
               /\ part.rest \in SUBSET Node
               /\ Divided(part) /\ Dividing(Top, part)
               /\ pos1 \in part.one /\ pos2 \in part.two
               /\ part.one \intersect part.two = {}
               /\ part.one \intersect part.rest = {}
               /\ part.two \intersect part.rest = {}
<1>. DEFINE k == Len(stack)
            part == parts[k]
<1>1. stack # <<>> /\ Dividing(Top, part)
  BY DEF Running
<1>2. k \in 1..k /\ Top \in Frame /\ Top = stack[k] /\ part \in Division
  BY <1>1, SortFacts DEF Top
<1>3. Divided(part)
  BY <1>2 DEF Nested
<1>4. part.one \intersect part.two = {}
  BY <1>2, <1>3, DividedApart, SortFacts
<1>5. pos1 \in part.one /\ pos2 \in part.two
  BY <1>1 DEF Dividing, IsPart, Ends
<1>. HIDE DEF part, k
<1>6. /\ part.one \in SUBSET Node /\ part.two \in SUBSET Node
      /\ part.rest \in SUBSET Node
  BY <1>2 DEF Division
<1>7. /\ part.one \intersect part.rest = {}
      /\ part.two \intersect part.rest = {}
  BY <1>3 DEF Divided
<1>. QED
  BY <1>1, <1>2, <1>3, <1>4, <1>5, <1>6, <1>7 DEF part, k

\* The next item goes to one of the two parts.
LEMMA ItemSort ==
    SortInv /\ DivideNext =>
        \A parts : Nested(parts) /\ Kept(parts) /\ Running(parts) =>
            \E part \in Division :
                /\ Whole(part) = Whole(parts[Len(stack)])
                /\ Divided(part)'
                /\ Dividing(Top, part)'
                /\ input \in Node
<1>. SUFFICES ASSUME SortInv, DivideNext, NEW parts, Nested(parts),
                     Kept(parts), Running(parts)
              PROVE  \E part \in Division :
                         /\ Whole(part) = Whole(parts[Len(stack)])
                         /\ Divided(part)'
                         /\ Dividing(Top, part)'
                         /\ input \in Node
  OBVIOUS
<1>1. TypeOK /\ pc = "divide" /\ input # NULL
  BY DEF SortInv, DivideNext
<1>2. /\ begin' = begin /\ stack' = stack /\ pivot' = pivot
      /\ input' = next[input]
  BY DEF DivideNext
<1>3. Node' = Node /\ Less' = Less /\ Order' = Order /\ Top' = Top
  BY <1>2, SameNodes DEF Top
<1>4. /\ begin \in Seq(Time) /\ NULL \notin Node
      /\ IsOrder(Less) /\ IsOrder(Order) /\ next \in [Node -> Pointer]
      /\ \A n \in Node : n \in Int /\ begin[n] \in Int
  BY <1>1, SortFacts, NodeFacts
<1>5. PICK old, one, two, rest : /\ old = parts[Len(stack)]
                                 /\ one = old.one /\ two = old.two
                                 /\ rest = old.rest
  OBVIOUS
<1>6. /\ one \in SUBSET Node /\ two \in SUBSET Node /\ rest \in SUBSET Node
      /\ Divided(old) /\ Dividing(Top, old) /\ Top \in Frame
      /\ pos1 \in one /\ pos2 \in two
      /\ one \intersect two = {}
      /\ one \intersect rest = {} /\ two \intersect rest = {}
  BY <1>1, <1>5, LoopFacts
<1>7. /\ Top.stage = "part1"
      /\ IsPart(next, one, Less, Top.part1, pos1)
      /\ IsPart(next, two, Less, Top.part2, pos2)
      /\ IsList(next, rest, Less, input)
      /\ \A m \in rest, n \in one \union two : <<n, m>> \in Less
      /\ pivot = begin[Top.part1]
      /\ \A a \in one : begin[a] <= pivot
      /\ \A b \in two : begin[b] >= pivot
  BY <1>5, <1>6 DEF Dividing
<1>8. PICK x : x = input
  OBVIOUS
<1>9. /\ x \in rest /\ \A m \in rest \ {x} : <<x, m>> \in Less
      /\ IsList(next, rest \ {x}, Less, next[x])
  BY <1>1, <1>4, <1>6, <1>7, <1>8, TailList
<1>10. x \in Node /\ \A n \in one \union two : <<n, x>> \in Less
  BY <1>6, <1>7, <1>9
<1>11. /\ \A a \in one, b \in two : <<a, b>> \in Order
       /\ one # {} /\ two # {}
  BY <1>5, <1>6 DEF Divided
<1>12. pivot \in Int
  <2>1. Top.part1 \in Node
    BY <1>6, <1>7 DEF IsPart, Opens
  <2>. QED
    BY <1>4, <1>7, <2>1
<1>13. rest \ {x} \in SUBSET Node
  BY <1>6
<1>14. CASE begin[x] < pivot
  <2>1. next' = [next EXCEPT ![pos1] = x] /\ pos1' = x /\ pos2' = pos2
    BY <1>8, <1>14 DEF DivideNext
  <2>2. next'[pos1] = x /\ \A n \in Node : n # pos1 => next'[n] = next[n]
    BY <1>4, <1>6, <2>1
  <2>3. IsPart(next', one \union {x}, Less, Top.part1, x)
    <3>1. \A n \in one \ {pos1} : next'[n] = next[n]
      BY <1>6, <2>2
    <3>2. \A n \in one : <<n, x>> \in Less
      BY <1>10
    <3>. QED
      BY <1>4, <1>6, <1>7, <1>10, <2>2, <3>1, <3>2, LongerPart
  <2>4. IsPart(next', two, Less, Top.part2, pos2)
    <3>1. \A n \in two \ {pos2} : next'[n] = next[n]
      BY <1>6, <2>2
    <3>. QED
      BY <1>7, <3>1, SamePart
  <2>5. IsList(next', rest \ {x}, Less, next[x])
    <3>1. \A n \in rest \ {x} : next'[n] = next[n]
      BY <1>6, <2>2
    <3>. QED
      BY <1>9, <3>1, SameList
  <2>6. PICK part : part = [one |-> one \union {x}, two |-> two,
                            rest |-> rest \ {x}]
    OBVIOUS
  <2>7. part \in Division /\ part.one = one \union {x} /\ part.two = two
        /\ part.rest = rest \ {x}
    BY <1>6, <1>10, <1>13, <2>6 DEF Division
  <2>8. \A b \in two : <<x, b>> \in Order
    <3>. SUFFICES ASSUME NEW b \in two
                  PROVE  <<x, b>> \in Order
      OBVIOUS
    <3>1. begin[b] >= pivot /\ begin[b] \in Int /\ begin[x] \in Int
          /\ b \in Node
      BY <1>4, <1>6, <1>7, <1>10
    <3>2. begin[x] < begin[b]
      BY <1>12, <1>14, <3>1
    <3>. QED
      BY <1>10, <3>1, <3>2, InOrder DEF Before
  <2>9. Divided(part)'
    <3>1. part.one # {} /\ part.two # {}
      BY <1>11, <2>7
    <3>2. \A a \in part.one, b \in part.two : <<a, b>> \in Order
      BY <1>11, <2>7, <2>8
    <3>3. \A n \in part.rest : n \notin part.one /\ n \notin part.two
      BY <1>6, <2>7
    <3>. QED
      BY <1>3, <3>1, <3>2, <3>3 DEF Divided
  <2>10. Dividing(Top, part)'
    <3>1. \A m \in part.rest, n \in part.one \union part.two :
              <<n, m>> \in Less
      BY <1>7, <1>9, <2>7
    <3>2. \A a \in part.one : begin[a] <= pivot
      <4>1. begin[x] <= pivot
        BY <1>4, <1>10, <1>12, <1>14
      <4>. QED
        BY <1>7, <2>7, <4>1
    <3>. QED
      BY <1>2, <1>3, <1>7, <1>8, <2>1, <2>3, <2>4, <2>5, <2>7, <3>1, <3>2
      DEF Dividing
  <2>11. Whole(part) = Whole(old)
    BY <1>5, <1>9, <2>7 DEF Whole
  <2>. QED
    BY <1>5, <1>8, <1>10, <2>7, <2>9, <2>10, <2>11
<1>15. CASE ~(begin[x] < pivot)
  <2>1. next' = [next EXCEPT ![pos2] = x] /\ pos2' = x /\ pos1' = pos1
    BY <1>8, <1>15 DEF DivideNext
  <2>2. next'[pos2] = x /\ \A n \in Node : n # pos2 => next'[n] = next[n]
    BY <1>4, <1>6, <2>1
  <2>3. IsPart(next', two \union {x}, Less, Top.part2, x)
    <3>1. \A n \in two \ {pos2} : next'[n] = next[n]
      BY <1>6, <2>2
    <3>2. \A n \in two : <<n, x>> \in Less
      BY <1>10
    <3>. QED
      BY <1>4, <1>6, <1>7, <1>10, <2>2, <3>1, <3>2, LongerPart
  <2>4. IsPart(next', one, Less, Top.part1, pos1)
    <3>1. \A n \in one \ {pos1} : next'[n] = next[n]
      BY <1>6, <2>2
    <3>. QED
      BY <1>7, <3>1, SamePart
  <2>5. IsList(next', rest \ {x}, Less, next[x])
    <3>1. \A n \in rest \ {x} : next'[n] = next[n]
      BY <1>6, <2>2
    <3>. QED
      BY <1>9, <3>1, SameList
  <2>6. PICK part : part = [one |-> one, two |-> two \union {x},
                            rest |-> rest \ {x}]
    OBVIOUS
  <2>7. part \in Division /\ part.two = two \union {x} /\ part.one = one
        /\ part.rest = rest \ {x}
    BY <1>6, <1>10, <1>13, <2>6 DEF Division
  <2>8. \A a \in one : <<a, x>> \in Order
    <3>. SUFFICES ASSUME NEW a \in one
                  PROVE  <<a, x>> \in Order
      OBVIOUS
    <3>1. begin[a] <= pivot /\ begin[a] \in Int /\ begin[x] \in Int
          /\ a \in Node
      BY <1>4, <1>6, <1>7, <1>10
    <3>2. begin[a] <= begin[x]
      BY <1>12, <1>15, <3>1
    <3>3. a < x
      BY <1>10, InLess
    <3>4. begin[a] < begin[x] \/ begin[a] = begin[x]
      BY <3>1, <3>2
    <3>. QED
      BY <1>10, <3>1, <3>3, <3>4, InOrder DEF Before
  <2>9. Divided(part)'
    <3>1. part.one # {} /\ part.two # {}
      BY <1>11, <2>7
    <3>2. \A a \in part.one, b \in part.two : <<a, b>> \in Order
      BY <1>11, <2>7, <2>8
    <3>3. \A n \in part.rest : n \notin part.one /\ n \notin part.two
      BY <1>6, <2>7
    <3>. QED
      BY <1>3, <3>1, <3>2, <3>3 DEF Divided
  <2>10. Dividing(Top, part)'
    <3>1. \A m \in part.rest, n \in part.one \union part.two :
              <<n, m>> \in Less
      BY <1>7, <1>9, <2>7
    <3>2. \A b \in part.two : begin[b] >= pivot
      <4>1. begin[x] >= pivot
        BY <1>4, <1>10, <1>12, <1>15
      <4>. QED
        BY <1>7, <2>7, <4>1
    <3>. QED
      BY <1>2, <1>3, <1>7, <1>8, <2>1, <2>3, <2>4, <2>5, <2>7, <3>1, <3>2
      DEF Dividing
  <2>11. Whole(part) = Whole(old)
    BY <1>5, <1>9, <2>7 DEF Whole
  <2>. QED
    BY <1>5, <1>8, <1>10, <2>7, <2>9, <2>10, <2>11
<1>. QED
  BY <1>14, <1>15

LEMMA DivideNextSort == SortInv /\ DivideNext => SortInv'
<1>. SUFFICES ASSUME SortInv, DivideNext
              PROVE  SortInv'
  OBVIOUS
<1>1. PICK parts : Nested(parts) /\ Kept(parts) /\ Running(parts)
  BY DEF SortInv
<1>2. TypeOK /\ pc = "divide" /\ input # NULL
  BY DEF SortInv, DivideNext
<1>3. /\ begin' = begin /\ first' = first /\ last' = last /\ stack' = stack
      /\ pc' = pc /\ list' = list /\ pivot' = pivot /\ pos' = pos
      /\ input' = next[input]
  BY DEF DivideNext
<1>4. Node' = Node /\ Less' = Less /\ Order' = Order /\ Pointer' = Pointer
      /\ Frame' = Frame /\ Division' = Division /\ Top' = Top
  BY <1>3, SameNodes DEF Top
<1>. DEFINE k == Len(stack)
<1>5. stack # <<>> /\ k \in Nat /\ k \in 1..k /\ next \in [Node -> Pointer]
      /\ NULL \notin Node
  BY <1>1, <1>2, LoopFacts, SortFacts
<1>6. PICK part \in Division : /\ Whole(part) = Whole(parts[k])
                               /\ Divided(part)'
                               /\ Dividing(Top, part)'
                               /\ input \in Node
  BY <1>1, ItemSort
<1>. HIDE DEF k
<1>7. PICK new : new = [i \in 1..k |-> IF i = k THEN part ELSE parts[i]]
  OBVIOUS
<1>8. new[k] = part /\ \A i \in 1..k : i # k => new[i] = parts[i]
  BY <1>5, <1>7
<1>9. /\ parts \in [1..k -> Division]
      /\ \A i \in 1..k : Divided(parts[i]) /\ (parts[i].rest # {} => i = k)
      /\ \A i \in 1..k : i = 1 => Whole(parts[i]) = Node
      /\ \A i, j \in 1..k :
            /\ j = i + 1 => Whole(parts[j]) = Inner(stack[i], parts[i])
            /\ i < j => Whole(parts[j]) \subseteq Inner(stack[i], parts[i])
  BY <1>1 DEF Nested, k
<1>10. \A i \in 1..k : Whole(new[i]) = Whole(parts[i])
  BY <1>6, <1>8
<1>11. Nested(new)'
  <2>1. new \in [1..k -> Division']
    BY <1>4, <1>6, <1>7, <1>9
  <2>2. ASSUME NEW i \in 1..k
        PROVE  Divided(new[i])' /\ (new[i].rest # {} => i = k)
    <3>1. CASE i = k
      BY <1>6, <1>8, <3>1
    <3>2. CASE i # k
      <4>1. Divided(parts[i])'
        BY <1>4, <1>9 DEF Divided
      <4>. QED
        BY <1>8, <1>9, <3>2, <4>1
    <3>. QED
      BY <3>1, <3>2
  <2>3. \A i \in 1..k : i = 1 => Whole(new[i]) = Node'
    BY <1>4, <1>9, <1>10
  <2>4. ASSUME NEW i \in 1..k, NEW j \in 1..k, i < j
        PROVE  /\ j = i + 1 => Whole(new[j]) = Inner(stack[i], new[i])
               /\ Whole(new[j]) \subseteq Inner(stack[i], new[i])
    <3>1. new[i] = parts[i]
      BY <1>5, <1>8, <2>4
    <3>. QED
      BY <1>9, <1>10, <2>4, <3>1
  <2>5. \A i, j \in 1..k : j = i + 1 => i < j
    BY <1>5
  <2>6. Len(stack') = k
    BY <1>3 DEF k
  <2>. QED
    BY <1>2, <1>3, <2>1, <2>2, <2>3, <2>4, <2>5, <2>6
    DEF Nested, Whole, Inner
<1>12. \A n \in Node \ Whole(parts[k]) : next'[n] = next[n]
  <2>1. pos1 \in parts[k].one /\ pos2 \in parts[k].two
    BY <1>1, <1>2, LoopFacts DEF k
  <2>2. \A n \in Node : n # pos1 /\ n # pos2 => next'[n] = next[n]
    BY <1>5 DEF DivideNext
  <2>. QED
    BY <2>1, <2>2 DEF Whole
<1>13. Kept(new)'
  <2>1. ASSUME NEW i \in 1..k, i < k
        PROVE  KeptList(next, stack[i], new[i])'
    <3>1. i \in 1..(k - 1) /\ new[i] = parts[i]
      BY <1>5, <1>8, <2>1
    <3>2. \A j \in 1..(k - 1) : KeptList(next', stack[j], parts[j])
      BY <1>1, <1>2, <1>5, <1>12, KeptAround DEF k
    <3>3. KeptList(next', stack[i], parts[i])
      BY <3>1, <3>2
    <3>. QED
      BY <1>3, <1>4, <3>1, <3>3 DEF KeptList
  <2>. QED
    BY <1>2, <1>3, <2>1 DEF Kept, k
<1>14. Running(new)'
  <2>1. stack' # <<>> /\ new[Len(stack')] = part
    BY <1>3, <1>5, <1>8 DEF k
  <2>. QED
    BY <1>2, <1>3, <1>4, <1>6, <2>1 DEF Running, Dividing
<1>15. TypeOK'
  <2>1. input \in Pointer /\ pos1 \in Pointer /\ pos2 \in Pointer
        /\ pos1 # NULL /\ pos2 # NULL
    BY <1>2 DEF TypeOK
  <2>2. next[input] \in Pointer
    BY <1>5, <1>6
  <2>3. next' \in [Node -> Pointer] /\ pos1' \in {pos1, input}
        /\ pos2' \in {pos2, input}
    BY <1>5, <2>1 DEF DivideNext
  <2>4. pos1' \in Pointer /\ pos2' \in Pointer /\ pos1' # NULL /\ pos2' # NULL
    BY <1>2, <2>1, <2>3
  <2>. QED
    BY <1>2, <1>3, <1>4, <2>2, <2>3, <2>4 DEF TypeOK
<1>. QED
  BY <1>11, <1>13, <1>14, <1>15 DEF SortInv

LEMMA DivideEndSort == SortInv /\ DivideEnd => SortInv'
<1>. SUFFICES ASSUME SortInv, DivideEnd
              PROVE  SortInv'
  OBVIOUS
<1>1. PICK parts : Nested(parts) /\ Kept(parts) /\ Running(parts)
  BY DEF SortInv
<1>2. TypeOK /\ pc = "divide" /\ input = NULL /\ pc' = "call"
  BY DEF SortInv, DivideEnd
<1>3. /\ begin' = begin /\ first' = first /\ last' = last /\ stack' = stack
      /\ input' = input /\ pos1' = pos1 /\ pos2' = pos2 /\ pivot' = pivot
      /\ pos' = pos
      /\ list' = Top.part1
      /\ next' = [next EXCEPT ![pos1] = NULL, ![pos2] = NULL]
  BY DEF DivideEnd
<1>4. Node' = Node /\ Less' = Less /\ Order' = Order /\ Pointer' = Pointer
      /\ Frame' = Frame /\ Top' = Top
  BY <1>3, SameNodes DEF Top
<1>. DEFINE k == Len(stack)
<1>5. stack # <<>> /\ k \in Nat /\ k \in 1..k /\ next \in [Node -> Pointer]
      /\ NULL \notin Node /\ IsOrder(Less)
  BY <1>1, <1>2, LoopFacts, SortFacts
<1>. HIDE DEF k
<1>6. PICK one, two, rest : /\ one = parts[k].one /\ two = parts[k].two
                            /\ rest = parts[k].rest
  OBVIOUS
<1>7. /\ one \in SUBSET Node /\ two \in SUBSET Node /\ rest \in SUBSET Node
      /\ pos1 \in one /\ pos2 \in two
      /\ one \intersect two = {}
      /\ Top \in Frame /\ Top = stack[k]
      /\ Dividing(Top, parts[k])
  BY <1>1, <1>2, <1>6, LoopFacts DEF k
<1>8. /\ Top.stage = "part1"
      /\ IsPart(next, one, Less, Top.part1, pos1)
      /\ IsPart(next, two, Less, Top.part2, pos2)
      /\ IsList(next, rest, Less, NULL)
  BY <1>2, <1>6, <1>7 DEF Dividing
<1>9. rest = {}
  BY <1>5, <1>7, <1>8 DEF IsList, Opens
<1>10. /\ next'[pos1] = NULL /\ next'[pos2] = NULL
       /\ \A n \in Node : n # pos1 /\ n # pos2 => next'[n] = next[n]
       /\ next' \in [Node -> Pointer]
  BY <1>3, <1>5, <1>7 DEF Pointer
<1>11. IsList(next', one, Less, Top.part1)
  <2>1. \A n \in one \ {pos1} : next'[n] = next[n]
    BY <1>7, <1>10
  <2>. QED
    BY <1>5, <1>7, <1>8, <1>10, <2>1, EndedPart
<1>12. IsList(next', two, Less, Top.part2)
  <2>1. \A n \in two \ {pos2} : next'[n] = next[n]
    BY <1>7, <1>10
  <2>. QED
    BY <1>5, <1>7, <1>8, <1>10, <2>1, EndedPart
<1>13. Nested(parts)'
  <2>1. \A i \in 1..Len(stack) : parts[i].rest = {}
    BY <1>1, <1>6, <1>9 DEF Nested, k
  <2>. QED
    BY <1>1, <1>2, <1>3, <2>1, NestedSame
<1>14. Kept(parts)'
  <2>1. \A n \in Node \ Whole(parts[k]) : next'[n] = next[n]
    BY <1>6, <1>7, <1>10 DEF Whole
  <2>2. \A i \in 1..(k - 1) : KeptList(next', stack[i], parts[i])
    BY <1>1, <1>2, <1>5, <2>1, KeptAround DEF k
  <2>3. KeptList(next', stack[k], parts[k])
    BY <1>6, <1>7, <1>8, <1>12 DEF KeptList
  <2>4. \A i \in 1..k : KeptList(next', stack[i], parts[i])
    <3>1. \A i \in 1..k : i = k \/ i \in 1..(k - 1)
      BY <1>5
    <3>. QED
      BY <2>2, <2>3, <3>1
  <2>5. ASSUME NEW i \in 1..k
        PROVE  KeptList(next, stack[i], parts[i])'
    <3>1. KeptList(next', stack[i], parts[i])
      BY <2>4
    <3>. QED
      BY <1>3, <1>4, <3>1 DEF KeptList
  <2>. QED
    BY <1>3, <2>5 DEF Kept, k
<1>15. Running(parts)'
  <2>1. Current(parts)' = one
    BY <1>3, <1>4, <1>5, <1>6, <1>8 DEF Current, Inner, k
  <2>. QED
    BY <1>2, <1>3, <1>4, <1>11, <2>1 DEF Running
<1>16. TypeOK'
  <2>1. Top.part1 \in Pointer
    BY <1>7 DEF Frame
  <2>. QED
    BY <1>2, <1>3, <1>4, <1>10, <2>1 DEF TypeOK
<1>. QED
  BY <1>13, <1>14, <1>15, <1>16 DEF SortInv

\* Where an inner call has returned to.
LEMMA ReturnFacts ==
    ASSUME TypeOK, NEW parts, Nested(parts), Kept(parts), stack # <<>>,
           pc # "divide"
    PROVE  LET part == parts[Len(stack)]
           IN  /\ Len(stack) \in Nat /\ Len(stack) \in 1..Len(stack)
               /\ Top \in Frame /\ Top = stack[Len(stack)]
               /\ part.one \in SUBSET Node /\ part.two \in SUBSET Node
               /\ part.one # {} /\ part.two # {} /\ part.rest = {}
               /\ Whole(part) = part.one \union part.two
               /\ KeptList(next, Top, part)
               /\ Current(parts) = Inner(Top, part)
               /\ \A a \in part.one, b \in part.two : <<a, b>> \in Order
<1>. DEFINE k == Len(stack)
            part == parts[k]
<1>1. k \in Nat /\ k \in 1..k /\ Top = stack[k] /\ Top \in Frame
      /\ part \in Division
  BY SortFacts DEF Top
<1>2. Divided(part) /\ part.rest = {} /\ KeptList(next, Top, part)
  BY <1>1 DEF Nested, Kept
<1>3. Current(parts) = Inner(Top, part)
  BY DEF Current
<1>. HIDE DEF part, k
<1>4. Whole(part) = part.one \union part.two
  BY <1>2 DEF Whole
<1>5. /\ part.one \in SUBSET Node /\ part.two \in SUBSET Node
      /\ part.one # {} /\ part.two # {}
      /\ \A a \in part.one, b \in part.two : <<a, b>> \in Order
  BY <1>1, <1>2 DEF Division, Divided
<1>. QED
  BY <1>1, <1>2, <1>3, <1>4, <1>5 DEF part, k

LEMMA ReturnPart1Sort == SortInv /\ ReturnPart1 => SortInv'
<1>. SUFFICES ASSUME SortInv, ReturnPart1
              PROVE  SortInv'
  OBVIOUS
<1>1. PICK parts : Nested(parts) /\ Kept(parts) /\ Running(parts)
  BY DEF SortInv
<1>2. /\ TypeOK /\ pc = "return" /\ stack # <<>> /\ Top.stage = "part1"
      /\ pc' = "call"
  BY DEF SortInv, ReturnPart1
<1>3. /\ begin' = begin /\ next' = next /\ first' = first /\ last' = last
      /\ input' = input /\ pos1' = pos1 /\ pos2' = pos2 /\ pivot' = pivot
      /\ pos' = pos
      /\ list' = Top.part2
  BY DEF ReturnPart1
<1>4. Node' = Node /\ Less' = Less /\ Order' = Order /\ Pointer' = Pointer
      /\ Frame' = Frame
  BY <1>3, SameNodes
<1>. DEFINE k == Len(stack)
<1>5. /\ k \in Nat /\ k \in 1..k /\ stack \in Seq(Frame)
      /\ Top \in Frame /\ Top = stack[k]
  BY <1>1, <1>2, ReturnFacts, SortFacts
<1>6. PICK f : f = [Top EXCEPT !.part1 = list, !.stage = "part2"]
  OBVIOUS
<1>7. /\ f \in Frame /\ f.part1 = list /\ f.part2 = Top.part2
      /\ f.stage = "part2"
      /\ stack' = Append(Pop, f)
  <2>1. list \in Pointer
    BY <1>2 DEF TypeOK
  <2>. QED
    BY <1>5, <1>6, <2>1 DEF Frame, ReturnPart1
<1>8. /\ stack' \in Seq(Frame) /\ Len(stack') = k /\ stack'[k] = f
      /\ \A i \in 1..k : i # k => stack'[i] = stack[i]
  BY <1>2, <1>5, <1>7, NewTop DEF Pop
<1>. HIDE DEF k
<1>9. stack' # <<>> /\ Top' = f
  BY <1>5, <1>8, EmptySeq DEF Top
<1>10. PICK one, two : one = parts[k].one /\ two = parts[k].two
  OBVIOUS
<1>11. /\ IsList(next, one, Order, list)
       /\ IsList(next, two, Less, Top.part2)
  <2>1. Current(parts) = one /\ KeptList(next, Top, parts[k])
    BY <1>1, <1>2, <1>10, ReturnFacts DEF Inner, k
  <2>. QED
    BY <1>1, <1>2, <1>10, <2>1 DEF Running, KeptList
<1>12. Nested(parts)'
  <2>1. \A i \in 1..Len(stack) : parts[i].rest = {}
    BY <1>1, <1>2 DEF Nested
  <2>. QED
    BY <1>1, <1>2, <1>3, <1>8, <2>1, NestedSame DEF k
<1>13. Kept(parts)'
  <2>1. ASSUME NEW i \in 1..k
        PROVE  KeptList(next, stack[i], parts[i])'
    <3>1. CASE i = k
      BY <1>3, <1>4, <1>7, <1>8, <1>10, <1>11, <3>1 DEF KeptList
    <3>2. CASE i # k
      <4>1. stack'[i] = stack[i]
        BY <1>8, <3>2
      <4>2. KeptList(next, stack[i], parts[i])
        BY <1>1, <1>2 DEF Kept, k
      <4>. QED
        BY <1>3, <1>4, <4>1, <4>2 DEF KeptList
    <3>. QED
      BY <3>1, <3>2
  <2>. QED
    BY <1>8, <2>1 DEF Kept
<1>14. Running(parts)'
  <2>1. Current(parts)' = two
    BY <1>7, <1>8, <1>9, <1>10 DEF Current, Inner
  <2>. QED
    BY <1>2, <1>3, <1>4, <1>11, <2>1 DEF Running
<1>15. TypeOK'
  <2>1. Top.part2 \in Pointer
    BY <1>5 DEF Frame
  <2>. QED
    BY <1>2, <1>3, <1>4, <1>8, <2>1 DEF TypeOK
<1>. QED
  BY <1>12, <1>13, <1>14, <1>15 DEF SortInv

LEMMA ReturnPart2Sort == SortInv /\ ReturnPart2 => SortInv'
<1>. SUFFICES ASSUME SortInv, ReturnPart2
              PROVE  SortInv'
  OBVIOUS
<1>1. PICK parts : Nested(parts) /\ Kept(parts) /\ Running(parts)
  BY DEF SortInv
<1>2. /\ TypeOK /\ pc = "return" /\ stack # <<>> /\ Top.stage = "part2"
      /\ pc' = "join"
  BY DEF SortInv, ReturnPart2
<1>3. /\ begin' = begin /\ next' = next /\ first' = first /\ last' = last
      /\ input' = input /\ pos1' = pos1 /\ pos2' = pos2 /\ pivot' = pivot
      /\ list' = list
      /\ pos' = Top.part1
  BY DEF ReturnPart2
<1>4. Node' = Node /\ Less' = Less /\ Order' = Order /\ Pointer' = Pointer
      /\ Frame' = Frame
  BY <1>3, SameNodes
<1>. DEFINE k == Len(stack)
<1>5. /\ k \in Nat /\ k \in 1..k /\ stack \in Seq(Frame)
      /\ Top \in Frame /\ Top = stack[k] /\ NULL \notin Node
  BY <1>1, <1>2, ReturnFacts, SortFacts
<1>6. PICK f : f = [Top EXCEPT !.part2 = list]
  OBVIOUS
<1>7. /\ f \in Frame /\ f.part2 = list /\ f.part1 = Top.part1
      /\ f.stage = "part2"
      /\ stack' = Append(Pop, f)
  <2>1. list \in Pointer
    BY <1>2 DEF TypeOK
  <2>. QED
    BY <1>2, <1>5, <1>6, <2>1 DEF Frame, ReturnPart2
<1>8. /\ stack' \in Seq(Frame) /\ Len(stack') = k /\ stack'[k] = f
      /\ \A i \in 1..k : i # k => stack'[i] = stack[i]
  BY <1>2, <1>5, <1>7, NewTop DEF Pop
<1>. HIDE DEF k
<1>9. stack' # <<>> /\ Top' = f
  BY <1>5, <1>8, EmptySeq DEF Top
<1>10. PICK one, two : one = parts[k].one /\ two = parts[k].two
  OBVIOUS
<1>11. /\ IsList(next, two, Order, list)
       /\ IsList(next, one, Order, Top.part1)
       /\ one # {} /\ one \in SUBSET Node
  <2>1. Current(parts) = two /\ KeptList(next, Top, parts[k])
        /\ one # {} /\ one \in SUBSET Node
    BY <1>1, <1>2, <1>10, ReturnFacts DEF Inner, k
  <2>. QED
    BY <1>1, <1>2, <1>10, <2>1 DEF Running, KeptList
<1>12. Nested(parts)'
  <2>1. \A i \in 1..Len(stack) : parts[i].rest = {}
    BY <1>1, <1>2 DEF Nested
  <2>. QED
    BY <1>1, <1>2, <1>3, <1>8, <2>1, NestedSame DEF k
<1>13. Kept(parts)'
  <2>1. ASSUME NEW i \in 1..k
        PROVE  KeptList(next, stack[i], parts[i])'
    <3>1. CASE i = k
      BY <1>3, <1>4, <1>7, <1>8, <1>10, <1>11, <3>1 DEF KeptList
    <3>2. CASE i # k
      <4>1. stack'[i] = stack[i]
        BY <1>8, <3>2
      <4>2. KeptList(next, stack[i], parts[i])
        BY <1>1, <1>2 DEF Kept, k
      <4>. QED
        BY <1>3, <1>4, <4>1, <4>2 DEF KeptList
    <3>. QED
      BY <3>1, <3>2
  <2>. QED
    BY <1>8, <2>1 DEF Kept
<1>14. pos' \in one /\ pos' \in Node
  BY <1>3, <1>11 DEF IsList, Opens
<1>15. Running(parts)'
  BY <1>2, <1>3, <1>4, <1>7, <1>8, <1>9, <1>10, <1>11, <1>14 DEF Running
<1>16. TypeOK'
  <2>1. Top.part1 \in Pointer /\ pos' # NULL
    BY <1>5, <1>14 DEF Frame
  <2>. QED
    BY <1>2, <1>3, <1>4, <1>8, <2>1 DEF TypeOK
<1>. QED
  BY <1>12, <1>13, <1>15, <1>16 DEF SortInv

\* The loop of DPL_LISTITEMS_JOIN.
LEMMA JoinFacts ==
    ASSUME TypeOK, NEW parts, Nested(parts), Kept(parts), Running(parts),
           pc = "join"
    PROVE  LET part == parts[Len(stack)]
           IN  /\ stack # <<>>
               /\ IsList(next, part.one, Order, Top.part1)
               /\ IsList(next, part.two, Order, Top.part2)
               /\ pos \in part.one /\ pos \in Node
               /\ pos \notin part.two
<1>1. /\ stack # <<>> /\ Top.stage = "part2"
      /\ IsList(next, parts[Len(stack)].two, Order, Top.part2)
      /\ pos \in parts[Len(stack)].one
  BY DEF Running
<1>2. /\ KeptList(next, Top, parts[Len(stack)])
      /\ parts[Len(stack)].one \in SUBSET Node
      /\ \A a \in parts[Len(stack)].one, b \in parts[Len(stack)].two :
            <<a, b>> \in Order
  BY <1>1, ReturnFacts
<1>3. pos \notin parts[Len(stack)].two
  BY <1>1, <1>2, SortFacts DEF IsOrder
<1>. QED
  BY <1>1, <1>2, <1>3 DEF KeptList

LEMMA JoinNextSort == SortInv /\ JoinNext => SortInv'
<1>. SUFFICES ASSUME SortInv, JoinNext
              PROVE  SortInv'
  OBVIOUS
<1>1. PICK parts : Nested(parts) /\ Kept(parts) /\ Running(parts)
  BY DEF SortInv
<1>2. TypeOK /\ pc = "join" /\ next[pos] # NULL /\ pos' = next[pos]
  BY DEF SortInv, JoinNext, AtEnd
<1>3. /\ begin' = begin /\ next' = next /\ first' = first /\ last' = last
      /\ stack' = stack /\ pc' = pc /\ list' = list /\ input' = input
      /\ pos1' = pos1 /\ pos2' = pos2 /\ pivot' = pivot
  BY DEF JoinNext
<1>4. Node' = Node /\ Less' = Less /\ Order' = Order /\ Pointer' = Pointer
      /\ Frame' = Frame /\ Top' = Top
  BY <1>3, SameNodes DEF Top
<1>5. pos' \in parts[Len(stack)].one /\ pos' \in Node /\ pos' # NULL
  <2>1. IsList(next, parts[Len(stack)].one, Order, Top.part1)
        /\ pos \in parts[Len(stack)].one /\ stack # <<>>
    BY <1>1, <1>2, JoinFacts
  <2>2. next[pos] \in parts[Len(stack)].one
    BY <1>2, <2>1 DEF IsList, Follows
  <2>3. parts[Len(stack)].one \in SUBSET Node
    BY <1>1, <1>2, <2>1, ReturnFacts
  <2>. QED
    BY <1>2, <2>2, <2>3
<1>6. Nested(parts)'
  <2>1. \A i \in 1..Len(stack) : parts[i].rest = {}
    BY <1>1, <1>2 DEF Nested
  <2>. QED
    BY <1>1, <1>2, <1>3, <2>1, NestedSame
<1>7. Kept(parts)'
  BY <1>1, <1>3, <1>4 DEF Kept, KeptList
<1>8. Running(parts)'
  BY <1>1, <1>2, <1>3, <1>4, <1>5 DEF Running
<1>9. TypeOK'
  BY <1>2, <1>3, <1>4, <1>5 DEF TypeOK, Pointer
<1>. QED
  BY <1>6, <1>7, <1>8, <1>9 DEF SortInv

LEMMA JoinEndSort == SortInv /\ JoinEnd => SortInv'
<1>. SUFFICES ASSUME SortInv, JoinEnd
              PROVE  SortInv'
  OBVIOUS
<1>1. PICK parts : Nested(parts) /\ Kept(parts) /\ Running(parts)
  BY DEF SortInv
<1>2. TypeOK /\ pc = "join" /\ next[pos] = NULL /\ pc' = "return"
  BY DEF SortInv, JoinEnd, AtEnd
<1>3. /\ begin' = begin /\ first' = first /\ last' = last /\ input' = input
      /\ pos1' = pos1 /\ pos2' = pos2 /\ pivot' = pivot /\ pos' = pos
      /\ list' = Top.part1 /\ stack' = Pop
      /\ next' = [next EXCEPT ![pos] = Top.part2]
  BY DEF JoinEnd
<1>4. Node' = Node /\ Less' = Less /\ Order' = Order /\ Pointer' = Pointer
      /\ Frame' = Frame /\ Division' = Division
  BY <1>3, SameNodes
<1>5. /\ IsOrder(Order) /\ NULL \notin Node /\ next \in [Node -> Pointer]
      /\ stack \in Seq(Frame)
  BY <1>1, <1>2, SortFacts
<1>. DEFINE k == Len(stack)
<1>6. /\ stack # <<>> /\ k \in Nat /\ k \in 1..k
      /\ Top \in Frame /\ Top = stack[k]
  BY <1>1, <1>2, JoinFacts, ReturnFacts
<1>7. /\ stack' \in Seq(Frame) /\ Len(stack') = k - 1
      /\ \A i \in 1..(k - 1) : stack'[i] = stack[i]
  BY <1>3, <1>5, <1>6, NewTop DEF Pop
<1>. HIDE DEF k
<1>8. PICK one, two : one = parts[k].one /\ two = parts[k].two
  OBVIOUS
<1>9. /\ one \in SUBSET Node /\ two \in SUBSET Node
      /\ two # {} /\ Whole(parts[k]) = one \union two
      /\ \A a \in one, b \in two : <<a, b>> \in Order
  BY <1>1, <1>2, <1>6, <1>8, ReturnFacts DEF k
<1>10. /\ IsList(next, one, Order, Top.part1)
       /\ IsList(next, two, Order, Top.part2)
       /\ pos \in one /\ pos \in Node
  BY <1>1, <1>2, <1>8, JoinFacts DEF k
<1>11. Top.part1 \in Pointer /\ Top.part2 \in Pointer
  BY <1>6 DEF Frame
<1>12. /\ next' \in [Node -> Pointer] /\ next'[pos] = Top.part2
       /\ \A n \in Node : n # pos => next'[n] = next[n]
  BY <1>3, <1>5, <1>10, <1>11
<1>13. IsList(next', one \union two, Order, Top.part1)
  <2>1. \A n \in (one \union two) \ {pos} : next'[n] = next[n]
    BY <1>9, <1>12
  <2>. QED
    BY <1>2, <1>5, <1>9, <1>10, <1>12, <2>1, JoinedList
<1>14. PICK new : new = [i \in 1..(k - 1) |-> parts[i]]
  OBVIOUS
<1>15. \A i \in 1..(k - 1) : i \in 1..k /\ i # k /\ new[i] = parts[i]
  BY <1>6, <1>14
<1>16. /\ parts \in [1..k -> Division]
       /\ \A i \in 1..k : Divided(parts[i]) /\ parts[i].rest = {}
       /\ \A i \in 1..k : i = 1 => Whole(parts[i]) = Node
       /\ \A i, j \in 1..k :
             /\ j = i + 1 => Whole(parts[j]) = Inner(stack[i], parts[i])
             /\ i < j => Whole(parts[j]) \subseteq Inner(stack[i], parts[i])
  BY <1>1, <1>2 DEF Nested, k
<1>17. Nested(new)'
  <2>1. new \in [1..(k - 1) -> Division']
    BY <1>4, <1>14, <1>15, <1>16
  <2>2. ASSUME NEW i \in 1..(k - 1)
        PROVE  /\ Divided(new[i])' /\ new[i].rest = {}
               /\ i = 1 => Whole(new[i]) = Node'
    <3>1. Divided(parts[i])'
      BY <1>4, <1>15, <1>16 DEF Divided
    <3>. QED
      BY <1>4, <1>15, <1>16, <3>1
  <2>3. ASSUME NEW i \in 1..(k - 1), NEW j \in 1..(k - 1)
        PROVE  /\ j = i + 1 => Whole(new[j]) = Inner(stack'[i], new[i])
               /\ i < j => Whole(new[j]) \subseteq Inner(stack'[i], new[i])
    BY <1>7, <1>15, <1>16
  <2>. QED
    BY <1>7, <2>1, <2>2, <2>3 DEF Nested, Whole, Inner
<1>18. Kept(new)'
  <2>1. \A n \in Node \ Whole(parts[k]) : next'[n] = next[n]
    BY <1>9, <1>10, <1>12
  <2>2. \A i \in 1..(k - 1) : KeptList(next', stack[i], parts[i])
    BY <1>1, <1>2, <1>6, <2>1, KeptAround DEF k
  <2>3. ASSUME NEW i \in 1..(k - 1)
        PROVE  KeptList(next, stack[i], new[i])'
    <3>1. KeptList(next', stack[i], parts[i])
      BY <2>2
    <3>2. stack'[i] = stack[i] /\ new[i] = parts[i]
      BY <1>7, <1>15
    <3>. QED
      BY <1>3, <1>4, <3>1, <3>2 DEF KeptList
  <2>. QED
    BY <1>7, <2>3 DEF Kept
<1>19. Current(new)' = one \union two
  <2>1. CASE k = 1
    <3>1. stack' = <<>>
      BY <1>7, <2>1, EmptySeq
    <3>2. Whole(parts[k]) = Node
      BY <1>6, <1>16, <2>1
    <3>. QED
      BY <1>4, <1>9, <3>1, <3>2 DEF Current
  <2>2. CASE k # 1
    <3>1. k - 1 \in 1..(k - 1) /\ k = (k - 1) + 1
      BY <1>6, <2>2
    <3>2. /\ stack' # <<>> /\ Top' = stack[k - 1]
          /\ new[Len(stack')] = parts[k - 1]
      BY <1>7, <1>15, <3>1, EmptySeq DEF Top
    <3>3. Whole(parts[k]) = Inner(stack[k - 1], parts[k - 1])
      BY <1>6, <1>15, <1>16, <3>1
    <3>. QED
      BY <1>9, <3>2, <3>3 DEF Current, Inner
  <2>. QED
    BY <2>1, <2>2
<1>20. Running(new)'
  BY <1>2, <1>3, <1>4, <1>13, <1>19 DEF Running
<1>21. TypeOK'
  BY <1>2, <1>3, <1>4, <1>7, <1>11, <1>12 DEF TypeOK
<1>. QED
  BY <1>17, <1>18, <1>20, <1>21 DEF SortInv

\* The outermost call has returned.
LEMMA ResetSort == SortInv /\ (Reset \/ ResetNext \/ ResetEnd) => SortInv'
<1>. SUFFICES ASSUME SortInv, Reset \/ ResetNext \/ ResetEnd
              PROVE  SortInv'
  OBVIOUS
<1>1. PICK parts : Nested(parts) /\ Kept(parts) /\ Running(parts)
  BY DEF SortInv
<1>2. /\ TypeOK
      /\ pc \in {"return", "reset"} /\ pc' \in {"reset", "done"}
  BY DEF SortInv, Reset, ResetNext, ResetEnd
<1>3. /\ begin' = begin /\ next' = next /\ stack' = stack /\ list' = list
      /\ input' = input /\ pos1' = pos1 /\ pos2' = pos2 /\ pivot' = pivot
  BY DEF Reset, ResetNext, ResetEnd
<1>4. Node' = Node /\ Less' = Less /\ Order' = Order /\ Pointer' = Pointer
      /\ Frame' = Frame
  BY <1>3, SameNodes
<1>5. /\ IsOrder(Order) /\ NULL \notin Node /\ next \in [Node -> Pointer]
  BY <1>1, <1>2, SortFacts
<1>6. stack = <<>> /\ IsList(next, Node, Order, list) /\ first' = list
  <2>1. CASE Reset
    BY <1>1, <2>1 DEF Running, Current, Reset
  <2>2. CASE ResetNext \/ ResetEnd
    BY <1>1, <2>2 DEF Running, ResetNext, ResetEnd
  <2>. QED
    BY <2>1, <2>2
<1>7. pc = "reset" => IF Node = {} THEN pos = NULL ELSE pos \in Node
  BY <1>1 DEF Running
<1>8. list \in Pointer /\ pos \in Pointer /\ last \in Pointer
  BY <1>2 DEF TypeOK
<1>9. Nested(parts)' /\ Kept(parts)'
  <2>1. \A i \in 1..Len(stack) : parts[i].rest = {}
    BY <1>1, <1>2 DEF Nested
  <2>2. Nested(parts)'
    BY <1>1, <1>2, <1>3, <2>1, NestedSame
  <2>3. Kept(parts)'
    BY <1>1, <1>2, <1>3, <1>4 DEF Kept, KeptList
  <2>. QED
    BY <2>2, <2>3
<1>10. pc' = "reset" => IF Node = {} THEN pos' = NULL ELSE pos' \in Node
  <2>1. CASE Reset
    BY <1>6, <2>1 DEF Reset, IsList, Opens
  <2>2. CASE ResetNext
    <3>1. pc = "reset" /\ pos # NULL /\ next[pos] # NULL /\ pos' = next[pos]
      BY <2>2 DEF ResetNext, Short
    <3>2. Node # {} /\ pos \in Node
      BY <1>7, <3>1
    <3>. QED
      BY <1>5, <3>1, <3>2 DEF Pointer
  <2>3. CASE ResetEnd
    BY <2>3 DEF ResetEnd
  <2>. QED
    BY <2>1, <2>2, <2>3
<1>11. pc' = "done" => IF Node = {} THEN last' = NULL
                       ELSE Ends(Node, Order, last')
  <2>1. CASE Reset \/ ResetNext
    BY <1>2, <2>1 DEF Reset, ResetNext
  <2>2. CASE ResetEnd
    <3>1. pc = "reset" /\ (pos # NULL => next[pos] = NULL) /\ last' = pos
      BY <2>2 DEF ResetEnd, Short
    <3>2. CASE Node = {}
      BY <1>7, <3>1, <3>2
    <3>3. CASE Node # {}
      <4>1. pos \in Node /\ next[pos] = NULL
        BY <1>5, <1>7, <3>1, <3>3
      <4>2. Follows(Node, Order, pos, NULL)
        BY <1>6, <4>1 DEF IsList
      <4>3. \A m \in Node : <<pos, m>> \notin Order
        BY <1>5, <4>2 DEF Follows
      <4>. QED
        BY <1>5, <3>1, <3>3, <4>1, <4>3 DEF Ends, IsOrder
    <3>. QED
      BY <3>2, <3>3
  <2>. QED
    BY <2>1, <2>2
<1>12. Running(parts)'
  BY <1>2, <1>3, <1>4, <1>6, <1>10, <1>11 DEF Running
<1>13. TypeOK'
  <2>1. pos' \in Pointer
    <3>1. CASE pc' = "reset"
      BY <1>10, <3>1 DEF Pointer
    <3>2. CASE pc' = "done"
      BY <1>2, <1>8, <3>2 DEF Reset, ResetNext, ResetEnd
    <3>. QED
      BY <1>2, <3>1, <3>2
  <2>2. last' \in Pointer
    BY <1>8 DEF Reset, ResetNext, ResetEnd
  <2>. QED
    BY <1>2, <1>3, <1>4, <1>6, <1>8, <2>1, <2>2 DEF TypeOK
<1>. QED
  BY <1>9, <1>12, <1>13 DEF SortInv

LEMMA StutterSort == SortInv /\ UNCHANGED vars => SortInv'
<1>. SUFFICES ASSUME SortInv, UNCHANGED vars
              PROVE  SortInv'
  OBVIOUS
<1>1. PICK parts : Nested(parts) /\ Kept(parts) /\ Running(parts)
  BY DEF SortInv
<1>2. /\ begin' = begin /\ next' = next /\ first' = first /\ last' = last
      /\ stack' = stack /\ pc' = pc /\ list' = list /\ input' = input
      /\ pos1' = pos1 /\ pos2' = pos2 /\ pivot' = pivot /\ pos' = pos
  BY DEF vars
<1>3. Node' = Node /\ Less' = Less /\ Order' = Order /\ Pointer' = Pointer
      /\ Frame' = Frame /\ Top' = Top
  BY <1>2, SameNodes DEF Top
<1>4. TypeOK /\ TypeOK'
  BY <1>2, <1>3 DEF SortInv, TypeOK
<1>5. \A i \in 1..Len(stack) : parts[i].rest # {} => pc' = "divide"
  BY <1>1, <1>2 DEF Nested
<1>6. Nested(parts)'
  BY <1>1, <1>2, <1>4, <1>5, NestedSame
<1>7. Kept(parts)'
  BY <1>1, <1>2, <1>3 DEF Kept, KeptList
<1>8. Current(parts)' = Current(parts)
  BY <1>2, <1>3 DEF Current, Inner
<1>9. Running(parts)'
  BY <1>1, <1>2, <1>3, <1>8 DEF Running, Dividing
<1>. QED
  BY <1>4, <1>6, <1>7, <1>9 DEF SortInv

\* The frames divide the nodes and the pointers link them as SortInv says,
\* whichever step dpl_list_sort is at (list.c:463-577).
THEOREM SortInvariant == Spec => []SortInv
<1>1. SortInv /\ [Next]_vars => SortInv'
  BY TrivialSort, DivideSort, DivideNextSort, DivideEndSort,
     ReturnPart1Sort, ReturnPart2Sort, JoinNextSort, JoinEndSort,
     ResetSort, StutterSort DEF Next
<1>. QED
  BY InitSort, <1>1, PTL DEF Spec

\* Every pointer is NULL or a node of the list, and every frame is one of
\* dpl_list_sort_quick.
THEOREM TypeCorrect == Spec => []TypeOK
<1>1. SortInv => TypeOK
  BY DEF SortInv
<1>. QED
  BY <1>1, SortInvariant, PTL

LEMMA SortedWhenDone == SortInv => SortedStably
<1>. SUFFICES ASSUME SortInv, pc = "done"
              PROVE  /\ Node = {} => first = NULL /\ last = NULL
                     /\ Node # {} => first \in Node /\ last \in Node
                     /\ \A n \in Node :
                           /\ n = first \/ Before(begin, first, n)
                           /\ n = last \/ Before(begin, n, last)
                           /\ n = last => next[n] = NULL
                           /\ n # last =>
                                 /\ next[n] \in Node
                                 /\ Before(begin, n, next[n])
                                 /\ \A m \in Node \ {next[n]} :
                                       Before(begin, n, m) =>
                                           Before(begin, next[n], m)
  BY DEF SortedStably
<1>1. PICK parts : TypeOK /\ Nested(parts) /\ Running(parts)
  BY DEF SortInv
<1>2. /\ IsList(next, Node, Order, first)
      /\ IF Node = {} THEN last = NULL ELSE Ends(Node, Order, last)
  BY <1>1 DEF Running
<1>3. IsOrder(Order)
  BY <1>1, SortFacts
<1>4. Opens(Node, Order, first)
  BY <1>2 DEF IsList
<1>5. Node = {} => first = NULL /\ last = NULL
  BY <1>2, <1>4 DEF Opens
<1>6. Node # {} => first \in Node /\ last \in Node
  BY <1>2, <1>4 DEF Opens, Ends
<1>7. ASSUME NEW n \in Node
      PROVE  /\ n = first \/ Before(begin, first, n)
             /\ n = last \/ Before(begin, n, last)
             /\ n = last => next[n] = NULL
             /\ n # last =>
                   /\ next[n] \in Node
                   /\ Before(begin, n, next[n])
                   /\ \A m \in Node \ {next[n]} :
                         Before(begin, n, m) => Before(begin, next[n], m)
  <2>1. n = first \/ <<first, n>> \in Order
    BY <1>4 DEF Opens
  <2>2. last \in Node /\ \A m \in Node : m = last \/ <<m, last>> \in Order
    BY <1>2 DEF Ends
  <2>3. Follows(Node, Order, n, next[n])
    BY <1>2 DEF IsList
  <2>4. n = last => next[n] = NULL
    <3>1. n = last => \A m \in Node : <<n, m>> \notin Order
      BY <1>3, <2>2 DEF IsOrder
    <3>. QED
      BY <2>3, <3>1 DEF Follows
  <2>5. n # last =>
           /\ next[n] \in Node /\ <<n, next[n]>> \in Order
           /\ \A m \in Node : <<n, m>> \in Order =>
                                 m = next[n] \/ <<next[n], m>> \in Order
    BY <2>2, <2>3 DEF Follows
  <2>6. \A l, m \in Node : <<l, m>> \in Order <=> Before(begin, l, m)
    BY InOrder
  <2>7. first \in Node
    BY <1>6
  <2>8. n = first \/ Before(begin, first, n)
    BY <2>1, <2>6, <2>7
  <2>9. n = last \/ Before(begin, n, last)
    BY <2>2, <2>6
  <2>10. n # last =>
            /\ next[n] \in Node /\ Before(begin, n, next[n])
            /\ \A m \in Node \ {next[n]} :
                  Before(begin, n, m) => Before(begin, next[n], m)
    BY <2>5, <2>6
  <2>. QED
    BY <2>4, <2>8, <2>9, <2>10
<1>. QED
  BY <1>5, <1>6, <1>7

\* After dpl_list_sort the list leads through every entry, by begin time, those
\* that begin together in their old order, from list->first to list->last
\* (list.c:463-577).
THEOREM StableSort == Spec => []SortedStably
  BY SortInvariant, SortedWhenDone, PTL

----------------------------------------------------------------------------
(* No node is lost.  Of the frames whose nodes a node is one of, the        *)
(* innermost keeps it, or the innermost call has it.                        *)

\* The parts that a frame keeps are found from it.
LEMMA KeptReached ==
    ASSUME TypeOK, NEW parts, Nested(parts), Kept(parts),
           NEW i \in 1..Len(stack), i < Len(stack) \/ pc # "divide"
    PROVE  IF stack[i].stage = "part1"
           THEN Reached(stack[i].part2) = parts[i].two
           ELSE Reached(stack[i].part1) = parts[i].one
<1>1. /\ begin \in Seq(Time) /\ IsOrder(Less) /\ IsOrder(Order)
      /\ parts[i] \in Division
  BY SortFacts
<1>2. KeptList(next, stack[i], parts[i])
  BY DEF Kept
<1>3. parts[i].one \in SUBSET Node /\ parts[i].two \in SUBSET Node
  BY <1>1 DEF Division
<1>. QED
  BY <1>1, <1>2, <1>3, ListReached DEF KeptList

\* What the innermost call works on is found from its pointers.
LEMMA CurrentReached ==
    ASSUME TypeOK, NEW parts, Nested(parts), Kept(parts), Running(parts),
           pc \in {"call", "return"}
    PROVE  Reached(list) = Current(parts)
<1>1. begin \in Seq(Time) /\ IsOrder(Less) /\ IsOrder(Order)
  BY SortFacts
<1>2. Current(parts) \in SUBSET Node
  BY CurrentIn
<1>. QED
  BY <1>1, <1>2, ListReached DEF Running

\* A node that a frame has divided and no inner frame has is found from the
\* frame, or from the pointers of the innermost call.
LEMMA Found ==
    ASSUME TypeOK, NEW parts, Nested(parts), Kept(parts), Running(parts),
           NEW n \in Node, NEW i \in 1..Len(stack),
           n \in Whole(parts[i]),
           i = Len(stack) \/ n \notin Whole(parts[i + 1])
    PROVE  n \in UNION {Reached(list), Reached(input),
                        Reached(stack[i].part1), Reached(stack[i].part2)}
<1>1. /\ begin \in Seq(Time) /\ IsOrder(Less) /\ IsOrder(Order)
      /\ Len(stack) \in Nat
      /\ parts[i] \in Division /\ stack[i] \in Frame
  BY SortFacts
<1>2. parts[i].one \in SUBSET Node /\ parts[i].two \in SUBSET Node
      /\ parts[i].rest \in SUBSET Node
  BY <1>1 DEF Division
<1>3. stack # <<>>
  BY <1>1, EmptySeq
<1>4. CASE i # Len(stack)
  <2>1. i + 1 \in 1..Len(stack) /\ i < Len(stack)
    BY <1>1, <1>4
  <2>2. Whole(parts[i + 1]) = Inner(stack[i], parts[i])
    BY <2>1 DEF Nested
  <2>3. n \notin Inner(stack[i], parts[i]) /\ parts[i].rest = {}
    BY <1>4, <2>2 DEF Nested
  <2>. QED
    BY <2>1, <2>3, KeptReached DEF Inner, Whole
<1>5. CASE i = Len(stack) /\ pc = "divide"
  <2>1. Dividing(stack[i], parts[i])
    BY <1>5 DEF Running, Top
  <2>2. CASE n \in parts[i].one
    <3>1. IsPart(next, parts[i].one, Less, stack[i].part1, pos1)
      BY <2>1 DEF Dividing
    <3>. QED
      BY <1>1, <1>2, <2>2, <3>1, PartReached
  <2>3. CASE n \in parts[i].two
    <3>1. IsPart(next, parts[i].two, Less, stack[i].part2, pos2)
      BY <2>1 DEF Dividing
    <3>. QED
      BY <1>1, <1>2, <2>3, <3>1, PartReached
  <2>4. CASE n \in parts[i].rest
    <3>1. IsList(next, parts[i].rest, Less, input)
      BY <2>1 DEF Dividing
    <3>. QED
      BY <1>1, <1>2, <2>4, <3>1, ListReached
  <2>. QED
    BY <2>2, <2>3, <2>4 DEF Whole
<1>6. CASE i = Len(stack) /\ pc # "divide"
  <2>1. pc \in {"call", "return", "join"}
    BY <1>3, <1>6 DEF TypeOK, Running
  <2>2. n \in parts[i].one \/ n \in parts[i].two
    BY <1>6 DEF Nested, Whole
  <2>3. CASE pc = "join"
    <3>1. IsList(next, parts[i].one, Order, stack[i].part1)
          /\ IsList(next, parts[i].two, Order, stack[i].part2)
      BY <1>6, <2>3, JoinFacts DEF Top
    <3>2. Reached(stack[i].part1) = parts[i].one
      BY <1>1, <1>2, <3>1, ListReached
    <3>3. Reached(stack[i].part2) = parts[i].two
      BY <1>1, <1>2, <3>1, ListReached
    <3>. QED
      BY <2>2, <3>2, <3>3
  <2>4. CASE pc \in {"call", "return"}
    <3>1. Reached(list) = Inner(stack[i], parts[i])
      <4>1. Current(parts) = Inner(stack[i], parts[i])
        BY <1>3, <1>6 DEF Current, Top
      <4>. QED
        BY <2>4, <4>1, CurrentReached
    <3>2. IF stack[i].stage = "part1"
          THEN Reached(stack[i].part2) = parts[i].two
          ELSE Reached(stack[i].part1) = parts[i].one
      BY <1>6, KeptReached
    <3>. QED
      BY <2>2, <3>1, <3>2 DEF Inner
  <2>. QED
    BY <2>1, <2>3, <2>4
<1>. QED
  BY <1>4, <1>5, <1>6

\* Between two assignments every node is found.
LEMMA AllFound ==
    ASSUME TypeOK, NEW parts, Nested(parts), Kept(parts), Running(parts),
           NEW n \in Node
    PROVE  \/ n \in Reached(list) \/ n \in Reached(input)
           \/ pc = "done" /\ n \in Reached(first)
           \/ \E i \in 1..Len(stack) : \/ n \in Reached(stack[i].part1)
                                      \/ n \in Reached(stack[i].part2)
<1>1. begin \in Seq(Time) /\ IsOrder(Order) /\ Len(stack) \in Nat
  BY SortFacts
<1>2. CASE stack = <<>>
  <2>1. pc \in {"call", "return", "reset", "done"}
    BY <1>2 DEF TypeOK, Running
  <2>2. CASE pc \in {"call", "return"}
    <3>1. Reached(list) = Node
      BY <1>2, <2>2, CurrentReached DEF Current
    <3>. QED
      BY <3>1
  <2>3. CASE pc \in {"reset", "done"}
    <3>1. IsList(next, Node, Order, list)
      BY <2>3 DEF Running
    <3>2. Node \in SUBSET Node
      OBVIOUS
    <3>3. Reached(list) = Node
      BY <1>1, <3>1, <3>2, ListReached
    <3>. QED
      BY <3>3
  <2>. QED
    BY <2>1, <2>2, <2>3
<1>3. CASE stack # <<>>
  <2>. DEFINE k == Len(stack)
              S == {i \in 1..k : i = k \/ n \notin Whole(parts[i + 1])}
  <2>1. k \in Nat /\ k \in 1..k
    BY <1>3, SortFacts
  <2>2. k \in S /\ S \subseteq Nat
    BY <2>1
  <2>3. PICK i \in S : \A j \in S : i <= j
    BY <2>2, Least
  <2>4. i \in 1..k /\ (i = k \/ n \notin Whole(parts[i + 1]))
    OBVIOUS
  <2>5. n \in Whole(parts[i])
    <3>1. CASE i = 1
      BY <2>4, <3>1 DEF Nested
    <3>2. CASE i # 1
      <4>1. i - 1 \in 1..k /\ i - 1 # k /\ (i - 1) + 1 = i /\ ~(i <= i - 1)
        BY <2>1, <2>4, <3>2
      <4>2. i - 1 \notin S
        BY <2>3, <4>1
      <4>. QED
        BY <4>1, <4>2
    <3>. QED
      BY <3>1, <3>2
  <2>. HIDE DEF S
  <2>6. n \in UNION {Reached(list), Reached(input),
                     Reached(stack[i].part1), Reached(stack[i].part2)}
    BY <2>4, <2>5, Found
  <2>. QED
    BY <2>4, <2>6
<1>. QED
  BY <1>2, <1>3

LEMMA NoneLostThen == SortInv => NoneLost
<1>. SUFFICES ASSUME SortInv
              PROVE  NoneLost
  OBVIOUS
<1>1. PICK parts : /\ TypeOK /\ Nested(parts) /\ Kept(parts)
                   /\ Running(parts)
  BY DEF SortInv
<1>. DEFINE held == {list, input}
                        \union (IF pc = "done" THEN {first} ELSE {})
                        \union {stack[i].part1 : i \in 1..Len(stack)}
                        \union {stack[i].part2 : i \in 1..Len(stack)}
            kept(frame) == IF frame.stage = "part1" THEN frame.part2
                           ELSE frame.part1
<1>2. UNION {Reached(p) : p \in held} = Node
  <2>1. \A p : Reached(p) \subseteq Node
    BY DEF Reached
  <2>2. ASSUME NEW n \in Node
        PROVE  \E p \in held : n \in Reached(p)
    <3>1. CASE n \in Reached(list) \/ n \in Reached(input)
      BY <3>1
    <3>2. CASE pc = "done" /\ n \in Reached(first)
      BY <3>2
    <3>3. ASSUME NEW i \in 1..Len(stack),
                 n \in Reached(stack[i].part1) \/ n \in Reached(stack[i].part2)
          PROVE  \E p \in held : n \in Reached(p)
      BY <3>3
    <3>. QED
      BY <1>1, <3>1, <3>2, <3>3, AllFound
  <2>. HIDE DEF held
  <2>. QED
    BY <2>1, <2>2
<1>3. ASSUME pc \in {"call", "return"}, NEW i \in 1..Len(stack)
      PROVE  Reached(kept(stack[i])) \intersect Reached(list) = {}
  <2>1. /\ Len(stack) \in Nat /\ stack # <<>> /\ parts[i] \in Division
        /\ Len(stack) \in 1..Len(stack)
        /\ IsOrder(Order)
    BY <1>1, SortFacts, EmptySeq
  <2>2. parts[i].one \intersect parts[i].two = {}
    <3>1. Divided(parts[i])
      BY <1>1 DEF Nested
    <3>. QED
      BY <2>1, <3>1, DividedApart
  <2>3. Reached(kept(stack[i])) = IF stack[i].stage = "part1"
                                  THEN parts[i].two ELSE parts[i].one
    BY <1>1, <1>3, KeptReached
  <2>4. Reached(list) \subseteq Inner(stack[i], parts[i])
    <3>1. Reached(list) = Inner(stack[Len(stack)], parts[Len(stack)])
      BY <1>1, <1>3, <2>1, CurrentReached DEF Current, Top
    <3>2. CASE i = Len(stack)
      BY <3>1, <3>2
    <3>3. CASE i # Len(stack)
      <4>1. i < Len(stack)
        BY <2>1, <3>3
      <4>2. Whole(parts[Len(stack)]) \subseteq Inner(stack[i], parts[i])
        BY <1>1, <2>1, <4>1 DEF Nested
      <4>. QED
        BY <3>1, <4>2 DEF Whole, Inner
    <3>. QED
      BY <3>2, <3>3
  <2>. QED
    BY <2>2, <2>3, <2>4 DEF Inner
<1>. QED
  BY <1>2, <1>3 DEF NoneLost

\* While nodes are relinked none is lost, and what a call sorts has no node in
\* common with what its callers keep (list.c:463-556).
THEOREM NothingLost == Spec => []NoneLost
  BY SortInvariant, NoneLostThen, PTL

----------------------------------------------------------------------------
(* The list that the other modules sort in one step, as a sequence.         *)

\* The pointers lead through the nodes as the sequence has them.
Chains(s) ==
    IF s = <<>> THEN first = NULL /\ last = NULL
    ELSE /\ first = s[1]
         /\ last = s[Len(s)]
         /\ next[s[Len(s)]] = NULL
         /\ \A i \in 1..(Len(s) - 1) : next[s[i]] = s[i + 1]

LEMMA ChainedWhenDone ==
    SortInv /\ pc = "done" =>
        \A s \in Seq(Node) : IsSorted(s, begin, Node) => Chains(s)
<1>. SUFFICES ASSUME SortInv, pc = "done", NEW s \in Seq(Node),
                     IsSorted(s, begin, Node)
              PROVE  Chains(s)
  OBVIOUS
<1>1. TypeOK /\ IsOrder(Order)
  BY SortFacts DEF SortInv
<1>2. /\ Node = {} => first = NULL /\ last = NULL
      /\ Node # {} => first \in Node /\ last \in Node
      /\ \A n \in Node :
            /\ n = first \/ <<first, n>> \in Order
            /\ n = last \/ <<n, last>> \in Order
            /\ n = last => next[n] = NULL
            /\ n # last =>
                  /\ next[n] \in Node
                  /\ <<n, next[n]>> \in Order
                  /\ \A m \in Node \ {next[n]} :
                        <<n, m>> \in Order => <<next[n], m>> \in Order
  <2>1. SortedStably
    BY SortedWhenDone
  <2>2. \A l, m \in Node : <<l, m>> \in Order <=> Before(begin, l, m)
    BY InOrder
  <2>. QED
    BY <2>1, <2>2 DEF SortedStably
<1>. DEFINE n == Len(s)
<1>3. /\ n \in Nat /\ Node = {s[i] : i \in 1..n}
      /\ \A i \in 1..n : s[i] \in Node
  BY LenProperties, ElementOfSeq DEF IsSorted
<1>4. \A i, j \in 1..n : i < j => <<s[i], s[j]>> \in Order
  BY <1>3, InOrder DEF IsSorted
<1>5. s = <<>> <=> n = 0
  BY EmptySeq
<1>. HIDE DEF n
<1>6. CASE n = 0
  BY <1>2, <1>3, <1>5, <1>6 DEF Chains
<1>7. CASE n # 0
  <2>1. 1 \in 1..n /\ n \in 1..n /\ Node # {}
    BY <1>3, <1>7
  <2>2. first = s[1]
    <3>1. PICK i \in 1..n : first = s[i]
      BY <1>2, <1>3, <2>1
    <3>2. CASE i # 1
      <4>1. 1 < i
        BY <1>3, <3>1, <3>2
      <4>2. <<s[1], s[i]>> \in Order
        BY <1>4, <2>1, <3>1, <4>1
      <4>3. s[1] \in Node /\ (s[1] = first \/ <<first, s[1]>> \in Order)
        BY <1>2, <1>3, <2>1
      <4>. QED
        <5>1. PICK a \in Node : a = s[1]
          BY <4>3
        <5>2. first \in Node /\ <<a, a>> \notin Order
              /\ <<a, first>> \in Order /\ (a = first \/ <<first, a>> \in Order)
          BY <1>1, <1>2, <2>1, <3>1, <4>2, <4>3, <5>1 DEF IsOrder
        <5>. QED
          BY <1>1, <5>1, <5>2 DEF IsOrder
    <3>. QED
      BY <3>1, <3>2
  <2>3. last = s[n]
    <3>1. PICK i \in 1..n : last = s[i]
      BY <1>2, <1>3, <2>1
    <3>2. CASE i # n
      <4>1. i < n
        BY <1>3, <3>1, <3>2
      <4>2. <<s[i], s[n]>> \in Order
        BY <1>4, <2>1, <3>1, <4>1
      <4>3. s[n] \in Node /\ (s[n] = last \/ <<s[n], last>> \in Order)
        BY <1>2, <1>3, <2>1
      <4>. QED
        <5>1. PICK a \in Node : a = s[n]
          BY <4>3
        <5>2. last \in Node /\ <<a, a>> \notin Order
              /\ <<last, a>> \in Order /\ (a = last \/ <<a, last>> \in Order)
          BY <1>1, <1>2, <2>1, <3>1, <4>2, <4>3, <5>1 DEF IsOrder
        <5>. QED
          BY <1>1, <5>1, <5>2 DEF IsOrder
    <3>. QED
      BY <3>1, <3>2
  <2>4. ASSUME NEW i \in 1..(n - 1)
        PROVE  next[s[i]] = s[i + 1]
    <3>1. i \in 1..n /\ i + 1 \in 1..n /\ n \in 1..n /\ i < n /\ i < i + 1
      BY <1>3
    <3>2. s[i] \in Node /\ s[i + 1] \in Node /\ s[i] # last
      <4>1. s[i] \in Node /\ s[i + 1] \in Node /\ <<s[i], s[n]>> \in Order
        BY <1>3, <1>4, <3>1
      <4>. QED
        BY <1>1, <2>3, <4>1 DEF IsOrder
    <3>3. PICK j \in 1..n : next[s[i]] = s[j]
      BY <1>2, <1>3, <3>2
    <3>4. <<s[i], s[j]>> \in Order /\ s[j] \in Node
      BY <1>2, <1>3, <3>2, <3>3
    <3>5. <<s[i], s[i + 1]>> \in Order
      BY <1>4, <3>1
    <3>6. s[i + 1] = s[j] \/ <<s[j], s[i + 1]>> \in Order
      BY <1>2, <3>2, <3>3, <3>5
    <3>7. ~(j < i) /\ j # i
      BY <1>1, <1>4, <3>1, <3>2, <3>4 DEF IsOrder
    <3>8. CASE i + 1 < j
      <4>1. <<s[i + 1], s[j]>> \in Order
        BY <1>4, <3>1, <3>8
      <4>. QED
        BY <1>1, <3>2, <3>4, <3>6, <4>1 DEF IsOrder
    <3>9. CASE j = i + 1
      BY <3>3, <3>9
    <3>. QED
      BY <1>3, <3>7, <3>8, <3>9
  <2>5. next[s[n]] = NULL
    BY <1>2, <1>3, <2>1, <2>3
  <2>. QED
    BY <1>5, <1>7, <2>2, <2>3, <2>4, <2>5 DEF Chains, n
<1>. QED
  BY <1>6, <1>7

\* The nodes can be sorted: the number of nodes in front of a node is its place
\* in the sorted sequence.
LEMMA SortedExists ==
    ASSUME begin \in Seq(Time)
    PROVE  \E s \in Seq(Node) : IsSorted(s, begin, Node)
<1>. DEFINE N == Len(begin)
            Under(n) == {m \in Node : <<m, n>> \in Order}
            rank == [n \in Node |-> Cardinality(Under(n)) + 1]
            s == [i \in 1..N |-> CHOOSE n \in Node : rank[n] = i]
<1>1. N \in Nat /\ Node = 1..N
  BY NodeFacts
<1>2. IsFiniteSet(Node) /\ Cardinality(Node) = N
  <2>1. /\ IsFiniteSet(1..N)
        /\ Cardinality(1..N) = IF 1 > N THEN 0 ELSE N - 1 + 1
    BY <1>1, FS_Interval
  <2>. HIDE DEF N
  <2>. QED
    BY <1>1, <2>1
<1>3. IsOrder(Order)
  BY SortOrder
<1>4. ASSUME NEW n \in Node
      PROVE  IsFiniteSet(Under(n)) /\ Cardinality(Under(n)) \in Nat
  <2>1. Under(n) \in SUBSET Node
    OBVIOUS
  <2>2. IsFiniteSet(Under(n))
    BY <1>2, <2>1, FS_Subset
  <2>. QED
    BY <2>2, FS_CardinalityType
<1>5. ASSUME NEW m \in Node, NEW n \in Node, <<m, n>> \in Order
      PROVE  Cardinality(Under(m)) < Cardinality(Under(n))
  <2>1. Under(m) \in SUBSET Under(n)
    BY <1>3, <1>5 DEF IsOrder
  <2>2. m \in Under(n) /\ m \notin Under(m)
    BY <1>3, <1>5 DEF IsOrder
  <2>3. /\ Cardinality(Under(m)) <= Cardinality(Under(n))
        /\ Cardinality(Under(n)) = Cardinality(Under(m))
             => Under(n) = Under(m)
    BY <1>4, <2>1, FS_Subset
  <2>4. Cardinality(Under(m)) # Cardinality(Under(n))
    BY <2>2, <2>3
  <2>5. Cardinality(Under(m)) \in Nat /\ Cardinality(Under(n)) \in Nat
    BY <1>4
  <2>. HIDE DEF Under
  <2>. QED
    BY <2>3, <2>4, <2>5
<1>6. ASSUME NEW n \in Node
      PROVE  rank[n] \in 1..N
  <2>1. Under(n) \in SUBSET Node /\ n \notin Under(n)
    BY <1>3 DEF IsOrder
  <2>2. /\ Cardinality(Under(n)) <= Cardinality(Node)
        /\ Cardinality(Node) = Cardinality(Under(n)) => Node = Under(n)
    BY <1>2, <2>1, FS_Subset
  <2>3. Cardinality(Node) # Cardinality(Under(n))
    BY <2>1, <2>2
  <2>4. rank[n] = Cardinality(Under(n)) + 1 /\ Cardinality(Under(n)) \in Nat
    BY <1>4
  <2>. HIDE DEF Under, N, rank
  <2>. QED
    BY <1>1, <1>2, <2>2, <2>3, <2>4
<1>7. ASSUME NEW m \in Node, NEW n \in Node
      PROVE  /\ rank[m] < rank[n] => <<m, n>> \in Order
             /\ rank[m] = rank[n] => m = n
  <2>1. /\ rank[m] = Cardinality(Under(m)) + 1
        /\ rank[n] = Cardinality(Under(n)) + 1
        /\ Cardinality(Under(m)) \in Nat /\ Cardinality(Under(n)) \in Nat
    BY <1>4
  <2>2. m = n \/ <<m, n>> \in Order \/ <<n, m>> \in Order
    BY <1>3 DEF IsOrder
  <2>3. /\ <<m, n>> \in Order
             => Cardinality(Under(m)) < Cardinality(Under(n))
        /\ <<n, m>> \in Order
             => Cardinality(Under(n)) < Cardinality(Under(m))
    BY <1>5
  <2>. HIDE DEF Under, rank
  <2>. QED
    BY <2>1, <2>2, <2>3
<1>8. rank \in Surjection(Node, 1..N)
  <2>1. rank \in [Node -> 1..N]
    BY <1>6
  <2>2. rank \in Injection(Node, 1..N)
    <3>. HIDE DEF rank
    <3>. QED
      BY <1>7, <2>1 DEF Injection, IsInjective
  <2>. HIDE DEF rank, N
  <2>3. IsFiniteSet(1..N) /\ Cardinality(1..N) = Cardinality(Node)
    BY <1>1, <1>2
  <2>. QED
    BY <2>2, <2>3, FS_Injection
<1>9. ASSUME NEW i \in 1..N
      PROVE  s[i] \in Node /\ rank[s[i]] = i
  <2>1. \E n \in Node : rank[n] = i
    <3>. HIDE DEF rank, N
    <3>. QED
      BY <1>8 DEF Surjection
  <2>2. s[i] = CHOOSE n \in Node : rank[n] = i
    OBVIOUS
  <2>. HIDE DEF s, rank
  <2>. QED
    BY <2>1, <2>2
<1>10. s \in Seq(Node) /\ Len(s) = N
  <2>1. s \in [1..N -> Node]
    BY <1>9
  <2>. HIDE DEF s, N
  <2>. QED
    BY <1>1, <2>1
<1>. HIDE DEF s, rank, N
<1>11. Node = {s[i] : i \in 1..Len(s)}
  <2>1. ASSUME NEW n \in Node
        PROVE  \E i \in 1..Len(s) : s[i] = n
    <3>1. rank[n] \in 1..N
      BY <1>6
    <3>2. s[rank[n]] \in Node /\ rank[s[rank[n]]] = rank[n]
      BY <1>9, <3>1
    <3>3. s[rank[n]] = n
      BY <1>7, <3>2
    <3>. QED
      BY <1>10, <3>1, <3>3
  <2>. QED
    BY <1>9, <1>10, <2>1
<1>12. ASSUME NEW i \in 1..Len(s), NEW j \in 1..Len(s), i < j
       PROVE  Before(begin, s[i], s[j])
  <2>1. /\ s[i] \in Node /\ rank[s[i]] = i
        /\ s[j] \in Node /\ rank[s[j]] = j
    BY <1>9, <1>10
  <2>. QED
    BY <1>7, <1>12, <2>1, InOrder
<1>. QED
  BY <1>10, <1>11, <1>12 DEF IsSorted

\* The sort of many steps gives the list that ParsePasses has after its one
\* step of a sort: the nodes can be sorted, and whichever sequence of them is
\* sorted, the pointers lead through it (list.c:463-577).
THEOREM SortsAsOneStep ==
    Spec => [](pc = "done" =>
                   /\ \E s \in Seq(Node) : IsSorted(s, begin, Node)
                   /\ \A s \in Seq(Node) :
                          IsSorted(s, begin, Node) => Chains(s))
<1>1. SortInv =>
          (pc = "done" =>
               /\ \E s \in Seq(Node) : IsSorted(s, begin, Node)
               /\ \A s \in Seq(Node) : IsSorted(s, begin, Node) => Chains(s))
  <2>1. SortInv => begin \in Seq(Time)
    BY DEF SortInv, TypeOK
  <2>. QED
    BY <2>1, ChainedWhenDone, SortedExists
<1>. QED
  BY <1>1, SortInvariant, PTL
=============================================================================
