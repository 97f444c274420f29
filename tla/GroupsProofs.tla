---------------------------- MODULE GroupsProofs ----------------------------
(***************************************************************************)
(* The groups, for every set of strings and every number of entries.       *)
(***************************************************************************)
EXTENDS Groups, SequenceTheorems,
        WellFoundedInduction, TLAPS

\* A set of natural numbers that is not empty has a least one.
LEMMA Least ==
    ASSUME NEW S \in SUBSET Nat, S # {}
    PROVE  \E m \in S : \A k \in S : m <= k
<1>1. PICK m \in S : \A k \in S : <<k, m>> \notin OpToRel(<, Nat)
  BY NatLessThanWellFounded, WFMin
<1>2. \A k \in S : ~(k < m)
  BY <1>1 DEF OpToRel
<1>. QED
  BY <1>2

(* strcmp orders the strings strictly and totally. *)

LEMMA LessIrreflexive ==
    ASSUME NEW s \in Seq(Nat)
    PROVE  ~Less(s, s)
BY LenProperties DEF Less

LEMMA LessTransitive ==
    ASSUME NEW s \in Seq(Nat), NEW t \in Seq(Nat), NEW u \in Seq(Nat),
           Less(s, t), Less(t, u)
    PROVE  Less(s, u)
<1>1. Len(s) \in Nat /\ Len(t) \in Nat /\ Len(u) \in Nat
  OBVIOUS
<1>2. /\ \A i \in 1..Len(s) : s[i] \in Nat
      /\ \A i \in 1..Len(t) : t[i] \in Nat
      /\ \A i \in 1..Len(u) : u[i] \in Nat
  BY ElementOfSeq
<1>3. PICK j \in 1..Len(t) : /\ \A i \in 1..(j - 1) : i <= Len(s) /\ s[i] = t[i]
                             /\ j <= Len(s) => s[j] < t[j]
  BY DEF Less
<1>4. PICK k \in 1..Len(u) : /\ \A i \in 1..(k - 1) : i <= Len(t) /\ t[i] = u[i]
                             /\ k <= Len(t) => t[k] < u[k]
  BY DEF Less
<1>5. CASE j < k
  <2>1. j \in 1..Len(u) /\ t[j] = u[j]
    BY <1>1, <1>4, <1>5
  <2>2. \A i \in 1..(j - 1) : i <= Len(s) /\ s[i] = u[i]
    BY <1>1, <1>3, <1>4, <1>5
  <2>. QED
    BY <1>3, <2>1, <2>2 DEF Less
<1>6. CASE k <= j
  <2>1. \A i \in 1..(k - 1) : i <= Len(s) /\ s[i] = u[i]
    BY <1>1, <1>3, <1>4, <1>6
  <2>2. k <= Len(t) /\ t[k] < u[k]
    BY <1>1, <1>4, <1>6
  <2>3. ASSUME k <= Len(s)
        PROVE  s[k] < u[k]
    <3>1. k \in 1..Len(s) /\ k \in 1..Len(t)
      BY <1>1, <2>2, <2>3
    <3>2. s[k] = t[k] \/ s[k] < t[k]
      BY <1>1, <1>3, <1>6, <2>3
    <3>3. s[k] \in Nat /\ t[k] \in Nat /\ u[k] \in Nat
      BY <1>2, <3>1
    <3>4. PICK x \in Nat, y \in Nat, z \in Nat :
              x = s[k] /\ y = t[k] /\ z = u[k]
      BY <3>3
    <3>5. (x = y \/ x < y) /\ y < z
      BY <2>2, <3>2, <3>4
    <3>6. x < z
      BY <3>5
    <3>. QED
      BY <3>4, <3>6
  <2>. QED
    BY <2>1, <2>3 DEF Less
<1>. QED
  BY <1>1, <1>5, <1>6

LEMMA LessTotal ==
    ASSUME NEW s \in Seq(Nat), NEW t \in Seq(Nat), s # t
    PROVE  Less(s, t) \/ Less(t, s)
<1>. DEFINE Differ == {k \in Nat \ {0} :
                          /\ k <= Len(s) \/ k <= Len(t)
                          /\ k <= Len(s) /\ k <= Len(t) => s[k] # t[k]}
<1>1. Len(s) \in Nat /\ Len(t) \in Nat
  OBVIOUS
<1>2. /\ \A i \in 1..Len(s) : s[i] \in Nat
      /\ \A i \in 1..Len(t) : t[i] \in Nat
  BY ElementOfSeq
<1>3. Differ # {}
  <2>. SUFFICES ASSUME Differ = {}
                PROVE  s = t
    OBVIOUS
  <2>1. Len(s) = Len(t)
    <3>1. CASE Len(s) < Len(t)
      <4>1. Len(t) \in Differ
        BY <1>1, <3>1
      <4>. QED
        BY <4>1
    <3>2. CASE Len(t) < Len(s)
      <4>1. Len(s) \in Differ
        BY <1>1, <3>2
      <4>. QED
        BY <4>1
    <3>. QED
      BY <1>1, <3>1, <3>2
  <2>2. ASSUME NEW k \in 1..Len(s)
        PROVE  s[k] = t[k]
    <3>1. k \notin Differ
      OBVIOUS
    <3>. QED
      BY <1>1, <2>1, <3>1
  <2>. QED
    BY <2>1, <2>2, SeqEqual
<1>4. PICK m \in Differ : \A k \in Differ : m <= k
  <2>1. Differ \in SUBSET Nat
    OBVIOUS
  <2>. HIDE DEF Differ
  <2>. QED
    BY <1>3, <2>1, Least
<1>5. ASSUME NEW i \in 1..(m - 1)
      PROVE  i <= Len(s) /\ i <= Len(t) /\ s[i] = t[i]
  <2>1. i \in Nat \ {0} /\ i < m
    BY <1>4
  <2>2. i \notin Differ
    BY <1>4, <2>1
  <2>3. m <= Len(s) \/ m <= Len(t)
    BY <1>4
  <2>. QED
    BY <1>1, <2>1, <2>2, <2>3
<1>6. CASE m <= Len(t) /\ (m <= Len(s) => s[m] < t[m])
  <2>1. m \in 1..Len(t)
    BY <1>1, <1>6
  <2>. QED
    BY <1>5, <1>6, <2>1 DEF Less
<1>7. CASE m <= Len(s) /\ (m <= Len(t) => t[m] < s[m])
  <2>1. m \in 1..Len(s)
    BY <1>1, <1>7
  <2>. QED
    BY <1>5, <1>7, <2>1 DEF Less
<1>8. CASE m <= Len(s) /\ m <= Len(t)
  <2>1. m \in 1..Len(s) /\ m \in 1..Len(t) /\ s[m] # t[m]
    BY <1>1, <1>8
  <2>2. s[m] \in Nat /\ t[m] \in Nat
    BY <1>2, <2>1
  <2>. QED
    BY <1>6, <1>7, <2>1, <2>2
<1>. QED
  BY <1>1, <1>6, <1>7, <1>8

LEMMA LessAsymmetric ==
    ASSUME NEW s \in Seq(Nat), NEW t \in Seq(Nat), Less(s, t)
    PROVE  ~Less(t, s) /\ s # t
BY LessIrreflexive, LessTransitive

----------------------------------------------------------------------------
(* GroupsSorted says that next pointers ascend, which a search that stops  *)
(* early needs of every pair of groups: the invariant says it of pairs.    *)

\* The groups that were linked into the list, freed or not.
Live == Group \ lost

Lower(g, h) == Less(groups[g].name, groups[h].name)

\* The next pointer of a group is the group whose name comes next.
Ordered ==
    /\ first = 0 => Live = {}
    /\ first # 0 => first \in Live
    /\ \A g \in Live : ~Lower(g, first)
    /\ \A g, h \in Live : g # h => groups[g].name # groups[h].name
    /\ \A g \in Live : groups[g].next # 0 => /\ groups[g].next \in Live
                                             /\ Lower(g, groups[g].next)
    /\ \A g, h \in Live :
          Lower(g, h) => groups[g].next # 0 /\ ~Lower(h, groups[g].next)
    /\ \A g \in Live \ {first} : \E p \in Live : groups[p].next = g

\* Where the search and the insertion stand: no group before here has the
\* name, and an insertion goes behind here only if no group has it.
Placed ==
    /\ pc = "find" =>
          /\ here = 0 => first = 0
          /\ here # 0 =>
                /\ here \in Live
                /\ \A g \in Live :
                      Lower(g, here) => Less(groups[g].name, name)
    /\ pc = "add" =>
          /\ \A g \in Live : groups[g].name # name
          /\ here # 0 => here \in Live /\ Less(groups[here].name, name)
    /\ pc = "push" => here \in Live /\ groups[here].name = name

\* A group is freed after all groups behind it.
FreedBehind ==
    /\ freed \subseteq Live
    /\ \A g \in freed, h \in Live : Lower(g, h) => h \in freed
    /\ pc \notin {"free", "done"} => freed = {} /\ lost = {} /\ ret = "OK"
    /\ pc = "done" => first = 0 \/ first \in freed
    /\ ret = "OK" => lost = {}
    /\ pc \in {"free", "done"} /\ ret = "OK" => ~buffer

OrderInv == TypeOK /\ Ordered /\ Placed /\ FreedBehind

LEMMA TypeFacts ==
    ASSUME TypeOK
    PROVE  /\ Len(groups) \in Nat
           /\ Group \subseteq Nat \ {0}
           /\ Live \subseteq Group
           /\ \A g \in Group : /\ groups[g] \in GroupType
                               /\ groups[g].name \in Seq(Nat)
                               /\ groups[g].next \in Nat
                               /\ groups[g].entries \in Seq(Nat)
<1>1. Len(groups) \in Nat
  BY DEF TypeOK
<1>2. \A g \in 1..Len(groups) : groups[g] \in GroupType
  BY ElementOfSeq DEF TypeOK
<1>. QED
  BY <1>1, <1>2 DEF Group, Live, GroupType

\* The groups of the list have names of which one is less than the other.
LEMMA LowerOrder ==
    ASSUME TypeOK, Ordered
    PROVE  /\ \A g \in Live : ~Lower(g, g)
           /\ \A g, h, k \in Live : Lower(g, h) /\ Lower(h, k) => Lower(g, k)
           /\ \A g, h \in Live : g = h \/ Lower(g, h) \/ Lower(h, g)
<1>1. \A g \in Live : groups[g].name \in Seq(Nat)
  BY TypeFacts
<1>2. \A g, h \in Live : g # h => groups[g].name # groups[h].name
  BY DEF Ordered
<1>. QED
  BY <1>1, <1>2, LessIrreflexive, LessTransitive, LessTotal DEF Lower

\* A step that leaves the names and the links of the list alone.
SameList == /\ first' = first
            /\ Live' = Live
            /\ \A g \in Live : /\ groups'[g].name = groups[g].name
                               /\ groups'[g].next = groups[g].next

LEMMA SameListOrdered ==
    ASSUME Ordered, SameList
    PROVE  Ordered'
<1>1. \A g, h \in Live : Lower(g, h)' <=> Lower(g, h)
  BY DEF SameList, Lower
<1>. QED
  BY <1>1 DEF SameList, Ordered

\* The list with a new group behind the group here.
LEMMA Inserted ==
    ASSUME OrderInv, Add
    PROVE  /\ groups' \in Seq(GroupType)
           /\ Len(groups') = Len(groups) + 1
           /\ first' = IF here = 0 THEN Len(groups) + 1 ELSE first
           /\ \A g \in Group :
                 /\ groups'[g].name = groups[g].name
                 /\ groups'[g].entries = groups[g].entries
                 /\ groups'[g].next = IF g = here THEN Len(groups) + 1
                                      ELSE groups[g].next
           /\ groups'[Len(groups) + 1] =
                 [name |-> name, next |-> Slot, entries |-> <<>>]
           /\ Slot \in Live \union {0}
           /\ Live' = Live \union {Len(groups) + 1}
<1>. DEFINE new == [name |-> name, next |-> Slot, entries |-> <<>>]
            created == Append(groups, new)
            n == Len(groups) + 1
<1>1. TypeOK /\ Ordered /\ pc = "add" /\ (here # 0 => here \in Live)
  BY DEF OrderInv, Add, Placed
<1>2. Slot \in Live \union {0}
  BY <1>1 DEF Slot, Ordered
<1>3. new \in GroupType
  BY <1>1, <1>2, TypeFacts DEF TypeOK, GroupType
<1>4. /\ created \in Seq(GroupType) /\ Len(created) = n
      /\ \A g \in Group : created[g] = groups[g]
      /\ created[n] = new
  BY <1>1, <1>3, AppendProperties DEF TypeOK, Group
<1>5. n \in Nat /\ n \notin Group /\ n \notin lost
  BY <1>1, TypeFacts DEF Group, TypeOK
<1>6. CASE here = 0
  <2>1. first' = n /\ groups' = created
    BY <1>6 DEF Add, Insert
  <2>2. Live' = Live \union {n}
    BY <1>1, <1>4, <1>5, <2>1, TypeFacts DEF Live, Group, Add
  <2>. QED
    BY <1>1, <1>2, <1>4, <1>6, <2>1, <2>2, TypeFacts
<1>7. CASE here # 0
  <2>1. first' = first /\ groups' = [created EXCEPT ![here].next = n]
    BY <1>7 DEF Add, Insert
  <2>2. here \in Group /\ here \in 1..Len(created)
    BY <1>1, <1>4, <1>7, TypeFacts DEF Group
  <2>3. [created[here] EXCEPT !.next = n] \in GroupType
    BY <1>1, <1>4, <1>5, <2>2, TypeFacts DEF GroupType
  <2>4. groups' = [created EXCEPT ![here] = [created[here] EXCEPT !.next = n]]
    BY <2>1
  <2>. HIDE DEF created, new
  <2>5. /\ groups' \in Seq(GroupType) /\ Len(groups') = Len(created)
        /\ \A g \in 1..Len(created) :
              groups'[g] = IF g = here
                           THEN [created[here] EXCEPT !.next = n]
                           ELSE created[g]
    BY <1>4, <2>2, <2>3, <2>4, ExceptSeq
  <2>6. \A g \in Group :
            /\ groups'[g].name = groups[g].name
            /\ groups'[g].entries = groups[g].entries
            /\ groups'[g].next = IF g = here THEN n ELSE groups[g].next
    <3>. TAKE g \in Group
    <3>1. g \in 1..Len(created) /\ created[g] = groups[g]
      BY <1>1, <1>4, TypeFacts DEF Group
    <3>2. groups[g] \in GroupType
      BY <1>1, TypeFacts
    <3>3. groups'[g] = IF g = here THEN [groups[g] EXCEPT !.next = n]
                       ELSE groups[g]
      BY <2>5, <3>1
    <3>. QED
      BY <3>2, <3>3 DEF GroupType
  <2>7. groups'[n] = new
    <3>1. n \in 1..Len(created) /\ n # here
      BY <1>1, <1>4, <1>5, <2>2, TypeFacts DEF Group
    <3>. QED
      BY <1>4, <2>5, <3>1
  <2>8. Live' = Live \union {n}
    BY <1>1, <1>4, <1>5, <2>5, TypeFacts DEF Live, Group, Add
  <2>. QED
    BY <1>2, <1>4, <1>7, <2>1, <2>5, <2>6, <2>7, <2>8 DEF new
<1>. QED
  BY <1>6, <1>7

\* The new group has its place between here and the group behind it.
LEMMA InsertedOrdered ==
    ASSUME OrderInv, Add
    PROVE  Ordered' /\ pc' = "push" /\ here' \in Live' /\ groups'[here'].name = name
<1>0. PICK n : n = Len(groups) + 1
  OBVIOUS
<1>1. TypeOK /\ Ordered /\ pc = "add" /\ here' = n /\ pc' = "push"
  BY <1>0 DEF OrderInv, Add
<1>2. /\ \A g \in Live : groups[g].name # name
      /\ here # 0 => here \in Live /\ Less(groups[here].name, name)
  BY <1>1 DEF OrderInv, Placed
<1>3. /\ \A g \in Live : groups[g].name \in Seq(Nat)
      /\ name \in Seq(Nat) /\ Live \subseteq Group
  BY <1>1, TypeFacts DEF TypeOK
<1>4. n \notin Live /\ n # 0
  BY <1>0, <1>1, TypeFacts DEF Group
<1>5. /\ first' = IF here = 0 THEN n ELSE first
      /\ Live' = Live \union {n}
      /\ \A g \in Live :
            /\ groups'[g].name = groups[g].name
            /\ groups'[g].next = IF g = here THEN n ELSE groups[g].next
      /\ groups'[n].name = name /\ groups'[n].next = Slot
      /\ Slot \in Live \union {0}
  BY <1>0, <1>3, Inserted
<1>6. Slot # 0 => Less(name, groups[Slot].name)
  BY DEF Add, Precedes
<1>7. \A g, h \in Live : Lower(g, h)' <=> Lower(g, h)
  BY <1>5 DEF Lower
<1>8. \A g \in Live : /\ Lower(g, n)' <=> Less(groups[g].name, name)
                      /\ Lower(n, g)' <=> Less(name, groups[g].name)
                      /\ Less(groups[g].name, name) <=> ~Less(name, groups[g].name)
  BY <1>2, <1>3, <1>5, LessTotal, LessAsymmetric DEF Lower
<1>9. ~Lower(n, n)'
  BY <1>3, <1>5, LessIrreflexive DEF Lower
\* What is less than the new name is here or less; what is greater, the group
\* behind here or greater.
<1>10. \A g \in Live : Less(groups[g].name, name) =>
                           here # 0 /\ (g = here \/ Lower(g, here))
  <2>. SUFFICES ASSUME NEW g \in Live, Less(groups[g].name, name),
                       here # 0 => g # here /\ ~Lower(g, here)
                PROVE  FALSE
    OBVIOUS
  <2>1. CASE here = 0
    <3>1. Slot = first /\ Slot # 0 /\ Slot \in Live
      BY <1>1, <2>1 DEF Slot, Ordered
    <3>2. ~Lower(g, first)
      BY <1>1 DEF Ordered
    <3>3. Less(name, groups[Slot].name) /\ Less(groups[g].name, groups[Slot].name)
      BY <1>3, <1>6, <3>1, LessTransitive
    <3>. QED
      BY <3>1, <3>2, <3>3 DEF Lower
  <2>2. CASE here # 0
    <3>1. here \in Live /\ Lower(here, g)
      BY <1>1, <1>2, <2>2, LowerOrder
    <3>2. Slot # 0 /\ Slot \in Live /\ ~Lower(g, Slot)
      BY <1>1, <1>5, <2>2, <3>1 DEF Slot, Ordered
    <3>3. Less(groups[g].name, groups[Slot].name)
      BY <1>3, <1>6, <3>2, LessTransitive
    <3>. QED
      BY <3>2, <3>3 DEF Lower
  <2>. QED
    BY <2>1, <2>2
<1>11. \A g \in Live : Less(name, groups[g].name) => Slot # 0 /\ ~Lower(g, Slot)
  <2>. TAKE g \in Live
  <2>. HAVE Less(name, groups[g].name)
  <2>1. CASE here = 0
    BY <1>1, <2>1 DEF Slot, Ordered
  <2>2. CASE here # 0
    <3>1. here \in Live /\ Lower(here, g)
      BY <1>2, <1>3, <2>2, LessTransitive DEF Lower
    <3>. QED
      BY <1>1, <2>2, <3>1 DEF Slot, Ordered
  <2>. QED
    BY <2>1, <2>2
<1>12. Ordered'
  <2>1. first' # 0 /\ first' \in Live'
    BY <1>1, <1>2, <1>4, <1>5 DEF Ordered
  <2>2. \A g \in Live' : ~Lower(g, first)'
    <3>1. CASE here = 0
      BY <1>5, <1>8, <1>9, <1>10, <3>1 DEF Lower
    <3>2. CASE here # 0
      <4>1. first \in Live /\ first' = first
        BY <1>1, <1>2, <1>5, <3>2 DEF Ordered
      <4>2. \A g \in Live : ~Lower(g, first)
        BY <1>1 DEF Ordered
      <4>3. here = first \/ Lower(first, here)
        BY <1>1, <1>2, <3>2, <4>1, <4>2, LowerOrder
      <4>4. Less(groups[first].name, name)
        BY <1>2, <1>3, <3>2, <4>1, <4>3, LessTransitive DEF Lower
      <4>5. ~Less(name, groups[first].name)
        BY <1>8, <4>1, <4>4
      <4>. QED
        BY <1>5, <1>7, <1>8, <4>1, <4>2, <4>5 DEF Lower
    <3>. QED
      BY <3>1, <3>2
  <2>3. \A g, h \in Live' : g # h => groups'[g].name # groups'[h].name
    BY <1>1, <1>2, <1>5 DEF Ordered
  <2>4. \A g \in Live' : groups'[g].next # 0 =>
                            /\ groups'[g].next \in Live'
                            /\ Less(groups'[g].name, groups'[groups'[g].next].name)
    <3>. TAKE g \in Live'
    <3>. HAVE groups'[g].next # 0
    <3>1. CASE g = n
      BY <1>5, <1>6, <3>1
    <3>2. CASE g \in Live /\ g = here
      <4>1. here # 0
        BY <1>1, <1>3, <3>2, TypeFacts
      <4>. QED
        BY <1>2, <1>5, <3>2, <4>1
    <3>3. CASE g \in Live /\ g # here
      <4>1. groups[g].next \in Live /\ Lower(g, groups[g].next)
        BY <1>1, <1>5, <3>3 DEF Ordered
      <4>. QED
        BY <1>5, <3>3, <4>1 DEF Lower
    <3>. QED
      BY <1>5, <3>1, <3>2, <3>3
  <2>5. \A g, h \in Live' :
           Lower(g, h)' => groups'[g].next # 0 /\ ~Less(groups'[h].name, groups'[groups'[g].next].name)
    <3>. TAKE g, h \in Live'
    <3>. HAVE Lower(g, h)'
    <3>1. CASE g = n
      <4>1. h \in Live /\ Less(name, groups[h].name)
        BY <1>5, <1>8, <1>9, <3>1
      <4>2. Slot # 0 /\ ~Lower(h, Slot) /\ Slot \in Live
        BY <1>5, <1>11, <4>1
      <4>. QED
        BY <1>5, <3>1, <4>1, <4>2 DEF Lower
    <3>2. CASE g \in Live /\ g = here
      <4>1. groups'[g].next = n
        BY <1>5, <3>2
      <4>2. ~Lower(h, n)'
        <5>1. CASE h = n
          BY <1>9, <5>1
        <5>2. CASE h \in Live
          <6>1. Lower(here, h)
            BY <1>7, <3>2, <5>2
          <6>2. ~(h = here \/ Lower(h, here))
            BY <1>1, <3>2, <5>2, <6>1, LowerOrder
          <6>. QED
            BY <1>8, <1>10, <5>2, <6>2
        <5>. QED
          BY <1>5, <5>1, <5>2
      <4>. QED
        BY <1>4, <4>1, <4>2 DEF Lower
    <3>3. CASE g \in Live /\ g # here
      <4>1. groups'[g].next = groups[g].next
        BY <1>5, <3>3
      <4>2. CASE h \in Live
        <5>1. /\ groups[g].next # 0 /\ ~Lower(h, groups[g].next)
              /\ groups[g].next \in Live
          BY <1>1, <1>7, <3>3, <4>2 DEF Ordered
        <5>. QED
          BY <1>5, <4>1, <4>2, <5>1 DEF Lower
      <4>3. CASE h = n
        <5>1. Less(groups[g].name, name)
          BY <1>8, <3>3, <4>3
        <5>2. here # 0 /\ here \in Live /\ Lower(g, here)
          BY <1>2, <1>10, <3>3, <5>1
        <5>3. /\ groups[g].next # 0 /\ groups[g].next \in Live
              /\ ~Lower(here, groups[g].next)
          BY <1>1, <3>3, <5>2 DEF Ordered
        <5>4. here = groups[g].next \/ Lower(groups[g].next, here)
          BY <1>1, <5>2, <5>3, LowerOrder
        <5>5. Less(groups[groups[g].next].name, name)
          BY <1>2, <1>3, <5>2, <5>3, <5>4, LessTransitive DEF Lower
        <5>6. ~Less(name, groups[groups[g].next].name)
          BY <1>8, <5>3, <5>5
        <5>. QED
          BY <1>5, <4>1, <4>3, <5>3, <5>6
      <4>. QED
        BY <1>5, <4>2, <4>3
    <3>. QED
      BY <1>5, <3>1, <3>2, <3>3
  <2>6. \A g \in Live' \ {first'} : \E p \in Live' : groups'[p].next = g
    <3>. TAKE g \in Live' \ {first'}
    <3>1. CASE g = n
      BY <1>2, <1>5, <3>1
    <3>2. CASE g \in Live /\ g = Slot
      BY <1>5, <3>2
    <3>3. CASE g \in Live /\ g # Slot
      <4>1. g # first
        BY <1>5, <3>3 DEF Slot
      <4>2. PICK p \in Live : groups[p].next = g
        BY <1>1, <3>3, <4>1 DEF Ordered
      <4>3. p # here
        BY <1>2, <1>3, <3>3, <4>2, <1>1, TypeFacts DEF Slot
      <4>. QED
        BY <1>5, <4>2, <4>3
    <3>. QED
      BY <1>5, <3>1, <3>2, <3>3
  <2>. QED
    BY <2>1, <2>2, <2>3, <2>4, <2>5, <2>6 DEF Ordered, Lower
<1>. QED
  BY <1>1, <1>5, <1>12

----------------------------------------------------------------------------
(* Every step keeps the invariant, one part after the other. *)

\* A step that touches no group and does not say which are linked.
Untouched == UNCHANGED <<input, kind, groups, first, lost>>

LEMMA UntouchedSame ==
    ASSUME Untouched
    PROVE  SameList
BY DEF Untouched, SameList, Live, Group

LEMMA PushedSame ==
    ASSUME OrderInv, Push
    PROVE  /\ SameList
           /\ groups' \in Seq(GroupType) /\ Len(groups') = Len(groups)
           /\ \A g \in Group : groups'[g] =
                 IF g = here
                 THEN [groups[g] EXCEPT !.entries = Append(@, at)]
                 ELSE groups[g]
<1>1. TypeOK /\ here \in Live /\ at \in Nat
  <2>1. TypeOK /\ here \in Live
    BY DEF OrderInv, Placed, Push
  <2>2. Len(input) \in Nat
    BY <2>1 DEF TypeOK
  <2>. QED
    BY <2>1, <2>2 DEF TypeOK
<1>2. here \in 1..Len(groups) /\ Group = 1..Len(groups) /\ here \in Group
  BY <1>1, TypeFacts DEF Group
<1>3. Append(groups[here].entries, at) \in Seq(Nat)
  BY <1>1, <1>2, TypeFacts, AppendProperties
<1>. DEFINE pushed == [groups[here] EXCEPT !.entries = Append(@, at)]
<1>4. pushed \in GroupType
  BY <1>1, <1>2, <1>3, TypeFacts DEF GroupType
<1>5. groups' = [groups EXCEPT ![here] = pushed]
  BY DEF Push
<1>6. groups \in Seq(GroupType)
  BY <1>1 DEF TypeOK
<1>7. /\ pushed.name = groups[here].name
      /\ pushed.next = groups[here].next
  BY <1>1, <1>2, TypeFacts DEF GroupType
<1>. HIDE DEF pushed
<1>8. /\ groups' \in Seq(GroupType) /\ Len(groups') = Len(groups)
      /\ \A g \in Group : groups'[g] = IF g = here THEN pushed ELSE groups[g]
  BY <1>2, <1>4, <1>5, <1>6, ExceptSeq
<1>9. SameList
  BY <1>1, <1>7, <1>8, TypeFacts DEF SameList, Live, Group, Push
<1>. QED
  BY <1>8, <1>9 DEF pushed

\* A failed allocation of a group appends one that is never linked.
LEMMA AddFailsSame ==
    ASSUME OrderInv, AddFails
    PROVE  /\ SameList
           /\ groups' \in Seq(GroupType) /\ Len(groups') >= Len(groups)
           /\ lost' \subseteq 1..Len(groups')
<1>1. TypeOK /\ Len(groups) \in Nat
  BY TypeFacts DEF OrderInv
<1>. DEFINE new == [name |-> <<>>, next |-> 0, entries |-> <<>>]
<1>2. CASE UNCHANGED <<groups, lost>>
  BY <1>1, <1>2 DEF AddFails, SameList, Live, Group, TypeOK
<1>3. CASE /\ groups' = Append(groups, new)
           /\ lost' = lost \union {Len(groups) + 1}
  <2>1. new \in GroupType
    BY DEF GroupType
  <2>. HIDE DEF new
  <2>2. /\ groups' \in Seq(GroupType) /\ Len(groups') = Len(groups) + 1
        /\ \A g \in Group : groups'[g] = groups[g]
    <3>1. groups \in Seq(GroupType) /\ Group = 1..Len(groups)
      BY <1>1 DEF TypeOK, Group
    <3>2. /\ Append(groups, new) \in Seq(GroupType)
          /\ Len(Append(groups, new)) = Len(groups) + 1
          /\ \A g \in 1..Len(groups) : Append(groups, new)[g] = groups[g]
      BY <2>1, <3>1, AppendProperties
    <3>. QED
      BY <1>3, <3>1, <3>2
  <2>3. lost' \subseteq 1..Len(groups')
    <3>1. lost \subseteq 1..Len(groups) /\ lost' = lost \union {Len(groups) + 1}
      BY <1>1, <1>3 DEF TypeOK, Group
    <3>2. Len(groups) \in Nat /\ Len(groups') = Len(groups) + 1
      BY <1>1, <2>2
    <3>3. ASSUME NEW g \in lost'
          PROVE  g \in 1..Len(groups')
      <4>1. g \in 1..Len(groups) \/ g = Len(groups) + 1
        BY <3>1, <3>3
      <4>. QED
        BY <3>2, <4>1
    <3>. QED
      BY <3>3
  <2>4. Live' = Live
    <3>1. lost' = lost \union {Len(groups) + 1}
      BY <1>3
    <3>. QED
      BY <1>1, <2>2, <3>1 DEF Live, Group
  <2>. QED
    BY <1>1, <2>2, <2>3, <2>4, TypeFacts DEF SameList, AddFails
<1>. QED
  BY <1>2, <1>3 DEF AddFails

LEMMA TypeStep ==
    ASSUME OrderInv, [Next]_vars
    PROVE  TypeOK'
<1>1. TypeOK /\ Ordered /\ Placed
  BY DEF OrderInv
<1>2. Len(input) \in Nat /\ Len(groups) \in Nat
  BY <1>1 DEF TypeOK
<1>3. \A g \in Live : g \in 1..Len(groups) /\ g # 0
  BY <1>1, TypeFacts DEF Group
<1>. USE DEF TypeOK, Fail, Group
<1>4. CASE NextEntry
  <2>1. at + 1 \in 0..Len(input) /\ at + 1 \in 1..Len(input)
    BY <1>1, <1>2, <1>4 DEF NextEntry
  <2>2. input[at + 1] \in Seq(Nat)
    BY <1>1, <2>1, ElementOfSeq, NameAssumption
  <2>. QED
    BY <1>1, <1>4, <2>1, <2>2 DEF NextEntry
<1>5. CASE LastEntry
  BY <1>1, <1>5 DEF LastEntry
<1>6. CASE Cut
  <2>1. PICK p \in 2..Len(name) : name' = SubSeq(name, 1, p - 1)
    BY <1>6 DEF Cut
  <2>2. name' \in Seq(Nat)
    BY <1>1, <2>1, SubSeqProperties
  <2>. QED
    BY <1>1, <1>6, <2>2 DEF Cut
<1>7. CASE NoCut
  BY <1>1, <1>7 DEF NoCut
<1>8. CASE CutFails
  BY <1>1, <1>8 DEF CutFails
<1>9. CASE Found
  BY <1>1, <1>9 DEF Found
<1>10. CASE FindNext
  <2>1. groups[here].next \in Live
    BY <1>1, <1>10 DEF FindNext, Placed, Ordered
  <2>. QED
    BY <1>1, <1>3, <1>10, <2>1 DEF FindNext
<1>11. CASE NotFound
  BY <1>1, <1>2, <1>11 DEF NotFound
<1>12. CASE AddNext
  <2>1. Slot \in Live
    BY <1>1, <1>12 DEF AddNext, Placed, Ordered, Precedes, Slot
  <2>. QED
    BY <1>1, <1>3, <1>12, <2>1 DEF AddNext
<1>13. CASE Add
  <2>1. /\ groups' \in Seq(GroupType) /\ Len(groups') = Len(groups) + 1
        /\ first' \in 0..Len(groups') /\ here' \in 1..Len(groups')
    BY <1>1, <1>2, <1>13, Inserted DEF Add
  <2>2. lost' \subseteq 1..Len(groups') /\ freed' \subseteq 1..Len(groups')
    BY <1>1, <1>2, <1>13, <2>1 DEF Add
  <2>. QED
    BY <1>1, <1>13, <2>1, <2>2 DEF Add
<1>14. CASE AddFails
  <2>1. /\ groups' \in Seq(GroupType) /\ Len(groups') \in Nat
        /\ Len(groups') >= Len(groups) /\ lost' \subseteq 1..Len(groups')
    BY <1>14, AddFailsSame
  <2>2. /\ first' \in 0..Len(groups') /\ here' \in 0..Len(groups')
        /\ freed' \subseteq 1..Len(groups')
    BY <1>1, <1>2, <1>14, <2>1 DEF AddFails
  <2>. QED
    BY <1>1, <1>14, <2>1, <2>2 DEF AddFails
<1>15. CASE Push
  <2>1. groups' \in Seq(GroupType) /\ Len(groups') = Len(groups)
    BY <1>15, PushedSame
  <2>. QED
    BY <1>1, <1>15, <2>1 DEF Push
<1>16. CASE PushFails
  BY <1>1, <1>16 DEF PushFails
<1>17. CASE FreeGroup
  BY <1>1, <1>17 DEF FreeGroup
<1>18. CASE FreeDone
  BY <1>1, <1>18 DEF FreeDone
<1>19. CASE UNCHANGED vars
  BY <1>1, <1>19 DEF vars
<1>. QED
  BY <1>4, <1>5, <1>6, <1>7, <1>8, <1>9, <1>10, <1>11, <1>12, <1>13, <1>14,
     <1>15, <1>16, <1>17, <1>18, <1>19 DEF Next, GroupBy, Find, AddForName, Free

LEMMA OrderedStep ==
    ASSUME OrderInv, [Next]_vars
    PROVE  Ordered' /\ (Add \/ SameList)
<1>1. CASE Add
  BY <1>1, InsertedOrdered
<1>2. CASE Push
  BY <1>2, PushedSame, SameListOrdered DEF OrderInv
<1>3. CASE AddFails
  BY <1>3, AddFailsSame, SameListOrdered DEF OrderInv
<1>4. CASE \/ NextEntry \/ LastEntry \/ Cut \/ NoCut \/ CutFails \/ Found
           \/ FindNext \/ NotFound \/ AddNext \/ PushFails \/ FreeGroup
           \/ FreeDone \/ UNCHANGED vars
  <2>1. Untouched
    BY <1>4 DEF NextEntry, LastEntry, Cut, NoCut, CutFails, Found, FindNext,
                NotFound, AddNext, PushFails, FreeGroup, FreeDone, vars,
                Untouched
  <2>. QED
    BY <2>1, UntouchedSame, SameListOrdered DEF OrderInv
<1>. QED
  BY <1>1, <1>2, <1>3, <1>4 DEF Next, GroupBy, Find, AddForName, Free

LEMMA PlacedStep ==
    ASSUME OrderInv, [Next]_vars
    PROVE  Placed'
<1>1. TypeOK /\ Ordered /\ Placed
  BY DEF OrderInv
<1>2. /\ \A g \in Live : groups[g].name \in Seq(Nat)
      /\ name \in Seq(Nat)
      /\ \A g \in Live : g # 0
  BY <1>1, TypeFacts DEF TypeOK
<1>3. CASE Add
  BY <1>3, InsertedOrdered DEF Placed, Add
<1>4. CASE Push
  BY <1>4 DEF Placed, Push
<1>5. CASE ~Add /\ ~Push /\ pc' \notin {"find", "add", "push"}
  BY <1>5 DEF Placed
<1>6. ASSUME SameList, pc' = "find", here' = first
      PROVE  Placed'
  <2>1. CASE first = 0
    BY <1>6, <2>1 DEF Placed, SameList
  <2>2. CASE first # 0
    <3>1. first \in Live /\ \A g \in Live : ~Lower(g, first)
      BY <1>1, <2>2 DEF Ordered
    <3>2. \A g \in Live' : ~Lower(g, here)'
      BY <1>6, <3>1 DEF SameList, Lower
    <3>. QED
      BY <1>6, <2>2, <3>1, <3>2 DEF Placed, SameList
  <2>. QED
    BY <2>1, <2>2
<1>7. CASE NextEntry /\ pc' = "find"
  BY <1>6, <1>7, OrderedStep DEF NextEntry, Add, Fail
<1>8. CASE Cut
  BY <1>6, <1>8, OrderedStep DEF Cut, Add
<1>9. CASE Found
  BY <1>1, <1>2, <1>9, UntouchedSame
  DEF Found, Placed, Untouched, SameList
<1>10. CASE FindNext
  <2>1. /\ here \in Live /\ here' = groups[here].next /\ here' \in Live
        /\ Less(groups[here].name, name) /\ Lower(here, groups[here].next)
    BY <1>1, <1>10 DEF FindNext, Placed, Ordered
  <2>2. ASSUME NEW g \in Live, Lower(g, groups[here].next)
        PROVE  Less(groups[g].name, name)
    <3>1. ~Lower(here, g)
      <4>1. groups[g].name \in Seq(Nat) /\ groups[groups[here].next].name \in Seq(Nat)
        BY <1>2, <2>1
      <4>. QED
        BY <1>1, <2>1, <2>2 DEF Ordered
    <3>2. g = here \/ Lower(g, here)
      BY <1>1, <2>1, <3>1, LowerOrder
    <3>. QED
      BY <1>2, <2>1, <3>2, LessTransitive DEF Lower
  <2>. QED
    BY <1>2, <1>10, <2>1, <2>2, UntouchedSame
    DEF FindNext, Placed, Untouched, Lower, Live, Group
<1>11. CASE NotFound
  <2>1. \A g \in Live : groups[g].name # name
    <3>. SUFFICES ASSUME NEW g \in Live, groups[g].name = name
                  PROVE  FALSE
      OBVIOUS
    <3>1. here \in Live /\ here # 0
      BY <1>1, <1>11 DEF NotFound, Placed, Ordered
    <3>2. CASE Less(name, groups[here].name)
      BY <1>1, <1>2, <1>11, <3>1, <3>2, LessIrreflexive
      DEF NotFound, Placed, Lower
    <3>3. CASE Less(groups[here].name, name) /\ groups[here].next = 0
      BY <1>1, <3>1, <3>3 DEF Ordered, Lower
    <3>. QED
      BY <1>11, <3>1, <3>2, <3>3 DEF NotFound
  <2>. QED
    BY <1>11, <2>1 DEF NotFound, Placed, Live, Group
<1>12. CASE AddNext
  <2>1. Slot \in Live /\ ~Less(name, groups[Slot].name)
    BY <1>1, <1>12 DEF AddNext, Placed, Ordered, Precedes, Slot
  <2>2. Less(groups[Slot].name, name)
    BY <1>1, <1>2, <1>12, <2>1, LessTotal DEF AddNext, Placed
  <2>. QED
    BY <1>1, <1>12, <2>1, <2>2 DEF AddNext, Placed, Live, Group
<1>13. CASE UNCHANGED vars
  BY <1>1, <1>13 DEF vars, Placed, Live, Group, Lower
<1>. QED
  BY <1>3, <1>4, <1>5, <1>7, <1>8, <1>9, <1>10, <1>11, <1>12, <1>13
  DEF Next, GroupBy, Find, AddForName, Free, NextEntry, LastEntry, NoCut,
      CutFails, AddFails, PushFails, FreeGroup, FreeDone, Fail

LEMMA FreedStep ==
    ASSUME OrderInv, [Next]_vars
    PROVE  FreedBehind'
<1>1. TypeOK /\ Ordered /\ FreedBehind
  BY DEF OrderInv
<1>2. CASE FreeGroup
  <2>1. PICK g \in Group \ freed : Frees(g) /\ freed' = freed \union {g}
    BY <1>2 DEF FreeGroup
  <2>2. g \in Live
    BY <2>1 DEF Frees, Linked, Live
  <2>3. \A h \in Live : Lower(g, h) => h \in freed
    <3>. TAKE h \in Live
    <3>. HAVE Lower(g, h)
    <3>1. /\ groups[g].next # 0 /\ ~Lower(h, groups[g].next)
          /\ groups[g].next \in Live
      BY <1>1, <2>2 DEF Ordered
    <3>2. groups[g].next \in freed
      BY <2>1, <3>1 DEF Frees
    <3>. QED
      BY <1>1, <3>1, <3>2, LowerOrder DEF FreedBehind
  <2>. QED
    BY <1>1, <1>2, <2>1, <2>2, <2>3 DEF FreeGroup, FreedBehind, Live, Group, Lower
<1>3. CASE FreeDone
  BY <1>1, <1>3 DEF FreeDone, FreedBehind, Live, Group, Lower
<1>4. CASE UNCHANGED vars
  BY <1>1, <1>4 DEF vars, FreedBehind, Live, Group, Lower
<1>5. CASE \/ NextEntry \/ LastEntry \/ Cut \/ NoCut \/ CutFails \/ Found
           \/ FindNext \/ NotFound \/ AddNext \/ Add \/ Push \/ PushFails
  <2>1. freed = {} /\ lost = {} /\ ret = "OK"
    BY <1>1, <1>5 DEF NextEntry, LastEntry, Cut, NoCut, CutFails, Found,
        FindNext, NotFound, AddNext, Add, Push, PushFails, FreedBehind
  <2>2. freed' = {} /\ lost' = {} /\ pc' # "done"
    BY <1>5, <2>1 DEF NextEntry, LastEntry, Cut, NoCut, CutFails, Found,
        FindNext, NotFound, AddNext, Add, Push, PushFails, Fail
  <2>3. \/ pc' # "free" /\ ret' = "OK"
        \/ pc' = "free" /\ ret' # "OK"
        \/ pc' = "free" /\ ~buffer'
    BY <1>5, <2>1 DEF NextEntry, LastEntry, Cut, NoCut, CutFails, Found,
        FindNext, NotFound, AddNext, Add, Push, PushFails, Fail
  <2>. QED
    BY <2>2, <2>3 DEF FreedBehind
<1>6. CASE AddFails
  <2>1. freed' = {} /\ pc' = "free" /\ ret' = "ERR_MEM"
    BY <1>1, <1>6 DEF AddFails, Fail, FreedBehind
  <2>. QED
    BY <2>1 DEF FreedBehind
<1>. QED
  BY <1>2, <1>3, <1>4, <1>5, <1>6 DEF Next, GroupBy, Find, AddForName, Free

LEMMA OrderInit == Init => OrderInv
<1>. SUFFICES ASSUME Init
              PROVE  OrderInv
  OBVIOUS
<1>1. input \in Seq(Name)
  BY MaxLenAssumption DEF Init
<1>2. groups = <<>> /\ Len(groups) = 0 /\ Group = {} /\ Live = {}
  BY DEF Init, Group, Live
<1>3. TypeOK
  <2>1. Len(input) \in Nat /\ groups \in Seq(GroupType) /\ name \in Seq(Nat)
    BY <1>1 DEF Init
  <2>2. 0 \in 0..Len(input) /\ 0 \in 0..Len(groups)
    BY <1>2, <2>1
  <2>3. /\ first = 0 /\ at = 0 /\ here = 0 /\ buffer \in BOOLEAN
        /\ lost = {} /\ freed = {} /\ kind \in Kind
        /\ pc = "loop" /\ ret = "OK"
    BY DEF Init
  <2>. QED
    BY <1>1, <2>1, <2>2, <2>3 DEF TypeOK
<1>. QED
  BY <1>2, <1>3 DEF Init, OrderInv, Ordered, Placed, FreedBehind

LEMMA OrderCorrect == Spec => []OrderInv
<1>1. OrderInv /\ [Next]_vars => OrderInv'
  BY TypeStep, OrderedStep, PlacedStep, FreedStep DEF OrderInv
<1>. QED
  BY <1>1, OrderInit, PTL DEF Spec

\* group.c: the model's variables have the types of the code's variables, and
\* an entry is pushed onto the list of a group, never through a null pointer.
THEOREM TypeCorrect == Spec => []TypeOK
<1>1. OrderInv => TypeOK
  BY DEF OrderInv
<1>. QED
  BY <1>1, OrderCorrect, PTL

\* _dpl_group_find and _dpl_group_add: until they are freed, the groups lie on
\* one path of next pointers in the order of strcmp, whatever the strings are.
THEOREM SortedCorrect == Spec => []GroupsSorted
<1>1. OrderInv => GroupsSorted
  <2>. SUFFICES ASSUME OrderInv, pc \notin {"free", "done"}
                PROVE  /\ first = 0 <=> Live = {}
                       /\ first # 0 => first \in Live
                       /\ \A g \in Live :
                             groups[g].next # 0 =>
                                 /\ groups[g].next \in Live
                                 /\ Less(groups[g].name,
                                         groups[groups[g].next].name)
                       /\ \A g \in Live \ {first} :
                             \E p \in Live : groups[p].next = g
    BY DEF GroupsSorted, OrderInv, FreedBehind, Live, Linked
  <2>. QED
    BY DEF OrderInv, Ordered, Lower
<1>. QED
  BY <1>1, OrderCorrect, PTL

\* dpl_group_free: the call for the first group frees every group that was
\* linked, after a failure as well, and without a failure nothing is left.
THEOREM FreedCorrect == Spec => []GroupsFreed
<1>1. OrderInv => GroupsFreed
  <2>. SUFFICES ASSUME OrderInv, pc = "done"
                PROVE  Linked = {} /\ (ret = "OK" => lost = {} /\ ~buffer)
    BY DEF GroupsFreed
  <2>1. \A g \in Live : g \in freed
    BY LowerOrder DEF OrderInv, Ordered, FreedBehind
  <2>. QED
    BY <2>1 DEF OrderInv, FreedBehind, Linked, Live
<1>. QED
  BY <1>1, OrderCorrect, PTL

----------------------------------------------------------------------------
(* GroupsExact says what the groups hold between two entries; the invariant *)
(* says it while an entry is being put into its groups, of which those with *)
(* the longer names come first.                                             *)

\* k is one of the names of entry e, and its group has got the entry.
Entered(e, k) ==
    /\ k \in KeysOf(input[e])
    /\ \/ e < at \/ pc = "loop"
       \/ Len(k) > Len(name)
       \/ pc = "cut" /\ k = name

\* name is what is left of the string of the current entry.
Current == /\ at # 0
           /\ name \in KeysOf(input[at])
           /\ pc = "cut" => kind = "CATEGORY"

Named == /\ \A g \in Live : \/ \E e \in 1..at : Entered(e, groups[g].name)
                            \/ pc = "push" /\ groups[g].name = name
         /\ \A e \in 1..at : \A k \in KeysOf(input[e]) :
               Entered(e, k) => \E g \in Live : groups[g].name = k

Holds(g) ==
    LET held == groups[g].entries
    IN  /\ \A i \in 1..Len(held) : /\ held[i] \in 1..at
                                   /\ Entered(held[i], groups[g].name)
        /\ \A e \in 1..at : Entered(e, groups[g].name) =>
                               \E i \in 1..Len(held) : held[i] = e
        /\ \A i, j \in 1..Len(held) : i < j => held[i] < held[j]

ExactInv == pc \notin {"free", "done"} => /\ pc # "loop" => Current
                                          /\ Named
                                          /\ \A g \in Live : Holds(g)

\* A key is the string or what is in front of one of its slashes.
LEMMA KeyType ==
    ASSUME NEW s \in Seq(Nat), NEW k \in KeysOf(s)
    PROVE  /\ k \in Seq(Nat) /\ Len(k) <= Len(s) /\ Len(k) \in Nat
           /\ \A i \in 1..Len(k) : k[i] = s[i]
           /\ k # s => /\ kind = "CATEGORY" /\ Len(k) + 1 \in 2..Len(s)
                       /\ s[Len(k) + 1] = Slash
<1>1. Len(s) \in Nat
  OBVIOUS
<1>2. CASE k = s
  BY <1>1, <1>2
<1>3. CASE k # s
  <2>1. /\ kind = "CATEGORY"
        /\ \E p \in {q \in 2..Len(s) : s[q] = Slash} : k = SubSeq(s, 1, p - 1)
    BY <1>3 DEF KeysOf
  <2>2. PICK p \in 2..Len(s) : s[p] = Slash /\ k = SubSeq(s, 1, p - 1)
    BY <2>1
  <2>3. /\ k \in Seq(Nat) /\ Len(k) = p - 1
        /\ \A i \in 1..(p - 1) : k[i] = s[i]
    <3>1. /\ 1 \in 1..(Len(s) + 1) /\ p - 1 \in 0..Len(s) /\ p - 1 \in Nat
          /\ p - 1 >= 1
      BY <1>1, <2>2
    <3>. QED
      BY <1>1, <2>2, <3>1, SubSeqProperties
  <2>. QED
    BY <1>1, <2>1, <2>2, <2>3
<1>. QED
  BY <1>2, <1>3

LEMMA KeyUnique ==
    ASSUME NEW s \in Seq(Nat), NEW k \in KeysOf(s), NEW l \in KeysOf(s),
           Len(k) = Len(l)
    PROVE  k = l
<1>1. k \in Seq(Nat) /\ l \in Seq(Nat) /\ \A i \in 1..Len(k) : k[i] = l[i]
  BY KeyType
<1>. QED
  BY <1>1, SeqEqual

LEMMA KeyMade ==
    ASSUME NEW s \in Seq(Nat), kind = "CATEGORY", NEW q \in 2..Len(s), s[q] = Slash
    PROVE  SubSeq(s, 1, q - 1) \in KeysOf(s)
BY DEF KeysOf

LEMMA KeysStay ==
    ASSUME UNCHANGED <<input, kind>>
    PROVE  \A e : KeysOf(input[e])' = KeysOf(input[e])
BY DEF KeysOf

LEMMA EntryFacts ==
    ASSUME TypeOK
    PROVE  /\ Len(input) \in Nat /\ at \in Nat /\ at <= Len(input)
           /\ \A e \in 1..Len(input) : input[e] \in Seq(Nat)
           /\ \A e \in 1..at : /\ input[e] \in Seq(Nat)
                               /\ e < at \/ e = at
<1>1. Len(input) \in Nat /\ at \in 0..Len(input)
  BY DEF TypeOK
<1>2. \A e \in 1..Len(input) : input[e] \in Seq(Nat)
  <2>1. \A e \in 1..Len(input) : input[e] \in Name
    BY ElementOfSeq DEF TypeOK
  <2>. QED
    BY <2>1, NameAssumption
<1>. QED
  BY <1>1, <1>2

\* The names still to come once those of at least this length have been.
LEMMA CutKeys ==
    ASSUME TypeOK, Current, pc = "cut"
    PROVE  /\ \A k \in KeysOf(input[at]) :
                 Len(k) < Len(name) =>
                    /\ Len(k) + 1 \in 2..Len(name)
                    /\ name[Len(k) + 1] = Slash
           /\ \A p \in 2..Len(name) :
                 name[p] = Slash => /\ SubSeq(name, 1, p - 1) \in KeysOf(input[at])
                                    /\ Len(SubSeq(name, 1, p - 1)) = p - 1
<1>. DEFINE s == input[at]
<1>1. at \in 1..at /\ s \in Seq(Nat) /\ name \in KeysOf(s) /\ kind = "CATEGORY"
  BY EntryFacts DEF Current
<1>2. Len(s) \in Nat /\ Len(name) \in Nat
  BY <1>1 DEF TypeOK
<1>3. /\ Len(name) <= Len(s) /\ name \in Seq(Nat)
      /\ \A i \in 1..Len(name) : name[i] = s[i]
  BY <1>1, KeyType
<1>. HIDE DEF s
<1>4. ASSUME NEW k \in KeysOf(s), Len(k) < Len(name)
      PROVE  Len(k) + 1 \in 2..Len(name) /\ name[Len(k) + 1] = Slash
  <2>1. /\ Len(k) \in Nat
        /\ k # s => Len(k) + 1 \in 2..Len(s) /\ s[Len(k) + 1] = Slash
    BY <1>1, <1>4, KeyType
  <2>2. k # s
    BY <1>2, <1>3, <1>4
  <2>3. Len(k) + 1 \in 2..Len(name)
    BY <1>2, <1>4, <2>1, <2>2
  <2>. QED
    BY <1>2, <1>3, <2>1, <2>2, <2>3
<1>5. ASSUME NEW p \in 2..Len(name), name[p] = Slash
      PROVE  /\ SubSeq(name, 1, p - 1) \in KeysOf(s)
             /\ Len(SubSeq(name, 1, p - 1)) = p - 1
  <2>1. p \in 2..Len(s) /\ s[p] = Slash
    BY <1>2, <1>3, <1>5
  <2>2. SubSeq(s, 1, p - 1) \in KeysOf(s)
    BY <1>1, <2>1, KeyMade
  <2>3. /\ p - 1 \in Nat /\ p - 1 \in 0..Len(s) /\ p - 1 \in 0..Len(name)
        /\ 1 <= p - 1 /\ 1 \in 1..(Len(s) + 1) /\ 1 \in 1..(Len(name) + 1)
    BY <1>2, <2>1, <1>5
  <2>4. /\ SubSeq(s, 1, p - 1) \in Seq(Nat) /\ Len(SubSeq(s, 1, p - 1)) = p - 1
        /\ \A i \in 1..(p - 1) : SubSeq(s, 1, p - 1)[i] = s[i]
    BY <1>1, <2>3, SubSeqProperties
  <2>5. /\ SubSeq(name, 1, p - 1) \in Seq(Nat)
        /\ Len(SubSeq(name, 1, p - 1)) = p - 1
        /\ \A i \in 1..(p - 1) : SubSeq(name, 1, p - 1)[i] = name[i]
    BY <1>3, <2>3, SubSeqProperties
  <2>6. \A i \in 1..(p - 1) : name[i] = s[i]
    BY <1>2, <1>3, <1>5
  <2>7. SubSeq(name, 1, p - 1) = SubSeq(s, 1, p - 1)
    BY <2>4, <2>5, <2>6, SeqEqual
  <2>. QED
    BY <2>2, <2>5, <2>7
<1>. QED
  BY <1>4, <1>5 DEF s

\* A step that adds no group and reads no entry, and after which the same
\* groups should have got the entries read.
LEMMA SameEntered ==
    ASSUME SameList, UNCHANGED <<input, kind, at>>, Named,
           \A g \in Live : Holds(g),
           \A g \in Live : groups'[g].entries = groups[g].entries,
           \A e \in 1..at : \A k : Entered(e, k)' <=> Entered(e, k),
           pc = "push" => pc' = "push" /\ name' = name
    PROVE  Named' /\ \A g \in Live' : Holds(g)'
<1>1. Named'
  <2>1. \A g \in Live' : \/ \E e \in 1..at' : Entered(e, groups[g].name)'
                         \/ pc' = "push" /\ groups'[g].name = name'
    BY DEF Named, SameList
  <2>2. \A e \in 1..at' : \A k \in KeysOf(input[e])' :
            Entered(e, k)' => \E g \in Live' : groups'[g].name = k
    BY KeysStay DEF Named, SameList
  <2>. QED
    BY <2>1, <2>2 DEF Named
<1>2. ASSUME NEW g \in Live'
      PROVE  Holds(g)'
  <2>1. /\ Holds(g) /\ groups'[g].entries = groups[g].entries
        /\ groups'[g].name = groups[g].name
    BY <1>2 DEF SameList
  <2>. QED
    BY <2>1 DEF Holds
<1>. QED
  BY <1>1, <1>2

\* The steps of the search and of the insertion but the insertion itself.
LEMMA ExactSearch ==
    ASSUME OrderInv, ExactInv,
           \/ Found \/ FindNext \/ NotFound \/ AddNext \/ UNCHANGED vars,
           pc \notin {"free", "done"}
    PROVE  ExactInv'
<1>1. TypeOK /\ Named /\ \A g \in Live : Holds(g)
  BY DEF OrderInv, ExactInv
<1>2. /\ UNCHANGED <<input, kind, groups, first, at, name, lost>>
      /\ (pc = "loop" <=> pc' = "loop") /\ (pc = "cut" <=> pc' = "cut")
      /\ pc = "push" => pc' = "push"
  BY DEF Found, FindNext, NotFound, AddNext, vars
<1>3. SameList
  BY <1>2, UntouchedSame DEF Untouched
<1>4. \A e \in 1..at : \A k : Entered(e, k)' <=> Entered(e, k)
  BY <1>2, KeysStay DEF Entered
<1>5. Named' /\ \A g \in Live' : Holds(g)'
  BY <1>1, <1>2, <1>3, <1>4, SameEntered
<1>6. pc' # "loop" => Current'
  <2>1. pc # "loop" => Current
    BY DEF ExactInv
  <2>. QED
    BY <1>2, <2>1, KeysStay DEF Current
<1>. QED
  BY <1>5, <1>6 DEF ExactInv

\* The new group holds nothing yet, for no group had its name.
LEMMA ExactAdd ==
    ASSUME OrderInv, ExactInv, Add
    PROVE  ExactInv'
<1>0. PICK n : n = Len(groups) + 1
  OBVIOUS
<1>1. TypeOK /\ Named /\ Current /\ \A g \in Live : Holds(g)
  BY DEF OrderInv, ExactInv, Add
<1>2. /\ pc = "add" /\ pc' = "push"
      /\ UNCHANGED <<input, kind, at, name>>
  BY DEF Add
<1>3. /\ Live' = Live \union {n}
      /\ \A g \in Live : /\ groups'[g].name = groups[g].name
                         /\ groups'[g].entries = groups[g].entries
      /\ groups'[n].name = name /\ groups'[n].entries = <<>>
  BY <1>0, <1>1, Inserted, TypeFacts
<1>4. \A e \in 1..at : \A k : Entered(e, k)' <=> Entered(e, k)
  BY <1>2, KeysStay DEF Entered
<1>5. \A g \in Live : groups[g].name # name
  BY <1>2 DEF OrderInv, Placed
<1>6. Current'
  BY <1>1, <1>2, KeysStay DEF Current
<1>7. Named'
  <2>1. \A g \in Live' : \/ \E e \in 1..at' : Entered(e, groups[g].name)'
                         \/ pc' = "push" /\ groups'[g].name = name'
    BY <1>1, <1>2, <1>3, <1>4 DEF Named
  <2>2. \A e \in 1..at' : \A k \in KeysOf(input[e])' :
            Entered(e, k)' => \E g \in Live' : groups'[g].name = k
    BY <1>1, <1>2, <1>3, <1>4, KeysStay DEF Named
  <2>. QED
    BY <2>1, <2>2 DEF Named
<1>8. ASSUME NEW g \in Live'
      PROVE  Holds(g)'
  <2>1. CASE g \in Live
    BY <1>1, <1>2, <1>3, <1>4, <2>1 DEF Holds
  <2>2. CASE g = n
    <3>1. \A e \in 1..at : ~Entered(e, name)
      BY <1>1, <1>5 DEF Named, Entered
    <3>2. Len(groups'[g].entries) = 0
      BY <1>3, <2>2
    <3>. QED
      BY <1>2, <1>3, <1>4, <2>2, <3>1, <3>2 DEF Holds
  <2>. QED
    BY <1>3, <2>1, <2>2
<1>. QED
  BY <1>6, <1>7, <1>8 DEF ExactInv

\* When the current entry is pushed, the name worked on is entered, which it
\* was not before, and no other.
LEMMA PushedEntered ==
    ASSUME OrderInv, Current, Push
    PROVE  /\ at \in 1..at /\ ~Entered(at, name)
           /\ \A e \in 1..at : \A k :
                 Entered(e, k)' <=> Entered(e, k) \/ (e = at /\ k = name)
<1>1. /\ TypeOK /\ at \in 1..at /\ input[at] \in Seq(Nat)
      /\ name \in KeysOf(input[at])
      /\ \A e \in 1..at : e < at \/ e = at
      /\ ~(at < at)
  BY EntryFacts DEF OrderInv, Current
<1>2. /\ pc = "push" /\ UNCHANGED <<input, kind, at, name>>
      /\ pc' = IF kind = "CATEGORY" THEN "cut" ELSE "loop"
  BY DEF Push
<1>3. \A e : KeysOf(input[e])' = KeysOf(input[e])
  BY <1>2, KeysStay
<1>4. Len(name) \in Nat /\ ~(Len(name) > Len(name))
  BY <1>1, KeyType
<1>5. ~Entered(at, name)
  BY <1>1, <1>2, <1>4 DEF Entered
<1>6. ASSUME NEW e \in 1..at, NEW k
      PROVE  Entered(e, k)' <=> Entered(e, k) \/ (e = at /\ k = name)
  <2>1. CASE e < at
    BY <1>1, <1>2, <1>3, <2>1 DEF Entered
  <2>2. CASE e = at /\ kind = "CATEGORY"
    BY <1>1, <1>2, <1>3, <2>2 DEF Entered
  <2>3. CASE e = at /\ kind # "CATEGORY"
    <3>1. KeysOf(input[e]) = {name}
      BY <1>1, <2>3 DEF KeysOf
    <3>. QED
      BY <1>2, <1>3, <1>4, <2>3, <3>1 DEF Entered
  <2>. QED
    BY <1>1, <2>1, <2>2, <2>3
<1>. QED
  BY <1>1, <1>5, <1>6

LEMMA ExactPush ==
    ASSUME OrderInv, ExactInv, Push
    PROVE  ExactInv'
<1>1. TypeOK /\ Ordered /\ Named /\ Current /\ \A g \in Live : Holds(g)
  BY DEF OrderInv, ExactInv, Push
<1>2. /\ pc = "push" /\ UNCHANGED <<input, kind, at, name>>
      /\ pc' = IF kind = "CATEGORY" THEN "cut" ELSE "loop"
  BY DEF Push
<1>3. here \in Live /\ groups[here].name = name
  BY <1>2 DEF OrderInv, Placed
<1>4. /\ SameList
      /\ \A g \in Group : groups'[g] =
            IF g = here THEN [groups[g] EXCEPT !.entries = Append(@, at)]
            ELSE groups[g]
  BY PushedSame
<1>5. /\ at \in 1..at /\ ~Entered(at, name)
      /\ \A e \in 1..at : \A k :
            Entered(e, k)' <=> Entered(e, k) \/ (e = at /\ k = name)
  BY <1>1, PushedEntered
<1>6. Current' \/ pc' = "loop"
  BY <1>1, <1>2, KeysStay DEF Current
<1>7. Named'
  <2>1. \A g \in Live' : \E e \in 1..at' : Entered(e, groups[g].name)'
    BY <1>1, <1>2, <1>4, <1>5 DEF Named, SameList
  <2>2. \A e \in 1..at' : \A k \in KeysOf(input[e])' :
            Entered(e, k)' => \E g \in Live' : groups'[g].name = k
    BY <1>1, <1>2, <1>3, <1>4, <1>5, KeysStay DEF Named, SameList
  <2>. QED
    BY <2>1, <2>2 DEF Named
<1>8. ASSUME NEW g \in Live'
      PROVE  Holds(g)'
  <2>1. /\ g \in Live /\ g \in Group /\ groups[g] \in GroupType
        /\ groups'[g].name = groups[g].name /\ groups[g].entries \in Seq(Nat)
        /\ Holds(g)
    BY <1>1, <1>4, <1>8, TypeFacts DEF SameList
  <2>2. CASE g # here
    <3>1. groups[g].name # name /\ groups'[g].entries = groups[g].entries
      BY <1>1, <1>3, <1>4, <2>1, <2>2 DEF Ordered
    <3>. QED
      BY <1>2, <1>5, <2>1, <3>1 DEF Holds
  <2>3. CASE g = here
    <3>0. PICK held : held = groups[g].entries
      OBVIOUS
    <3>1. groups'[g].entries = Append(held, at) /\ groups[g].name = name
      BY <1>3, <1>4, <2>1, <2>3, <3>0 DEF GroupType
    <3>3. /\ \A i \in 1..Len(held) : held[i] \in 1..at /\ Entered(held[i], name)
          /\ \A e \in 1..at : Entered(e, name) =>
                                 \E i \in 1..Len(held) : held[i] = e
          /\ \A i, j \in 1..Len(held) : i < j => held[i] < held[j]
      BY <2>1, <3>0, <3>1 DEF Holds
    <3>4. held \in Seq(Nat) /\ at \in Nat /\ Len(held) \in Nat
      BY <1>1, <2>1, <3>0, EntryFacts
    <3>5. \A i \in 1..Len(held) : held[i] < at
      <4>. TAKE i \in 1..Len(held)
      <4>1. held[i] \in 1..at /\ Entered(held[i], name)
        BY <3>3
      <4>. QED
        BY <1>5, <3>4, <4>1
    <3>6. PICK new : new = Append(held, at)
      OBVIOUS
    <3>7. /\ Len(new) = Len(held) + 1
          /\ \A i \in 1..Len(held) : new[i] = held[i]
          /\ new[Len(held) + 1] = at
      BY <3>4, <3>6, AppendProperties
    <3>8. \A i \in 1..Len(new) : /\ new[i] \in 1..at
                                 /\ Entered(new[i], name) \/ new[i] = at
      <4>. TAKE i \in 1..Len(new)
      <4>1. CASE i \in 1..Len(held)
        BY <3>3, <3>7, <4>1
      <4>2. CASE i = Len(held) + 1
        BY <1>5, <3>7, <4>2
      <4>. QED
        BY <3>4, <3>7, <4>1, <4>2
    <3>9. \A e \in 1..at : Entered(e, name) \/ e = at =>
                              \E i \in 1..Len(new) : new[i] = e
      <4>. TAKE e \in 1..at
      <4>1. CASE Entered(e, name)
        <5>1. PICK i \in 1..Len(held) : held[i] = e
          BY <3>3, <4>1
        <5>2. i \in 1..Len(new) /\ new[i] = e
          BY <3>4, <3>7, <5>1
        <5>. QED
          BY <5>2
      <4>2. CASE e = at
        <5>1. Len(held) + 1 \in 1..Len(new) /\ new[Len(held) + 1] = e
          BY <3>4, <3>7, <4>2
        <5>. QED
          BY <5>1
      <4>. QED
        BY <4>1, <4>2
    <3>10. \A i, j \in 1..Len(new) : i < j => new[i] < new[j]
      <4>. TAKE i, j \in 1..Len(new)
      <4>. HAVE i < j
      <4>1. i \in 1..Len(held) /\ new[i] = held[i]
        BY <3>4, <3>7
      <4>2. CASE j \in 1..Len(held)
        BY <3>3, <3>7, <4>1, <4>2
      <4>3. CASE j = Len(held) + 1
        BY <3>5, <3>7, <4>1, <4>3
      <4>. QED
        BY <3>4, <3>7, <4>2, <4>3
    <3>11. groups'[g].entries = new /\ groups'[g].name = name
      BY <2>1, <3>1, <3>6
    <3>. QED
      BY <1>2, <1>5, <3>8, <3>9, <3>10, <3>11 DEF Holds
  <2>. QED
    BY <2>2, <2>3
<1>. QED
  BY <1>2, <1>6, <1>7, <1>8 DEF ExactInv

\* The next entry is in no group yet.
LEMMA ExactNext ==
    ASSUME OrderInv, ExactInv, NextEntry, pc' = "find"
    PROVE  ExactInv'
<1>1. TypeOK /\ Named /\ \A g \in Live : Holds(g)
  BY DEF OrderInv, ExactInv, NextEntry
<1>2. /\ pc = "loop" /\ at < Len(input) /\ at' = at + 1
      /\ name' = input[at + 1]
      /\ UNCHANGED <<input, kind, groups, first, lost>>
  BY DEF NextEntry, Fail
<1>3. /\ at \in Nat /\ input[at + 1] \in Seq(Nat) /\ at + 1 # 0
      /\ \A e \in 1..(at + 1) : e \in 1..at \/ e = at + 1
      /\ \A e \in 1..at : e < at + 1 /\ e \in 1..(at + 1) /\ e # at + 1
      /\ ~(at + 1 < at + 1)
  BY <1>1, <1>2, EntryFacts
<1>4. \A k \in KeysOf(input[at + 1]) : ~(Len(k) > Len(input[at + 1]))
  <2>. TAKE k \in KeysOf(input[at + 1])
  <2>1. Len(k) <= Len(input[at + 1]) /\ Len(k) \in Nat /\ Len(input[at + 1]) \in Nat
    BY <1>3, KeyType
  <2>. QED
    BY <2>1
<1>5. \A e \in 1..(at + 1) : \A k :
          Entered(e, k)' <=> e \in 1..at /\ Entered(e, k)
  <2>. TAKE e \in 1..(at + 1)
  <2>. TAKE k
  <2>1. KeysOf(input[e])' = KeysOf(input[e])
    BY <1>2, KeysStay
  <2>2. CASE e \in 1..at
    BY <1>2, <1>3, <2>1, <2>2 DEF Entered
  <2>3. CASE e = at + 1
    BY <1>2, <1>3, <1>4, <2>1, <2>3 DEF Entered
  <2>. QED
    BY <1>3, <2>2, <2>3
<1>6. Current'
  BY <1>2, <1>3 DEF Current, KeysOf
<1>7. SameList
  BY <1>2, UntouchedSame DEF Untouched
<1>8. Named'
  <2>1. \A g \in Live' : \E e \in 1..at' : Entered(e, groups[g].name)'
    BY <1>1, <1>2, <1>3, <1>5, <1>7 DEF Named, SameList
  <2>2. \A e \in 1..at' : \A k \in KeysOf(input[e])' :
            Entered(e, k)' => \E g \in Live' : groups'[g].name = k
    BY <1>1, <1>2, <1>3, <1>5, <1>7, KeysStay DEF Named, SameList
  <2>. QED
    BY <2>1, <2>2 DEF Named
<1>9. ASSUME NEW g \in Live'
      PROVE  Holds(g)'
  <2>1. /\ Holds(g) /\ groups'[g].entries = groups[g].entries
        /\ groups'[g].name = groups[g].name
    BY <1>1, <1>2, <1>7, <1>9 DEF SameList
  <2>. QED
    BY <1>2, <1>3, <1>5, <2>1 DEF Holds
<1>. QED
  BY <1>6, <1>8, <1>9 DEF ExactInv

\* The last slash of a string that has one.
LEMMA LastSlash ==
    ASSUME TypeOK, NEW p \in 2..Len(name), name[p] = Slash
    PROVE  \E q \in 2..Len(name) : IsCut(q)
<1>. DEFINE Behind == {d \in Nat : /\ Len(name) - d \in 2..Len(name)
                                   /\ name[Len(name) - d] = Slash}
<1>1. Len(name) \in Nat
  BY DEF TypeOK
<1>2. Len(name) - p \in Behind
  BY <1>1
<1>3. PICK d \in Behind : \A c \in Behind : d <= c
  <2>1. Behind \in SUBSET Nat /\ Behind # {}
    BY <1>2
  <2>. HIDE DEF Behind
  <2>. QED
    BY <2>1, Least
<1>4. ASSUME NEW q \in ((Len(name) - d) + 1)..Len(name), name[q] = Slash
      PROVE  FALSE
  <2>1. q \in Int /\ d \in Nat /\ q >= Len(name) - d + 1 /\ q <= Len(name)
        /\ Len(name) - d >= 2
    BY <1>1, <1>3
  <2>2. Len(name) - q \in Nat /\ Len(name) - q < d
    BY <1>1, <2>1
  <2>3. Len(name) - (Len(name) - q) = q /\ q \in 2..Len(name)
    BY <1>1, <2>1
  <2>4. Len(name) - q \in Behind
    BY <1>4, <2>2, <2>3
  <2>. QED
    BY <1>1, <1>3, <2>1, <2>2, <2>4
<1>5. IsCut(Len(name) - d)
  BY <1>1, <1>3, <1>4 DEF IsCut
<1>. QED
  BY <1>3, <1>5

\* The cut takes the longest name that is left, or ends the entry.
LEMMA ExactCut ==
    ASSUME OrderInv, ExactInv, Cut \/ NoCut
    PROVE  ExactInv'
<1>1. TypeOK /\ Named /\ Current /\ \A g \in Live : Holds(g)
  BY DEF OrderInv, ExactInv, Cut, NoCut
<1>2. pc = "cut" /\ UNCHANGED <<input, kind, groups, first, at, lost>>
  BY DEF Cut, NoCut
<1>3. SameList
  BY <1>2, UntouchedSame DEF Untouched
<1>4. /\ at \in 1..at /\ input[at] \in Seq(Nat) /\ name \in KeysOf(input[at])
      /\ \A e \in 1..at : e < at \/ e = at
      /\ ~(at < at) /\ at # 0
  BY <1>1, EntryFacts DEF Current
<1>5. Len(name) \in Nat
  BY <1>4, KeyType
<1>6. \A e : KeysOf(input[e])' = KeysOf(input[e])
  BY <1>2, KeysStay
<1>7. \A k \in KeysOf(input[at]) :
          /\ Len(k) \in Nat
          /\ Len(k) = Len(name) => k = name
          /\ Len(k) < Len(name) => Len(k) + 1 \in 2..Len(name) /\ name[Len(k) + 1] = Slash
  <2>. TAKE k \in KeysOf(input[at])
  <2>1. Len(k) \in Nat
    BY <1>4, KeyType
  <2>2. Len(k) = Len(name) => k = name
    BY <1>4, KeyUnique
  <2>3. Len(k) < Len(name) => Len(k) + 1 \in 2..Len(name) /\ name[Len(k) + 1] = Slash
    BY <1>1, <1>2, CutKeys
  <2>. QED
    BY <2>1, <2>2, <2>3
<1>8. CASE Cut
  <2>1. PICK p \in 2..Len(name) : IsCut(p) /\ name' = SubSeq(name, 1, p - 1)
    BY <1>8 DEF Cut
  <2>2. pc' = "find"
    BY <1>8 DEF Cut
  <2>3. name[p] = Slash /\ \A q \in (p + 1)..Len(name) : name[q] # Slash
    BY <2>1 DEF IsCut
  <2>4. name' \in KeysOf(input[at]) /\ Len(name') = p - 1
    BY <1>1, <1>2, <2>1, <2>3, CutKeys
  <2>5. ASSUME NEW k \in KeysOf(input[at])
        PROVE  Len(k) > p - 1 <=> Len(k) > Len(name) \/ k = name
    <3>1. /\ Len(k) \in Nat
          /\ Len(k) = Len(name) => k = name
          /\ Len(k) < Len(name) => Len(k) + 1 \in 2..Len(name) /\ name[Len(k) + 1] = Slash
      BY <1>7, <2>5
    <3>2. Len(k) < Len(name) => Len(k) <= p - 1
      BY <1>5, <2>1, <2>3, <3>1
    <3>3. k = name => Len(k) > p - 1
      BY <1>5, <2>1
    <3>. QED
      BY <1>5, <2>1, <3>1, <3>2, <3>3
  <2>6. ASSUME NEW e \in 1..at, NEW k
        PROVE  Entered(e, k)' <=> Entered(e, k)
    <3>1. CASE e = at
      BY <1>2, <1>4, <1>6, <2>2, <2>4, <2>5, <3>1 DEF Entered
    <3>2. CASE e < at
      BY <1>2, <1>6, <3>2 DEF Entered
    <3>. QED
      BY <1>4, <3>1, <3>2
  <2>7. Named' /\ \A g \in Live' : Holds(g)'
    BY <1>1, <1>2, <1>3, <2>6, SameEntered
  <2>8. Current'
    BY <1>2, <1>4, <1>6, <2>2, <2>4 DEF Current
  <2>. QED
    BY <2>7, <2>8 DEF ExactInv
<1>9. CASE NoCut
  <2>1. pc' = "loop" /\ \A p \in 2..Len(name) : ~IsCut(p)
    BY <1>9 DEF NoCut
  <2>2. \A p \in 2..Len(name) : name[p] # Slash
    BY <1>1, <2>1, LastSlash
  <2>3. ASSUME NEW k \in KeysOf(input[at])
        PROVE  Len(k) > Len(name) \/ k = name
    <3>1. /\ Len(k) \in Nat
          /\ Len(k) = Len(name) => k = name
          /\ ~(Len(k) < Len(name))
      BY <1>7, <2>2, <2>3
    <3>. QED
      BY <1>5, <3>1
  <2>4. ASSUME NEW e \in 1..at, NEW k
        PROVE  Entered(e, k)' <=> Entered(e, k)
    <3>1. CASE e = at
      BY <1>2, <1>4, <1>6, <2>1, <2>3, <3>1 DEF Entered
    <3>2. CASE e < at
      BY <1>2, <1>6, <2>1, <3>2 DEF Entered
    <3>. QED
      BY <1>4, <3>1, <3>2
  <2>5. Named' /\ \A g \in Live' : Holds(g)'
    BY <1>1, <1>2, <1>3, <2>4, SameEntered
  <2>. QED
    BY <2>1, <2>5 DEF ExactInv
<1>. QED
  BY <1>8, <1>9

LEMMA ExactStep ==
    ASSUME OrderInv, ExactInv, [Next]_vars
    PROVE  ExactInv'
<1>1. CASE pc' \in {"free", "done"}
  BY <1>1 DEF ExactInv
<1>2. CASE pc' \notin {"free", "done"} /\ Next
  <2>1. \/ NextEntry /\ pc' = "find"
        \/ Cut \/ NoCut \/ Found \/ FindNext \/ NotFound \/ AddNext
        \/ Add \/ Push
    BY <1>2 DEF Next, GroupBy, Find, AddForName, Free, NextEntry, LastEntry,
                CutFails, AddFails, PushFails, FreeGroup, FreeDone, Fail
  <2>2. pc \notin {"free", "done"}
    BY <2>1 DEF NextEntry, Cut, NoCut, Found, FindNext, NotFound, AddNext, Add,
                Push
  <2>. QED
    BY <2>1, <2>2, ExactNext, ExactCut, ExactSearch, ExactAdd, ExactPush
<1>3. CASE pc' \notin {"free", "done"} /\ UNCHANGED vars
  BY <1>3, ExactSearch DEF vars
<1>. QED
  BY <1>1, <1>2, <1>3

\* dpl_group_by_name, dpl_group_by_day and dpl_group_by_category: between two
\* entries each group holds exactly the entries that belong to it, once each
\* and in the order they were read, whatever the strings and the slashes are.
THEOREM ExactCorrect == Spec => []GroupsExact
<1>1. Init => ExactInv
  <2>. SUFFICES ASSUME Init
                PROVE  ExactInv
    OBVIOUS
  <2>1. at = 0 /\ pc = "loop" /\ Live = {}
    BY DEF Init, Live, Group
  <2>2. Named
    BY <2>1 DEF Named
  <2>. QED
    BY <2>1, <2>2 DEF ExactInv
<1>2. OrderInv /\ ExactInv /\ [Next]_vars => ExactInv'
  BY ExactStep
<1>3. OrderInv /\ ExactInv => GroupsExact
  <2>. SUFFICES ASSUME OrderInv, ExactInv, pc = "loop"
                PROVE  /\ {groups[g].name : g \in Linked} =
                              UNION {KeysOf(input[e]) : e \in 1..at}
                       /\ \A g \in Linked :
                             LET held == groups[g].entries
                             IN  /\ {held[i] : i \in 1..Len(held)} =
                                       {e \in 1..at : groups[g].name
                                                         \in KeysOf(input[e])}
                                 /\ \A i, j \in 1..Len(held) :
                                       i < j => held[i] < held[j]
    BY DEF GroupsExact
  <2>1. Linked = Live
    BY DEF OrderInv, FreedBehind, Linked, Live
  <2>2. \A e \in 1..at : \A k : Entered(e, k) <=> k \in KeysOf(input[e])
    BY DEF Entered
  <2>3. Named /\ \A g \in Live : Holds(g)
    BY DEF ExactInv
  <2>4. {groups[g].name : g \in Live} = UNION {KeysOf(input[e]) : e \in 1..at}
    <3>1. ASSUME NEW g \in Live
          PROVE  \E e \in 1..at : groups[g].name \in KeysOf(input[e])
      BY <2>2, <2>3 DEF Named
    <3>2. ASSUME NEW e \in 1..at, NEW k \in KeysOf(input[e])
          PROVE  \E g \in Live : groups[g].name = k
      BY <2>2, <2>3 DEF Named
    <3>. QED
      BY <3>1, <3>2
  <2>5. ASSUME NEW g \in Live
        PROVE  LET held == groups[g].entries
               IN  /\ {held[i] : i \in 1..Len(held)} =
                         {e \in 1..at : groups[g].name \in KeysOf(input[e])}
                   /\ \A i, j \in 1..Len(held) : i < j => held[i] < held[j]
    BY <2>2, <2>3 DEF Holds
  <2>. QED
    BY <2>1, <2>4, <2>5
<1>. QED
  BY <1>1, <1>2, <1>3, OrderCorrect, PTL DEF Spec
=============================================================================
