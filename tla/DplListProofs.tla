--------------------------- MODULE DplListProofs ---------------------------
(***************************************************************************)
(* Proofs about the linked list and its iterator, for any number of nodes, *)
(* any entries and any sequence of calls.                                  *)
(***************************************************************************)
EXTENDS DplList, SequenceTheorems,
        WellFoundedInduction, TLAPS

\* A set of numbers that has 0, and each number's successor, has all of them.
LEMMA Induction ==
    ASSUME NEW S \in SUBSET Nat, 0 \in S, \A n \in S : n + 1 \in S
    PROVE  S = Nat
<1>. SUFFICES ASSUME Nat \ S # {}
              PROVE  FALSE
  OBVIOUS
<1>1. PICK m \in Nat \ S : \A k \in Nat \ S : <<k, m>> \notin OpToRel(<, Nat)
  BY NatLessThanWellFounded, WFMin
<1>2. \A k \in Nat \ S : ~(k < m)
  BY <1>1 DEF OpToRel
<1>3. m \in Nat /\ m \notin S /\ m # 0
  OBVIOUS
<1>4. m - 1 \in S
  BY <1>2, <1>3
<1>. QED
  BY <1>3, <1>4

\* What is left of a sequence without its k-th element.
LEMMA WithoutProperties ==
    ASSUME NEW S, NEW s \in Seq(S), NEW k \in 1..Len(s)
    PROVE  /\ Without(s, k) \in Seq(S)
           /\ Len(Without(s, k)) = Len(s) - 1
           /\ \A i \in 1..(Len(s) - 1) :
                 Without(s, k)[i] = IF i < k THEN s[i] ELSE s[i + 1]
<1>. DEFINE n == Len(s) - 1
            w == [i \in 1..n |-> IF i < k THEN s[i] ELSE s[i + 1]]
<1>1. Len(s) \in Nat /\ n \in Nat
  BY LenProperties
<1>2. \A i \in 1..n : (IF i < k THEN s[i] ELSE s[i + 1]) \in S
  BY <1>1, ElementOfSeq
<1>3. w \in [1..n -> S]
  BY <1>2
<1>4. w \in Seq(S)
  BY <1>1, <1>3, SeqDef
<1>5. Len(w) = n
  BY <1>1, <1>3, <1>4, LenProperties
<1>6. Without(s, k) = w
  BY DEF Without
<1>. QED
  BY <1>4, <1>5, <1>6

----------------------------------------------------------------------------
Standing == pc \in {"idle", "scan", "crashed"}

\* The iterator stands on a node of the list, or is exhausted; it is one node
\* ahead of a node that holds the entry it handed out last, unless it came to
\* the end of the list before more was pushed.
IteratorInside ==
    /\ ~live => cursor = NULL
    /\ ~Standing => ~live
    /\ cursor # NULL => \E i \in 1..Len(chain) : cursor = chain[i]
    /\ live /\ held # NULL =>
          \E i \in 1..Len(chain) :
              /\ heap[chain[i]].item = held
              /\ \/ cursor = NULL
                 \/ i < Len(chain) /\ cursor = chain[i + 1]

\* dpl_list_remove has found none of the nodes it has passed to hold its
\* argument, which is what an iterator that is out has handed out last.
ScanInside ==
    pc = "scan" =>
        /\ arg \in Entry
        /\ live => held = arg
        /\ curr = NULL => chain = <<>> /\ CallOnEmpty
        /\ curr # NULL =>
              \E k \in 1..Len(chain) :
                  /\ curr = chain[k]
                  /\ \A i \in 1..k : heap[chain[i]].item # arg

\* dpl_list_free is at the first of the nodes that are left.
FreeInside ==
    /\ pc = "freeing" => curr = IF chain = <<>> THEN NULL ELSE chain[1]
    /\ pc = "gone" => chain = <<>>
    /\ pc \in {"idle", "gone", "crashed"} => curr = NULL

NoCrash == CallOnEmpty \/ pc # "crashed"

IInv == /\ TypeOK
        /\ Linked
        /\ EndsMatch
        /\ NoLeak
        /\ IteratorInside
        /\ ScanInside
        /\ FreeInside
        /\ NoCrash

LEMMA InitInv == Init => IInv
<1>. SUFFICES ASSUME Init
              PROVE  IInv
  OBVIOUS
<1>1. chain \in Seq(Node) /\ Len(chain) = 0
  BY EmptySeq DEF Init
<1>2. TypeOK
  BY <1>1 DEF Init, TypeOK, NodeType
<1>3. Linked /\ EndsMatch /\ NoLeak
  BY <1>1 DEF Init, Linked, EndsMatch, NoLeak
<1>. QED
  BY <1>1, <1>2, <1>3 DEF Init, IInv, IteratorInside, ScanInside, FreeInside,
     NoCrash, Standing

----------------------------------------------------------------------------
\* What unlinking and freeing the k-th node does to the nodes of the list.
LEMMA UnlinkNodes ==
    ASSUME TypeOK, Linked, NoLeak,
           NEW k \in 1..Len(chain),
           chain' = Without(chain, k),
           alloc' = alloc \ {chain[k]}
    PROVE  /\ chain' \in Seq(Node)
           /\ Len(chain) \in Nat
           /\ Len(chain') = Len(chain) - 1
           /\ \A i \in 1..Len(chain') :
                 chain'[i] = IF i < k THEN chain[i] ELSE chain[i + 1]
           /\ \A i \in 1..Len(chain') : chain'[i] \in alloc'
           /\ \A i, j \in 1..Len(chain') : chain'[i] = chain'[j] => i = j
           /\ \A j \in 1..Len(chain) : j # k =>
                 /\ (IF j < k THEN j ELSE j - 1) \in 1..Len(chain')
                 /\ chain'[IF j < k THEN j ELSE j - 1] = chain[j]
           /\ alloc' \subseteq {chain'[i] : i \in 1..Len(chain')}
<1>1. /\ chain \in Seq(Node)
      /\ Len(chain) \in Nat
  BY LenProperties DEF TypeOK
<1>2. /\ chain' \in Seq(Node)
      /\ Len(chain') = Len(chain) - 1
      /\ \A i \in 1..(Len(chain) - 1) :
            chain'[i] = IF i < k THEN chain[i] ELSE chain[i + 1]
  BY <1>1, WithoutProperties
<1>. DEFINE Old(i) == IF i < k THEN i ELSE i + 1
<1>3. ASSUME NEW i \in 1..Len(chain')
      PROVE  Old(i) \in 1..Len(chain) /\ Old(i) # k /\ chain'[i] = chain[Old(i)]
  BY <1>1, <1>2
<1>4. ASSUME NEW i \in 1..Len(chain'), NEW j \in 1..Len(chain'),
             Old(i) = Old(j)
      PROVE  i = j
  BY <1>1, <1>2, <1>4
<1>. HIDE DEF Old
<1>5. /\ \A i \in 1..Len(chain) : chain[i] \in alloc
      /\ \A i, j \in 1..Len(chain) : chain[i] = chain[j] => i = j
  BY DEF Linked
<1>6. \A i \in 1..Len(chain') : chain'[i] \in alloc'
  BY <1>3, <1>5
<1>7. \A i, j \in 1..Len(chain') : chain'[i] = chain'[j] => i = j
  BY <1>3, <1>4, <1>5
<1>8. ASSUME NEW j \in 1..Len(chain), j # k
      PROVE  /\ (IF j < k THEN j ELSE j - 1) \in 1..Len(chain')
             /\ chain'[IF j < k THEN j ELSE j - 1] = chain[j]
  BY <1>1, <1>2, <1>8
<1>9. ASSUME NEW n \in alloc'
      PROVE  n \in {chain'[i] : i \in 1..Len(chain')}
  <2>1. PICK j \in 1..Len(chain) : n = chain[j]
    BY DEF NoLeak
  <2>2. j # k
    BY <2>1
  <2>. QED
    BY <1>8, <2>1, <2>2
<1>. QED
  BY <1>1, <1>2, <1>6, <1>7, <1>8, <1>9

\* The first and the last node of the list, in terms of the pointers.
LEMMA Ends ==
    ASSUME IInv, Standing
    PROVE  /\ Len(chain) \in Nat
           /\ NULL \notin Node
           /\ \A i \in 1..Len(chain) :
                 chain[i] \in Node /\ chain[i] # NULL /\ chain[i] \in alloc
           /\ len = Len(chain)
           /\ chain = <<>> <=> Len(chain) = 0
           /\ first = NULL <=> Len(chain) = 0
           /\ last = NULL <=> Len(chain) = 0
           /\ Len(chain) > 0 => first = chain[1] /\ last = chain[Len(chain)]
<1>1. chain \in Seq(Node) /\ Len(chain) \in Nat /\ NULL \notin Node
  BY NullAssumption, LenProperties DEF IInv, TypeOK
<1>2. \A i \in 1..Len(chain) :
         chain[i] \in Node /\ chain[i] # NULL /\ chain[i] \in alloc
  BY <1>1, ElementOfSeq DEF IInv, Linked
<1>3. chain = <<>> <=> Len(chain) = 0
  BY <1>1, EmptySeq
<1>. QED
  BY <1>1, <1>2, <1>3 DEF IInv, EndsMatch, Standing

\* A call that touches none of the nodes.
LEMMA NodesUntouched ==
    ASSUME IInv, UNCHANGED <<heap, alloc, first, last, len, chain>>,
           Standing' => Standing
    PROVE  /\ heap' \in [Node -> NodeType]
           /\ alloc' \subseteq Node
           /\ first' \in Node \union {NULL}
           /\ last' \in Node \union {NULL}
           /\ len' \in Nat
           /\ chain' \in Seq(Node)
           /\ Linked'
           /\ EndsMatch'
           /\ pc' = "gone" /\ (pc = "gone" \/ chain = <<>>) => NoLeak'
           /\ pc' # "gone" => NoLeak'
<1>. QED
  BY DEF IInv, TypeOK, Linked, EndsMatch, NoLeak, Standing, FreeInside

----------------------------------------------------------------------------
LEMMA PushInv == IInv /\ Push => IInv'
<1>. SUFFICES ASSUME IInv, Push
              PROVE  IInv'
  OBVIOUS
<1>1. PICK n \in Node \ alloc, entry \in Entry : PushNode(n, entry)
  BY DEF Push
<1>. DEFINE new == [item |-> entry, next |-> NULL]
            L == Len(chain)
<1>2. /\ pc = "idle" /\ pc' = "idle" /\ len' = len + 1 /\ ret' = "OK"
      /\ UNCHANGED <<live, cursor, held, curr, arg>>
      /\ alloc' = alloc \union {n} /\ chain' = Append(chain, n) /\ last' = n
      /\ first' = IF last = NULL THEN n ELSE first
      /\ heap' = IF last = NULL
                 THEN [heap EXCEPT ![n] = new]
                 ELSE [heap EXCEPT ![n] = new, ![last].next = n]
  BY <1>1 DEF Push, PushNode
<1>3. TypeOK /\ Linked /\ NoLeak /\ Standing /\ Standing'
  BY <1>2 DEF IInv, Standing
<1>4. /\ L \in Nat
      /\ \A i \in 1..L : /\ chain[i] \in Node /\ chain[i] # NULL
                         /\ chain[i] \in alloc /\ chain[i] # n
      /\ len = L
      /\ last = NULL <=> L = 0
      /\ first = NULL <=> L = 0
      /\ L > 0 => first = chain[1] /\ last = chain[L]
      /\ n \in Node /\ n # NULL
  BY <1>3, Ends
<1>5. /\ chain' \in Seq(Node)
      /\ Len(chain') = L + 1
      /\ \A i \in 1..L : chain'[i] = chain[i]
      /\ chain'[L + 1] = n
  BY <1>2, <1>3, AppendProperties DEF TypeOK
<1>6. /\ heap' \in [Node -> NodeType]
      /\ heap'[n] = new
      /\ \A m \in Node : m # n => heap'[m].item = heap[m].item
      /\ \A m \in Node : m # n /\ m # last => heap'[m] = heap[m]
      /\ last # NULL => heap'[last].next = n
  <2>1. heap \in [Node -> NodeType] /\ new \in NodeType
    BY <1>3, <1>4 DEF TypeOK, NodeType
  <2>2. CASE last = NULL
    BY <1>2, <1>4, <2>1, <2>2
  <2>3. CASE last # NULL
    <3>1. last \in Node /\ last # n
      BY <1>4, <2>3
    <3>2. heap' = [heap EXCEPT ![n] = new, ![last].next = n]
      BY <1>2, <2>3
    <3>. QED
      BY <1>4, <2>1, <3>1, <3>2 DEF NodeType
  <2>. QED
    BY <2>2, <2>3
<1>7. TypeOK'
  <2>1. /\ alloc' \subseteq Node
        /\ first' \in Node \union {NULL}
        /\ last' \in Node \union {NULL}
    BY <1>2, <1>3, <1>4 DEF TypeOK
  <2>2. len' \in Nat
    BY <1>2, <1>4
  <2>. QED
    BY <1>2, <1>3, <1>5, <1>6, <2>1, <2>2 DEF TypeOK
<1>8. Linked'
  <2>1. \A i \in 1..Len(chain') : chain'[i] \in alloc'
    BY <1>2, <1>4, <1>5
  <2>2. \A i, j \in 1..Len(chain') : chain'[i] = chain'[j] => i = j
    BY <1>3, <1>4, <1>5 DEF Linked
  <2>3. ASSUME NEW i \in 1..Len(chain')
        PROVE  heap'[chain'[i]].next =
                  IF i < Len(chain') THEN chain'[i + 1] ELSE NULL
    <3>1. CASE i = L + 1
      BY <1>4, <1>5, <1>6, <3>1
    <3>2. CASE i = L /\ L > 0
      BY <1>4, <1>5, <1>6, <3>2
    <3>3. CASE i < L
      <4>1. chain[i] # last /\ chain[i] # n
        BY <1>3, <1>4, <3>3 DEF Linked
      <4>. QED
        BY <1>3, <1>4, <1>5, <1>6, <3>3, <4>1 DEF Linked
    <3>. QED
      BY <1>4, <1>5, <3>1, <3>2, <3>3
  <2>. QED
    BY <2>1, <2>2, <2>3 DEF Linked
<1>9. EndsMatch'
  BY <1>2, <1>4, <1>5, EmptySeq DEF EndsMatch
<1>10. NoLeak'
  BY <1>2, <1>3, <1>4, <1>5 DEF NoLeak
<1>11. IteratorInside'
  <2>1. \A i \in 1..L : /\ chain'[i] = chain[i] /\ i \in 1..Len(chain')
                        /\ heap'[chain'[i]].item = heap[chain[i]].item
    BY <1>4, <1>5, <1>6
  <2>2. IteratorInside
    BY DEF IInv
  <2>3. cursor' # NULL => \E i \in 1..Len(chain') : cursor' = chain'[i]
    BY <1>2, <2>1, <2>2 DEF IteratorInside
  <2>4. ASSUME live', held' # NULL
        PROVE  \E i \in 1..Len(chain') :
                  /\ heap'[chain'[i]].item = held'
                  /\ \/ cursor' = NULL
                     \/ i < Len(chain') /\ cursor' = chain'[i + 1]
    <3>1. PICK i \in 1..L : /\ heap[chain[i]].item = held
                            /\ \/ cursor = NULL
                               \/ i < L /\ cursor = chain[i + 1]
      BY <1>2, <2>2, <2>4 DEF IteratorInside
    <3>2. i \in 1..Len(chain') /\ heap'[chain'[i]].item = held'
      BY <1>2, <2>1, <3>1
    <3>3. i < L => i < Len(chain') /\ chain'[i + 1] = chain[i + 1]
      BY <1>4, <1>5
    <3>. QED
      BY <1>2, <3>1, <3>2, <3>3
  <2>. QED
    BY <1>2, <1>3, <2>2, <2>3, <2>4 DEF IteratorInside
<1>12. ScanInside' /\ FreeInside' /\ NoCrash'
  BY <1>2 DEF IInv, ScanInside, FreeInside, NoCrash
<1>. QED
  BY <1>7, <1>8, <1>9, <1>10, <1>11, <1>12 DEF IInv

LEMMA IterInv == IInv /\ (Iter \/ IterNext \/ IterEnd \/ IterFree) => IInv'
<1>. SUFFICES ASSUME IInv, Iter \/ IterNext \/ IterEnd \/ IterFree
              PROVE  IInv'
  OBVIOUS
<1>1. /\ pc = "idle" /\ pc' = "idle"
      /\ UNCHANGED <<heap, alloc, first, last, len, curr, arg, chain>>
  BY DEF Iter, IterNext, IterEnd, IterFree
<1>2. Standing /\ Standing'
  BY <1>1 DEF Standing
<1>3. /\ Linked' /\ EndsMatch' /\ NoLeak'
      /\ heap' \in [Node -> NodeType] /\ alloc' \subseteq Node
      /\ first' \in Node \union {NULL} /\ last' \in Node \union {NULL}
      /\ len' \in Nat /\ chain' \in Seq(Node)
  BY <1>1, <1>2, NodesUntouched
<1>4. ScanInside' /\ FreeInside' /\ NoCrash'
  BY <1>1 DEF IInv, ScanInside, FreeInside, NoCrash
<1>5. TypeOK /\ IteratorInside /\ Linked
  BY DEF IInv
<1>6. /\ Len(chain) \in Nat
      /\ \A i \in 1..Len(chain) : chain[i] \in Node /\ chain[i] # NULL
      /\ first = NULL <=> Len(chain) = 0
      /\ Len(chain) > 0 => first = chain[1]
  BY <1>2, Ends
<1>7. CASE Iter
  <2>1. /\ live' = TRUE /\ cursor' = first /\ held' = NULL /\ ret' = "OK"
    BY <1>7 DEF Iter
  <2>2. IteratorInside'
    BY <1>1, <1>2, <1>6, <2>1 DEF IteratorInside
  <2>3. TypeOK'
    BY <1>1, <1>3, <1>5, <2>1 DEF TypeOK
  <2>. QED
    BY <1>3, <1>4, <2>2, <2>3 DEF IInv
<1>8. CASE IterNext
  <2>1. /\ live /\ live' = live /\ cursor # NULL /\ ret' = "OK"
        /\ held' = heap[cursor].item /\ cursor' = heap[cursor].next
    BY <1>8 DEF IterNext, Advance
  <2>2. PICK i \in 1..Len(chain) : cursor = chain[i]
    BY <1>5, <2>1 DEF IteratorInside
  <2>3. heap[cursor].next = IF i < Len(chain) THEN chain[i + 1] ELSE NULL
    BY <1>5, <2>2 DEF Linked
  <2>4. heap[cursor] \in NodeType
    BY <1>5, <1>6, <2>2 DEF TypeOK
  <2>5. IteratorInside'
    BY <1>1, <1>2, <1>6, <2>1, <2>2, <2>3 DEF IteratorInside
  <2>6. TypeOK'
    BY <1>1, <1>3, <1>5, <2>1, <2>4 DEF TypeOK, NodeType
  <2>. QED
    BY <1>3, <1>4, <2>5, <2>6 DEF IInv
<1>9. CASE IterEnd
  <2>1. /\ live' = live /\ cursor' = cursor /\ held' = NULL
        /\ ret' = "ITER_END"
    BY <1>9 DEF IterEnd
  <2>2. IteratorInside'
    BY <1>1, <1>2, <1>5, <2>1 DEF IteratorInside
  <2>3. TypeOK'
    BY <1>1, <1>3, <1>5, <2>1 DEF TypeOK
  <2>. QED
    BY <1>3, <1>4, <2>2, <2>3 DEF IInv
<1>10. CASE IterFree
  <2>1. /\ live' = FALSE /\ cursor' = NULL /\ held' = NULL /\ ret' = "OK"
    BY <1>10 DEF IterFree
  <2>2. IteratorInside'
    BY <1>1, <1>2, <2>1 DEF IteratorInside
  <2>3. TypeOK'
    BY <1>1, <1>3, <1>5, <2>1 DEF TypeOK
  <2>. QED
    BY <1>3, <1>4, <2>2, <2>3 DEF IInv
<1>. QED
  BY <1>7, <1>8, <1>9, <1>10

\* The calls that fail for want of memory and dpl_list_new.
LEMMA PlainInv == IInv /\ (OutOfMemory \/ New) => IInv'
<1>. SUFFICES ASSUME IInv, OutOfMemory \/ New
              PROVE  IInv'
  OBVIOUS
<1>1. CASE OutOfMemory
  <2>1. /\ pc = "idle" /\ pc' = "idle" /\ ret' = "ERR_MEM"
        /\ UNCHANGED <<heap, alloc, first, last, len, live, cursor, held,
                       curr, arg, chain>>
    BY <1>1 DEF OutOfMemory
  <2>. QED
    BY <2>1 DEF IInv, TypeOK, Linked, EndsMatch, NoLeak, IteratorInside,
       ScanInside, FreeInside, NoCrash, Standing
<1>2. CASE New
  <2>1. /\ pc = "gone" /\ pc' = "idle" /\ ret' = "OK"
        /\ first' = NULL /\ last' = NULL /\ len' = 0
        /\ UNCHANGED <<heap, alloc, live, cursor, held, curr, arg, chain>>
    BY <1>2 DEF New
  <2>2. chain = <<>>
    BY <2>1 DEF IInv, FreeInside
  <2>. QED
    BY <2>1, <2>2, EmptySeq DEF IInv, TypeOK, Linked, EndsMatch, NoLeak,
       IteratorInside, ScanInside, FreeInside, NoCrash, Standing
<1>. QED
  BY <1>1, <1>2

----------------------------------------------------------------------------
\* What every unlinking of a node keeps: the k-th node leaves the list, the
\* pointer to it now leads to its successor, and the first node that holds
\* the removed entry is not behind the iterator.
LEMMA UnlinkInv ==
    ASSUME IInv, NEW k \in 1..Len(chain), NEW entry \in Entry,
           pc \in {"idle", "scan"}, pc' = "idle",
           Unlinked(k),
           curr' = NULL, arg' \in Entry \union {NULL},
           heap[chain[k]].item = entry,
           \A i \in 1..(k - 1) : heap[chain[i]].item # entry,
           live => held = entry,
           first' = IF k = 1 THEN heap[chain[1]].next ELSE chain[1],
           last' = IF k < Len(chain) THEN chain[Len(chain)]
                   ELSE IF k = 1 THEN NULL ELSE chain[k - 1],
           heap' = IF k = 1 THEN heap
                   ELSE [heap EXCEPT ![chain[k - 1]].next =
                            heap[chain[k]].next]
    PROVE  IInv'
<1>. DEFINE L == Len(chain)
<1>1. TypeOK /\ Linked /\ NoLeak /\ IteratorInside /\ Standing /\ Standing'
  BY DEF IInv, Standing
<1>2. /\ alloc' = alloc \ {chain[k]} /\ chain' = Without(chain, k)
      /\ len' = len - 1 /\ held' = NULL /\ ret' = "OK"
      /\ live' = live /\ cursor' = cursor
  BY DEF Unlinked
<1>3. /\ L \in Nat
      /\ \A i \in 1..L : /\ chain[i] \in Node /\ chain[i] # NULL
                         /\ chain[i] \in alloc
      /\ len = L
      /\ NULL \notin Node
  BY <1>1, Ends
<1>4. /\ chain' \in Seq(Node)
      /\ Len(chain') = L - 1
      /\ \A i \in 1..Len(chain') :
            chain'[i] = IF i < k THEN chain[i] ELSE chain[i + 1]
      /\ \A i \in 1..Len(chain') : chain'[i] \in alloc'
      /\ \A i, j \in 1..Len(chain') : chain'[i] = chain'[j] => i = j
      /\ \A j \in 1..L : j # k =>
            /\ (IF j < k THEN j ELSE j - 1) \in 1..Len(chain')
            /\ chain'[IF j < k THEN j ELSE j - 1] = chain[j]
      /\ alloc' \subseteq {chain'[i] : i \in 1..Len(chain')}
  BY <1>1, <1>2, UnlinkNodes
<1>5. /\ \A i \in 1..L : heap[chain[i]].next =
                            IF i < L THEN chain[i + 1] ELSE NULL
      /\ \A i, j \in 1..L : chain[i] = chain[j] => i = j
      /\ heap \in [Node -> NodeType]
  BY <1>1 DEF Linked, TypeOK
<1>6. /\ heap' \in [Node -> NodeType]
      /\ \A m \in Node : heap'[m].item = heap[m].item
      /\ \A m \in Node : k = 1 \/ m # chain[k - 1] => heap'[m] = heap[m]
      /\ k > 1 => heap'[chain[k - 1]].next = heap[chain[k]].next
  <2>1. CASE k = 1
    BY <1>5, <2>1
  <2>2. CASE k > 1
    <3>1. chain[k - 1] \in Node /\ chain[k] \in Node
      BY <1>3, <2>2
    <3>2. heap[chain[k]].next \in Node \union {NULL}
      BY <1>5, <3>1 DEF NodeType
    <3>. QED
      BY <1>3, <1>5, <2>2, <3>1, <3>2 DEF NodeType
  <2>. QED
    BY <1>3, <2>1, <2>2
<1>7. Linked'
  <2>1. ASSUME NEW i \in 1..Len(chain')
        PROVE  heap'[chain'[i]].next =
                  IF i < Len(chain') THEN chain'[i + 1] ELSE NULL
    <3>1. CASE k > 1 /\ i = k - 1
      <4>1. chain'[i] = chain[k - 1]
        BY <1>3, <1>4, <3>1
      <4>2. heap'[chain'[i]].next = IF k < L THEN chain[k + 1] ELSE NULL
        BY <1>5, <1>6, <3>1, <4>1
      <4>3. k < L => i < Len(chain') /\ chain'[i + 1] = chain[k + 1]
        BY <1>3, <1>4, <3>1
      <4>. QED
        BY <1>3, <1>4, <3>1, <4>2, <4>3
    <3>2. CASE i < k - 1
      <4>0. i \in Int /\ k \in Int /\ 1 <= i /\ k <= L /\ i < k /\ i + 1 < k
            /\ Len(chain') = L - 1
        BY <1>3, <1>4, <3>2
      <4>1. chain'[i] = chain[i] /\ chain'[i + 1] = chain[i + 1]
            /\ i < Len(chain') /\ i \in 1..L /\ i < L
        <5>1. i < Len(chain') /\ i \in 1..L /\ i < L
              /\ i + 1 \in 1..Len(chain')
          BY <1>3, <4>0
        <5>2. \A j \in 1..Len(chain') :
                 chain'[j] = IF j < k THEN chain[j] ELSE chain[j + 1]
          BY <1>4
        <5>. QED
          BY <4>0, <5>1, <5>2
      <4>2. chain[i] \in Node /\ chain[i] # chain[k - 1]
        BY <1>3, <1>5, <3>2, <4>1
      <4>. QED
        BY <1>5, <1>6, <4>1, <4>2
    <3>3. CASE i >= k
      <4>0. i \in Int /\ k \in Int /\ 1 <= i /\ i <= L - 1 /\ ~(i < k)
            /\ ~(i + 1 < k) /\ Len(chain') = L - 1
        BY <1>3, <1>4, <3>3
      <4>1. chain'[i] = chain[i + 1] /\ i + 1 \in 1..L
            /\ (i < Len(chain') => chain'[i + 1] = chain[i + 2])
            /\ (i < Len(chain') <=> i + 1 < L)
        <5>1. chain'[i] = chain[i + 1]
          BY <1>4, <4>0
        <5>2. i < Len(chain') => chain'[i + 1] = chain[(i + 1) + 1]
          <6>1. i < Len(chain') => i + 1 \in 1..Len(chain') /\ ~(i + 1 < k)
            BY <1>3, <4>0
          <6>2. \A j \in 1..Len(chain') :
                   chain'[j] = IF j < k THEN chain[j] ELSE chain[j + 1]
            BY <1>4
          <6>. QED
            BY <6>1, <6>2
        <5>3. (i + 1) + 1 = i + 2
          BY <4>0
        <5>4. i + 1 \in 1..L /\ (i < Len(chain') <=> i + 1 < L)
          BY <1>3, <4>0
        <5>. QED
          BY <5>1, <5>2, <5>3, <5>4
      <4>2. chain[i + 1] \in Node /\ (k > 1 => chain[i + 1] # chain[k - 1])
        BY <1>3, <1>5, <3>3, <4>1
      <4>3. heap'[chain[i + 1]].next = heap[chain[i + 1]].next
        BY <1>3, <1>6, <4>2
      <4>. QED
        BY <1>3, <1>5, <4>1, <4>3
    <3>. QED
      BY <1>3, <1>4, <3>1, <3>2, <3>3
  <2>. QED
    BY <1>4, <2>1 DEF Linked
<1>8. EndsMatch'
  <2>1. chain' = <<>> <=> L = 1
    BY <1>3, <1>4, EmptySeq
  <2>2. L > 1 => /\ chain'[1] = IF k = 1 THEN chain[2] ELSE chain[1]
                 /\ chain'[Len(chain')] =
                       IF k = L THEN chain[L - 1] ELSE chain[L]
    <3>1. L > 1 => chain'[1] = IF 1 < k THEN chain[1] ELSE chain[2]
      BY <1>3, <1>4
    <3>2. L > 1 => chain'[L - 1] = IF L - 1 < k THEN chain[L - 1]
                                   ELSE chain[(L - 1) + 1]
      BY <1>3, <1>4
    <3>. QED
      BY <1>3, <1>4, <3>1, <3>2
  <2>3. k = 1 => heap[chain[1]].next = IF 1 < L THEN chain[2] ELSE NULL
    BY <1>3, <1>5
  <2>. QED
    BY <1>2, <1>3, <1>4, <2>1, <2>2, <2>3 DEF EndsMatch
<1>9. TypeOK'
  <2>1. first' \in Node \union {NULL} /\ last' \in Node \union {NULL}
    BY <1>3, <1>5
  <2>2. len' \in Nat
    BY <1>2, <1>3
  <2>. QED
    BY <1>1, <1>2, <1>4, <1>6, <2>1, <2>2 DEF TypeOK
<1>10. NoLeak'
  BY <1>4 DEF NoLeak
<1>11. IteratorInside'
  <2>1. ASSUME cursor # NULL
        PROVE  \E j \in 1..L : j # k /\ cursor = chain[j]
    <3>1. live /\ held # NULL
      BY <1>1, <2>1, NullAssumption DEF IteratorInside
    <3>2. PICK i \in 1..L : /\ heap[chain[i]].item = held
                            /\ i < L /\ cursor = chain[i + 1]
      BY <1>1, <2>1, <3>1 DEF IteratorInside
    <3>3. i >= k
      BY <1>3, <3>1, <3>2
    <3>. QED
      BY <1>3, <3>2, <3>3
  <2>2. cursor' # NULL => \E i \in 1..Len(chain') : cursor' = chain'[i]
    BY <1>2, <1>4, <2>1
  <2>. QED
    BY <1>1, <1>2, <2>2 DEF IteratorInside
<1>12. ScanInside' /\ FreeInside' /\ NoCrash'
  BY <1>2 DEF ScanInside, FreeInside, NoCrash
<1>. QED
  BY <1>7, <1>8, <1>9, <1>10, <1>11, <1>12 DEF IInv

\* A step that unlinks the k-th node, the first that holds entry.
UnlinkStep(k, entry) ==
    /\ pc \in {"idle", "scan"} /\ pc' = "idle"
    /\ Unlinked(k)
    /\ curr' = NULL /\ arg' \in Entry \union {NULL}
    /\ heap[chain[k]].item = entry
    /\ \A i \in 1..(k - 1) : heap[chain[i]].item # entry
    /\ live => held = entry
    /\ first' = IF k = 1 THEN heap[chain[1]].next ELSE chain[1]
    /\ last' = IF k < Len(chain) THEN chain[Len(chain)]
               ELSE IF k = 1 THEN NULL ELSE chain[k - 1]
    /\ heap' = IF k = 1 THEN heap
               ELSE [heap EXCEPT ![chain[k - 1]].next = heap[chain[k]].next]

LEMMA RemoveFirstUnlinks ==
    ASSUME IInv, RemoveFirst
    PROVE  \E k \in 1..Len(chain), entry \in Entry : UnlinkStep(k, entry)
<1>1. PICK entry \in Entry : MayRemove(entry) /\ heap[first].item = entry
  BY DEF RemoveFirst
<1>2. /\ pc = "idle" /\ pc' = "idle" /\ first # NULL
      /\ first' = heap[first].next
      /\ last' = IF first = last THEN heap[first].next ELSE last
      /\ Unlinked(1)
      /\ heap' = heap /\ curr' = curr /\ arg' = arg
  BY DEF RemoveFirst, LastWithout
<1>3. Standing /\ TypeOK /\ Linked
  BY <1>2 DEF Standing, IInv
<1>4. /\ Len(chain) \in Nat /\ Len(chain) > 0
      /\ first = chain[1] /\ last = chain[Len(chain)]
  BY <1>2, <1>3, Ends
<1>5. 1 \in 1..Len(chain) /\ Len(chain) \in 1..Len(chain)
  BY <1>4
<1>6. /\ heap[chain[1]].next = IF 1 < Len(chain) THEN chain[2] ELSE NULL
      /\ first = last <=> Len(chain) = 1
  <2>1. heap[chain[1]].next = IF 1 < Len(chain) THEN chain[1 + 1] ELSE NULL
    BY <1>3, <1>5 DEF Linked
  <2>2. chain[1] = chain[Len(chain)] => 1 = Len(chain)
    BY <1>3, <1>5 DEF Linked
  <2>. QED
    BY <1>4, <2>1, <2>2
<1>7. /\ first' = heap[chain[1]].next
      /\ last' = IF 1 < Len(chain) THEN chain[Len(chain)] ELSE NULL
  BY <1>2, <1>4, <1>6
<1>8. /\ curr' = NULL /\ arg' \in Entry \union {NULL}
      /\ heap[chain[1]].item = entry
      /\ live => held = entry
  BY <1>1, <1>2, <1>3, <1>4 DEF IInv, FreeInside, TypeOK, MayRemove
<1>9. \A i \in 1..(1 - 1) : heap[chain[i]].item # entry
  OBVIOUS
<1>. QED
  BY <1>2, <1>4, <1>5, <1>7, <1>8, <1>9 DEF UnlinkStep

LEMMA RemoveFirstInv == IInv /\ RemoveFirst => IInv'
<1>. SUFFICES ASSUME IInv, RemoveFirst
              PROVE  IInv'
  OBVIOUS
<1>. PICK k \in 1..Len(chain), entry \in Entry : UnlinkStep(k, entry)
  BY RemoveFirstUnlinks
<1>. QED
  BY UnlinkInv DEF UnlinkStep

LEMMA RemoveCallInv == IInv /\ RemoveCall => IInv'
<1>. SUFFICES ASSUME IInv, RemoveCall
              PROVE  IInv'
  OBVIOUS
<1>1. PICK entry \in Entry : /\ MayRemove(entry)
                             /\ first = NULL \/ heap[first].item # entry
                             /\ arg' = entry
  BY DEF RemoveCall
<1>2. /\ pc = "idle" /\ pc' = "scan" /\ curr' = first
      /\ UNCHANGED <<heap, alloc, first, last, len, live, cursor, held, ret,
                     chain>>
  BY DEF RemoveCall
<1>3. Standing /\ Standing'
  BY <1>2 DEF Standing
<1>4. /\ Linked' /\ EndsMatch' /\ NoLeak' /\ IteratorInside' /\ FreeInside'
      /\ NoCrash' /\ TypeOK'
  BY <1>1, <1>2, <1>3 DEF IInv, TypeOK, Linked, EndsMatch, NoLeak,
     IteratorInside, FreeInside, NoCrash, Standing
<1>5. ScanInside'
  <2>1. /\ Len(chain) \in Nat
        /\ first = NULL <=> Len(chain) = 0
        /\ chain = <<>> <=> Len(chain) = 0
        /\ Len(chain) > 0 => first = chain[1]
    BY <1>3, Ends
  <2>2. arg' \in Entry /\ (live' => held' = arg')
    BY <1>1, <1>2 DEF MayRemove
  <2>3. curr' = NULL => chain' = <<>> /\ CallOnEmpty
    BY <1>1, <1>2, <2>1 DEF MayRemove
  <2>4. ASSUME curr' # NULL
        PROVE  \E k \in 1..Len(chain') :
                  /\ curr' = chain'[k]
                  /\ \A i \in 1..k : heap'[chain'[i]].item # arg'
    <3>1. 1 \in 1..Len(chain') /\ curr' = chain'[1]
      BY <1>2, <2>1, <2>4
    <3>2. \A i \in 1..1 : heap'[chain'[i]].item # arg'
      BY <1>1, <1>2, <2>4, <3>1
    <3>. QED
      BY <3>1, <3>2
  <2>. QED
    BY <2>2, <2>3, <2>4 DEF ScanInside
<1>. QED
  BY <1>4, <1>5 DEF IInv

\* The node the walk of dpl_list_remove is at, by its place in the list.
LEMMA ScanAt ==
    ASSUME IInv, pc = "scan", curr # NULL,
           NEW k \in 1..Len(chain), curr = chain[k]
    PROVE  /\ Len(chain) \in Nat
           /\ ScanNext # NULL <=> k < Len(chain)
           /\ k < Len(chain) => ScanNext = chain[k + 1]
                                /\ chain[k + 1] \in Node
           /\ curr \in Node
           /\ last = chain[Len(chain)]
<1>1. Standing
  BY DEF Standing
<1>2. /\ Len(chain) \in Nat
      /\ \A i \in 1..Len(chain) : chain[i] \in Node /\ chain[i] # NULL
      /\ Len(chain) > 0 => last = chain[Len(chain)]
  BY <1>1, Ends
<1>3. ScanNext = IF k < Len(chain) THEN chain[k + 1] ELSE NULL
  BY DEF IInv, Linked, ScanNext
<1>. QED
  BY <1>2, <1>3

LEMMA RemoveScanInv == IInv /\ RemoveScan => IInv'
<1>. SUFFICES ASSUME IInv, RemoveScan
              PROVE  IInv'
  OBVIOUS
<1>1. /\ pc = "scan" /\ pc' = "scan" /\ curr # NULL /\ ScanNext # NULL
      /\ heap[ScanNext].item # arg /\ curr' = ScanNext /\ arg' = arg
      /\ UNCHANGED <<heap, alloc, first, last, len, live, cursor, held, ret,
                     chain>>
  BY DEF RemoveScan
<1>2. PICK k \in 1..Len(chain) :
         curr = chain[k] /\ \A i \in 1..k : heap[chain[i]].item # arg
  BY <1>1 DEF IInv, ScanInside
<1>3. /\ Len(chain) \in Nat /\ k < Len(chain)
      /\ ScanNext = chain[k + 1] /\ ScanNext \in Node
  BY <1>1, <1>2, ScanAt
<1>4. /\ Linked' /\ EndsMatch' /\ NoLeak' /\ IteratorInside' /\ FreeInside'
      /\ NoCrash' /\ TypeOK'
  BY <1>1, <1>3 DEF IInv, TypeOK, Linked, EndsMatch, NoLeak,
     IteratorInside, FreeInside, NoCrash, Standing
<1>5. ScanInside'
  <2>1. k + 1 \in 1..Len(chain)
    BY <1>3
  <2>2. \A i \in 1..(k + 1) : heap[chain[i]].item # arg
    BY <1>1, <1>2, <1>3
  <2>3. curr' # NULL
    BY <1>1
  <2>. QED
    BY <1>1, <1>3, <2>1, <2>2, <2>3 DEF IInv, ScanInside
<1>. QED
  BY <1>4, <1>5 DEF IInv

LEMMA RemoveUnlinkUnlinks ==
    ASSUME IInv, RemoveUnlink
    PROVE  \E k \in 1..Len(chain), entry \in Entry : UnlinkStep(k, entry)
<1>1. PICK n \in DOMAIN chain : chain[n] = ScanNext /\ Unlinked(n)
  BY DEF RemoveUnlink
<1>2. /\ pc = "scan" /\ pc' = "idle" /\ curr # NULL /\ ScanNext # NULL
      /\ heap[ScanNext].item = arg /\ curr' = NULL /\ arg' = NULL
      /\ last' = IF ScanNext = last THEN curr ELSE last
      /\ heap' = [heap EXCEPT ![curr].next = heap[ScanNext].next]
      /\ first' = first
  BY DEF RemoveUnlink, LastWithout
<1>3. PICK k \in 1..Len(chain) :
         curr = chain[k] /\ \A i \in 1..k : heap[chain[i]].item # arg
  BY <1>2 DEF IInv, ScanInside
<1>4. /\ Len(chain) \in Nat /\ k < Len(chain)
      /\ ScanNext = chain[k + 1] /\ last = chain[Len(chain)]
  BY <1>2, <1>3, ScanAt
<1>5. DOMAIN chain = 1..Len(chain)
  BY LenProperties DEF IInv, TypeOK
<1>6. k + 1 \in 1..Len(chain) /\ n = k + 1
  BY <1>1, <1>4, <1>5 DEF IInv, Linked
<1>7. /\ arg \in Entry /\ (live => held = arg)
  BY <1>2 DEF IInv, ScanInside
<1>8. first' = chain[1]
  BY <1>2, <1>4, <1>6 DEF IInv, EndsMatch
<1>9. last' = IF n < Len(chain) THEN chain[Len(chain)] ELSE chain[n - 1]
  <2>1. ScanNext = last <=> k + 1 = Len(chain)
    BY <1>4, <1>6 DEF IInv, Linked
  <2>. QED
    BY <1>2, <1>3, <1>4, <1>6, <2>1
<1>10. heap' = [heap EXCEPT ![chain[n - 1]].next = heap[chain[n]].next]
  <2>1. chain[n - 1] = curr /\ chain[n] = ScanNext
    BY <1>1, <1>3, <1>6
  <2>. QED
    BY <1>2, <2>1
<1>11. \A i \in 1..(n - 1) : heap[chain[i]].item # arg
  BY <1>3, <1>6
<1>12. n # 1 /\ n \in 1..Len(chain) /\ heap[chain[n]].item = arg
  BY <1>1, <1>2, <1>6
<1>. QED
  BY <1>1, <1>2, <1>7, <1>8, <1>9, <1>10, <1>11, <1>12 DEF UnlinkStep

LEMMA RemoveUnlinkInv == IInv /\ RemoveUnlink => IInv'
<1>. SUFFICES ASSUME IInv, RemoveUnlink
              PROVE  IInv'
  OBVIOUS
<1>. PICK k \in 1..Len(chain), entry \in Entry : UnlinkStep(k, entry)
  BY RemoveUnlinkUnlinks
<1>. QED
  BY UnlinkInv DEF UnlinkStep

\* The ends of a walk that changes no node: a crash, an entry that is not in
\* the list, and the call and the end of dpl_list_free.
LEMMA WalkInv ==
    IInv /\ (RemoveCrash \/ RemoveNotFound \/ FreeCall \/ FreeDone) => IInv'
<1>. SUFFICES ASSUME IInv,
                     RemoveCrash \/ RemoveNotFound \/ FreeCall \/ FreeDone
              PROVE  IInv'
  OBVIOUS
<1>1. UNCHANGED <<heap, alloc, first, last, len, live, cursor, chain>>
  BY DEF RemoveCrash, RemoveNotFound, FreeCall, FreeDone
<1>2. CASE RemoveCrash
  <2>1. /\ pc = "scan" /\ curr = NULL /\ pc' = "crashed"
        /\ UNCHANGED <<held, curr, arg, ret>>
    BY <1>2 DEF RemoveCrash
  <2>. QED
    BY <1>1, <2>1 DEF IInv, TypeOK, Linked, EndsMatch, NoLeak,
       IteratorInside, ScanInside, FreeInside, NoCrash, Standing
<1>3. CASE RemoveNotFound
  <2>1. /\ pc = "scan" /\ pc' = "idle" /\ held' = NULL /\ curr' = NULL
        /\ arg' = NULL /\ ret' = "ERR_NOTFOUND"
    BY <1>3 DEF RemoveNotFound
  <2>. QED
    BY <1>1, <2>1 DEF IInv, TypeOK, Linked, EndsMatch, NoLeak,
       IteratorInside, ScanInside, FreeInside, NoCrash, Standing
<1>4. CASE FreeCall
  <2>1. /\ pc = "idle" /\ ~live /\ curr' = first /\ pc' = "freeing"
        /\ UNCHANGED <<held, arg, ret>>
    BY <1>4 DEF FreeCall
  <2>2. first = IF chain = <<>> THEN NULL ELSE chain[1]
    BY <2>1 DEF IInv, EndsMatch
  <2>. QED
    BY <1>1, <2>1, <2>2 DEF IInv, TypeOK, Linked, EndsMatch, NoLeak,
       IteratorInside, ScanInside, FreeInside, NoCrash, Standing
<1>5. CASE FreeDone
  <2>1. /\ pc = "freeing" /\ curr = NULL /\ pc' = "gone"
        /\ UNCHANGED <<held, curr, arg, ret>>
    BY <1>5 DEF FreeDone
  <2>2. chain = <<>> /\ Len(chain) = 0
    <3>1. chain # <<>> => chain[1] \in Node
      BY EmptySeq, ElementOfSeq DEF IInv, TypeOK
    <3>. QED
      BY <2>1, <3>1, NullAssumption, EmptySeq DEF IInv, FreeInside
  <2>. QED
    BY <1>1, <2>1, <2>2 DEF IInv, TypeOK, Linked, EndsMatch, NoLeak,
       IteratorInside, ScanInside, FreeInside, NoCrash, Standing
<1>. QED
  BY <1>2, <1>3, <1>4, <1>5

LEMMA FreeNodeInv == IInv /\ FreeNode => IInv'
<1>. SUFFICES ASSUME IInv, FreeNode
              PROVE  IInv'
  OBVIOUS
<1>1. /\ pc = "freeing" /\ pc' = "freeing" /\ curr # NULL
      /\ curr' = heap[curr].next /\ alloc' = alloc \ {curr}
      /\ chain' = Without(chain, 1)
      /\ UNCHANGED <<heap, first, last, len, live, cursor, held, arg, ret>>
  BY DEF FreeNode
<1>2. TypeOK /\ Linked /\ NoLeak
  BY DEF IInv
<1>3. chain # <<>> /\ curr = chain[1]
  BY <1>1 DEF IInv, FreeInside
<1>4. 1 \in 1..Len(chain) /\ Len(chain) \in Nat
  BY <1>2, <1>3, EmptySeq DEF TypeOK
<1>5. /\ chain' \in Seq(Node)
      /\ Len(chain') = Len(chain) - 1
      /\ \A i \in 1..Len(chain') :
            chain'[i] = IF i < 1 THEN chain[i] ELSE chain[i + 1]
      /\ \A i \in 1..Len(chain') : chain'[i] \in alloc'
      /\ \A i, j \in 1..Len(chain') : chain'[i] = chain'[j] => i = j
      /\ alloc' \subseteq {chain'[i] : i \in 1..Len(chain')}
  BY <1>1, <1>2, <1>3, <1>4, UnlinkNodes
<1>6. \A i \in 1..Len(chain') : chain'[i] = chain[i + 1]
  BY <1>5
<1>7. Linked'
  <2>1. ASSUME NEW i \in 1..Len(chain')
        PROVE  heap'[chain'[i]].next =
                  IF i < Len(chain') THEN chain'[i + 1] ELSE NULL
    <3>1. i + 1 \in 1..Len(chain) /\ chain'[i] = chain[i + 1]
          /\ (i < Len(chain') <=> i + 1 < Len(chain))
          /\ (i < Len(chain') => chain'[i + 1] = chain[(i + 1) + 1])
      BY <1>4, <1>5, <1>6
    <3>. QED
      BY <1>1, <1>2, <3>1 DEF Linked
  <2>. QED
    BY <1>5, <2>1 DEF Linked
<1>8. curr' = IF chain' = <<>> THEN NULL ELSE chain'[1]
  <2>1. curr' = IF 1 < Len(chain) THEN chain[1 + 1] ELSE NULL
    BY <1>1, <1>2, <1>3, <1>4 DEF Linked
  <2>2. chain' = <<>> <=> Len(chain) = 1
    BY <1>4, <1>5, EmptySeq
  <2>. QED
    BY <1>4, <1>5, <1>6, <2>1, <2>2
<1>9. TypeOK'
  <2>1. curr' \in Node \union {NULL}
    BY <1>5, <1>8, EmptySeq, ElementOfSeq
  <2>. QED
    BY <1>1, <1>2, <1>5, <2>1 DEF TypeOK
<1>10. NoLeak' /\ EndsMatch'
  BY <1>1, <1>5 DEF NoLeak, EndsMatch
<1>11. IteratorInside' /\ ScanInside' /\ FreeInside' /\ NoCrash'
  BY <1>1, <1>8 DEF IInv, IteratorInside, ScanInside, FreeInside, NoCrash,
     Standing
<1>. QED
  BY <1>7, <1>9, <1>10, <1>11 DEF IInv

LEMMA NextInv == IInv /\ [Next]_vars => IInv'
<1>1. IInv /\ UNCHANGED vars => IInv'
  BY DEF vars, IInv, TypeOK, Linked, EndsMatch, NoLeak, IteratorInside,
     ScanInside, FreeInside, NoCrash, Standing
<1>. QED
  BY <1>1, PlainInv, PushInv, IterInv, RemoveFirstInv, RemoveCallInv,
     RemoveScanInv, RemoveUnlinkInv, WalkInv, FreeNodeInv DEF Next, Step

LEMMA Inductive == Spec => []IInv
BY InitInv, NextInv, PTL DEF Spec

----------------------------------------------------------------------------
\* Every pointer of the list has its type.
THEOREM TypeCorrect == Spec => []TypeOK
<1>1. IInv => TypeOK
  BY DEF IInv
<1>. QED
  BY <1>1, Inductive, PTL

\* The nodes stay linked in one chain that ends in NULL and lies in allocated
\* memory.
THEOREM LinkedCorrect == Spec => []Linked
<1>1. IInv => Linked
  BY DEF IInv
<1>. QED
  BY <1>1, Inductive, PTL

\* first, last and len agree with that chain between any two calls.
THEOREM EndsCorrect == Spec => []EndsMatch
<1>1. IInv => EndsMatch
  BY DEF IInv
<1>. QED
  BY <1>1, Inductive, PTL

\* No node is lost before dpl_list_free and none is left after it.
THEOREM LeakFree == Spec => []NoLeak
<1>1. IInv => NoLeak
  BY DEF IInv
<1>. QED
  BY <1>1, Inductive, PTL

\* An entry is removed under an iterator without leaving the iterator, or the
\* walk of a call, on freed memory.
THEOREM PointersValid == Spec => []NoDangling
<1>1. IInv => NoDangling
  <2>. SUFFICES ASSUME IInv
                PROVE  NoDangling
    OBVIOUS
  <2>1. cursor \in alloc \union {NULL}
    BY DEF IInv, IteratorInside, Linked
  <2>2. CASE pc = "scan"
    BY <2>1, <2>2 DEF IInv, ScanInside, Linked, NoDangling
  <2>3. CASE pc = "freeing"
    <3>1. chain # <<>> => 1 \in 1..Len(chain)
      BY EmptySeq DEF IInv, TypeOK
    <3>. QED
      BY <2>1, <2>3, <3>1 DEF IInv, FreeInside, Linked, NoDangling
  <2>4. CASE pc \in {"idle", "gone", "crashed"}
    BY <2>1, <2>4 DEF IInv, FreeInside, NoDangling
  <2>. QED
    BY <2>2, <2>3, <2>4 DEF IInv, TypeOK
<1>. QED
  BY <1>1, Inductive, PTL

\* dpl_list_remove never reads through the null pointer as long as no caller
\* hands it an empty list.
THEOREM RemoveSafe == Spec => [](CallOnEmpty \/ RemoveReturns)
<1>1. IInv => CallOnEmpty \/ RemoveReturns
  BY DEF IInv, NoCrash, RemoveReturns
<1>. QED
  BY <1>1, Inductive, PTL

----------------------------------------------------------------------------
(***************************************************************************)
(* DplList implements ListADT: what is found by following the pointers is  *)
(* a sequence of entries, and the iterator's node a position in it.        *)
(***************************************************************************)
\* What is found by following the next pointers: from a node of the list its
\* entry and those of the nodes behind it, from the null pointer nothing.
LEMMA WalkValues ==
    ASSUME TypeOK, Linked, NEW i \in 1..(Len(chain) + 1),
           NEW node, node = IF i <= Len(chain) THEN chain[i] ELSE NULL
    PROVE  EntriesFrom(node) =
              [k \in 1..(Len(chain) - i + 1) |-> heap[chain[i + k - 1]].item]
<1>. DEFINE L == Len(chain)
            Steps == 1..(L + 1)
            Rec(f) == [k \in Steps |-> IF k = 1 THEN node
                                       ELSE IF f[k - 1] = NULL THEN NULL
                                       ELSE heap[f[k - 1]].next]
            at == CHOOSE f : f = Rec(f)
            path == [k \in Steps |-> IF i + k - 1 <= L THEN chain[i + k - 1]
                                     ELSE NULL]
<1>1. /\ L \in Nat /\ NULL \notin Node
      /\ \A j \in 1..L : chain[j] \in Node /\ chain[j] # NULL
      /\ \A j \in 1..L : heap[chain[j]].next =
                            IF j < L THEN chain[j + 1] ELSE NULL
  BY NullAssumption, LenProperties, ElementOfSeq DEF TypeOK, Linked
<1>2. path = Rec(path)
  <2>1. ASSUME NEW k \in Steps
        PROVE  path[k] = IF k = 1 THEN node
                         ELSE IF path[k - 1] = NULL THEN NULL
                         ELSE heap[path[k - 1]].next
    <3>1. CASE k = 1
      BY <1>1, <3>1
    <3>2. CASE k # 1 /\ i + k - 2 <= L
      <4>1. /\ k - 1 \in Steps /\ i + k - 2 \in 1..L
            /\ i + (k - 1) - 1 = i + k - 2
            /\ (i + k - 2) + 1 = i + k - 1
            /\ (i + k - 2 < L <=> i + k - 1 <= L)
        BY <1>1, <3>2
      <4>2. path[k - 1] = chain[i + k - 2]
        BY <3>2, <4>1
      <4>3. heap[path[k - 1]].next = IF i + k - 2 < L THEN chain[i + k - 1]
                                     ELSE NULL
        BY <1>1, <4>1, <4>2
      <4>. QED
        BY <1>1, <3>2, <4>1, <4>2, <4>3
    <3>3. CASE k # 1 /\ ~(i + k - 2 <= L)
      <4>1. /\ k - 1 \in Steps /\ ~(i + k - 1 <= L)
            /\ i + (k - 1) - 1 = i + k - 2
        BY <1>1, <3>3
      <4>. QED
        BY <3>3, <4>1
    <3>. QED
      BY <3>1, <3>2, <3>3
  <2>. QED
    BY <2>1
<1>3. at = Rec(at)
  BY <1>2
<1>. HIDE DEF at, path
<1>4. ASSUME NEW k \in Steps
      PROVE  at[k] = path[k]
  <2>. DEFINE S == {n \in Nat : n + 1 \in Steps => at[n + 1] = path[n + 1]}
  <2>1. 0 \in S
    BY <1>1, <1>2, <1>3
  <2>2. ASSUME NEW n \in S
        PROVE  n + 1 \in S
    <3>. SUFFICES ASSUME (n + 1) + 1 \in Steps
                  PROVE  at[(n + 1) + 1] = path[(n + 1) + 1]
      OBVIOUS
    <3>1. n + 1 \in Steps /\ (n + 1) + 1 # 1 /\ ((n + 1) + 1) - 1 = n + 1
      BY <1>1
    <3>2. at[n + 1] = path[n + 1]
      BY <3>1
    <3>. QED
      BY <1>2, <1>3, <3>1, <3>2
  <2>3. S = Nat
    <3>. HIDE DEF S
    <3>1. S \in SUBSET Nat
      BY DEF S
    <3>. QED
      BY <2>1, <2>2, <3>1, Induction
  <2>4. k - 1 \in Nat /\ (k - 1) + 1 = k
    BY <1>1
  <2>. QED
    BY <2>3, <2>4
<1>5. EntriesFrom(node) = [k \in {k \in Steps : at[k] # NULL} |->
                              heap[at[k]].item]
  BY DEF EntriesFrom, at
<1>6. {k \in Steps : at[k] # NULL} = 1..(L - i + 1)
  <2>1. ASSUME NEW k \in Steps
        PROVE  at[k] # NULL <=> k \in 1..(L - i + 1)
    <3>1. at[k] = IF i + k - 1 <= L THEN chain[i + k - 1] ELSE NULL
      BY <1>4 DEF path
    <3>2. i + k - 1 <= L => i + k - 1 \in 1..L
      BY <1>1
    <3>3. i + k - 1 <= L <=> k \in 1..(L - i + 1)
      BY <1>1
    <3>. QED
      BY <1>1, <3>1, <3>2, <3>3
  <2>2. 1..(L - i + 1) \subseteq Steps
    BY <1>1
  <2>. QED
    BY <2>1, <2>2
<1>7. ASSUME NEW k \in 1..(L - i + 1)
      PROVE  heap[at[k]].item = heap[chain[i + k - 1]].item
  <2>1. k \in Steps /\ i + k - 1 <= L
    BY <1>1
  <2>. QED
    BY <1>4, <2>1 DEF path
<1>. QED
  BY <1>5, <1>6, <1>7

----------------------------------------------------------------------------
\* The entries in the nodes of the list.
Items == [k \in 1..Len(chain) |-> heap[chain[k]].item]

\* The list and the position of the iterator that the refinement mapping sees.
AbsList == IF Exists THEN EntriesFrom(first) ELSE <<>>
AbsPos == IF cursor = NULL THEN 0
          ELSE Len(EntriesFrom(first)) - Len(ToCome) + 1

LEMMA ItemsType ==
    IInv => /\ Len(chain) \in Nat
            /\ Items \in Seq(Entry \union {NULL})
            /\ Len(Items) = Len(chain)
<1>. SUFFICES ASSUME IInv
              PROVE  /\ Len(chain) \in Nat
                     /\ Items \in Seq(Entry \union {NULL})
                     /\ Len(Items) = Len(chain)
  OBVIOUS
<1>1. /\ chain \in Seq(Node) /\ Len(chain) \in Nat
      /\ heap \in [Node -> NodeType]
  BY LenProperties DEF IInv, TypeOK
<1>2. ASSUME NEW k \in 1..Len(chain)
      PROVE  heap[chain[k]].item \in Entry \union {NULL}
  <2>1. chain[k] \in Node
    BY <1>1, ElementOfSeq
  <2>. QED
    BY <1>1, <2>1 DEF NodeType
<1>3. Items \in [1..Len(chain) -> Entry \union {NULL}]
  BY <1>2 DEF Items
<1>4. Items \in Seq(Entry \union {NULL})
  BY <1>1, <1>3, SeqDef
<1>. QED
  BY <1>1, <1>3, <1>4, LenProperties

\* The list the mapping sees is the entries of the nodes.
LEMMA ListMaps == IInv => AbsList = IF Exists THEN Items ELSE <<>>
<1>. SUFFICES ASSUME IInv, Exists
              PROVE  EntriesFrom(first) = Items
  BY DEF AbsList
<1>1. /\ Len(chain) \in Nat
      /\ first = IF 1 <= Len(chain) THEN chain[1] ELSE NULL
      /\ 1 \in 1..(Len(chain) + 1)
  BY Ends DEF Exists, Standing
<1>2. TypeOK /\ Linked
  BY DEF IInv
<1>3. EntriesFrom(first) =
         [k \in 1..(Len(chain) - 1 + 1) |-> heap[chain[1 + k - 1]].item]
  BY <1>1, <1>2, WalkValues
<1>4. /\ Len(chain) - 1 + 1 = Len(chain)
      /\ \A k \in 1..Len(chain) : 1 + k - 1 = k
  BY <1>1
<1>. QED
  BY <1>3, <1>4 DEF Items

\* An exhausted iterator has nothing to hand out and is at no position.
LEMMA ExhaustedMaps == IInv => (cursor = NULL => AbsPos = 0 /\ ToCome = <<>>)
<1>. SUFFICES ASSUME IInv, cursor = NULL
              PROVE  AbsPos = 0 /\ ToCome = <<>>
  OBVIOUS
<1>1. Len(chain) \in Nat
  BY ItemsType
<1>. DEFINE i == Len(chain) + 1
<1>2. i \in 1..(Len(chain) + 1) /\ ~(i <= Len(chain)) /\ Len(chain) - i + 1 = 0
  BY <1>1
<1>3. TypeOK /\ Linked
  BY DEF IInv
<1>. HIDE DEF i
<1>4. ToCome = [k \in 1..(Len(chain) - i + 1) |->
                   heap[chain[i + k - 1]].item]
  BY <1>2, <1>3, WalkValues DEF ToCome
<1>5. 1..(Len(chain) - i + 1) = {}
  BY <1>2
<1>6. ToCome = [k \in {} |-> heap[chain[i + k - 1]].item]
  BY <1>4, <1>5
<1>7. \A f : DOMAIN f = {} /\ f = [k \in DOMAIN f |-> f[k]] => f = <<>>
  OBVIOUS
<1>. QED
  BY <1>6, <1>7 DEF AbsPos

\* An iterator on the i-th node is at the position i, and has the entries from
\* there on to hand out.
LEMMA PositionMaps ==
    IInv => \A i \in 1..Len(chain) : cursor = chain[i] =>
               /\ AbsPos = i
               /\ ToCome = [k \in 1..(Len(chain) - i + 1) |-> Items[i + k - 1]]
               /\ ToCome \in Seq(Entry \union {NULL})
               /\ Len(ToCome) = Len(chain) - i + 1
               /\ Exists
<1>. SUFFICES ASSUME IInv, NEW i \in 1..Len(chain), cursor = chain[i]
              PROVE  /\ AbsPos = i
                     /\ ToCome = [k \in 1..(Len(chain) - i + 1) |->
                                     Items[i + k - 1]]
                     /\ ToCome \in Seq(Entry \union {NULL})
                     /\ Len(ToCome) = Len(chain) - i + 1
                     /\ Exists
  OBVIOUS
<1>1. /\ Len(chain) \in Nat /\ Len(Items) = Len(chain)
      /\ Items \in Seq(Entry \union {NULL})
  BY ItemsType
<1>2. TypeOK /\ Linked
  BY DEF IInv
<1>3. chain[i] \in Node /\ cursor # NULL
  BY <1>2, ElementOfSeq, NullAssumption DEF TypeOK
<1>4. Exists
  BY <1>3 DEF IInv, IteratorInside, Standing, Exists
<1>5. i \in 1..(Len(chain) + 1) /\ i <= Len(chain) /\ i \in Int
      /\ Len(chain) - i + 1 \in Nat
  BY <1>1
<1>6. ToCome = [k \in 1..(Len(chain) - i + 1) |->
                   heap[chain[i + k - 1]].item]
  BY <1>2, <1>5, WalkValues DEF ToCome
<1>7. ASSUME NEW k \in 1..(Len(chain) - i + 1)
      PROVE  /\ heap[chain[i + k - 1]].item = Items[i + k - 1]
             /\ Items[i + k - 1] \in Entry \union {NULL}
  <2>1. i + k - 1 \in 1..Len(chain)
    BY <1>1, <1>5
  <2>. QED
    BY <1>1, <2>1, ElementOfSeq DEF Items
<1>8. ToCome = [k \in 1..(Len(chain) - i + 1) |-> Items[i + k - 1]]
  BY <1>6, <1>7
<1>9. ToCome \in [1..(Len(chain) - i + 1) -> Entry \union {NULL}]
  BY <1>7, <1>8
<1>10. ToCome \in Seq(Entry \union {NULL})
  BY <1>5, <1>9, SeqDef
<1>11. Len(ToCome) = Len(chain) - i + 1
  BY <1>5, <1>9, <1>10, LenProperties
<1>12. EntriesFrom(first) = Items
  BY <1>4, ListMaps DEF AbsList
<1>13. AbsPos = Len(Items) - Len(ToCome) + 1
  BY <1>3, <1>12 DEF AbsPos
<1>14. AbsPos = i
  BY <1>1, <1>5, <1>11, <1>13
<1>. QED
  BY <1>4, <1>8, <1>10, <1>11, <1>14

----------------------------------------------------------------------------
\* A push adds its entry at the end and leaves the nodes that are there.
LEMMA PushItems ==
    ASSUME IInv, Push
    PROVE  \E entry \in Entry :
              /\ Items' = Append(Items, entry)
              /\ \A i \in 1..Len(chain) : chain'[i] = chain[i]
              /\ Len(chain') = Len(chain) + 1
<1>1. PICK n \in Node \ alloc, entry \in Entry : PushNode(n, entry)
  BY DEF Push
<1>. DEFINE new == [item |-> entry, next |-> NULL]
            L == Len(chain)
<1>2. /\ pc = "idle" /\ chain' = Append(chain, n)
      /\ heap' = IF last = NULL
                 THEN [heap EXCEPT ![n] = new]
                 ELSE [heap EXCEPT ![n] = new, ![last].next = n]
  BY <1>1 DEF Push, PushNode
<1>3. TypeOK /\ Standing
  BY <1>2 DEF IInv, Standing
<1>4. /\ L \in Nat
      /\ \A i \in 1..L : chain[i] \in Node /\ chain[i] # n
      /\ last = NULL <=> L = 0
      /\ L > 0 => last = chain[L]
      /\ n \in Node
  BY <1>3, Ends
<1>5. /\ chain' \in Seq(Node)
      /\ Len(chain') = L + 1
      /\ \A i \in 1..L : chain'[i] = chain[i]
      /\ chain'[L + 1] = n
  BY <1>2, <1>3, AppendProperties DEF TypeOK
<1>6. /\ heap'[n].item = entry
      /\ \A m \in Node : m # n => heap'[m].item = heap[m].item
  <2>1. heap \in [Node -> NodeType] /\ new \in NodeType
    BY <1>3, <1>4 DEF TypeOK, NodeType
  <2>2. CASE last = NULL
    BY <1>2, <1>4, <2>1, <2>2
  <2>3. CASE last # NULL
    <3>1. last \in Node /\ last # n
      BY <1>4, <2>3
    <3>2. heap' = [heap EXCEPT ![n] = new, ![last].next = n]
      BY <1>2, <2>3
    <3>. QED
      BY <1>4, <2>1, <3>1, <3>2 DEF NodeType
  <2>. QED
    BY <2>2, <2>3
<1>7. /\ Items \in Seq(Entry \union {NULL}) /\ Len(Items) = L
      /\ entry \in Entry \union {NULL}
  BY ItemsType
<1>8. /\ Append(Items, entry) \in Seq(Entry \union {NULL})
      /\ Len(Append(Items, entry)) = L + 1
      /\ \A k \in 1..L : Append(Items, entry)[k] = Items[k]
      /\ Append(Items, entry)[L + 1] = entry
  BY <1>7, AppendProperties
<1>9. Append(Items, entry) = [k \in 1..(L + 1) |-> Append(Items, entry)[k]]
  <2>. DEFINE longer == Append(Items, entry)
  <2>. HIDE DEF longer
  <2>1. longer \in Seq(Entry \union {NULL}) /\ Len(longer) = L + 1
    BY <1>8 DEF longer
  <2>2. longer = [k \in 1..(L + 1) |-> longer[k]]
    BY <2>1, LenProperties
  <2>. QED
    BY <2>2 DEF longer
<1>10. ASSUME NEW k \in 1..(L + 1)
       PROVE  heap'[chain'[k]].item = Append(Items, entry)[k]
  <2>1. CASE k = L + 1
    BY <1>5, <1>6, <1>8, <2>1
  <2>2. CASE k # L + 1
    <3>1. k \in 1..L
      BY <1>4, <2>2
    <3>. QED
      BY <1>4, <1>5, <1>6, <1>8, <3>1 DEF Items
  <2>. QED
    BY <2>1, <2>2
<1>11. Items' = [k \in 1..Len(chain') |-> heap'[chain'[k]].item]
  BY DEF Items
<1>12. Items' = Append(Items, entry)
  BY <1>5, <1>9, <1>10, <1>11
<1>. QED
  BY <1>5, <1>12

\* The entry goes from its first place, which the iterator has passed.
LEMMA UnlinkItems ==
    ASSUME IInv, NEW k \in 1..Len(chain), NEW entry \in Entry,
           UnlinkStep(k, entry)
    PROVE  /\ IsFirstOccurrence(Items, entry, k)
           /\ Items' = Without(Items, k)
           /\ Len(chain') = Len(chain) - 1
           /\ cursor # NULL =>
                 \E j \in 1..Len(chain) : /\ k < j
                                          /\ cursor = chain[j]
                                          /\ cursor = chain'[j - 1]
<1>. DEFINE L == Len(chain)
<1>1. TypeOK /\ Linked /\ NoLeak /\ IteratorInside /\ Standing
  BY DEF IInv, Standing, UnlinkStep
<1>2. /\ chain' = Without(chain, k) /\ alloc' = alloc \ {chain[k]}
      /\ heap[chain[k]].item = entry
      /\ \A i \in 1..(k - 1) : heap[chain[i]].item # entry
      /\ live => held = entry
      /\ heap' = IF k = 1 THEN heap
                 ELSE [heap EXCEPT ![chain[k - 1]].next =
                           heap[chain[k]].next]
  BY DEF UnlinkStep, Unlinked
<1>3. /\ L \in Nat
      /\ \A i \in 1..L : chain[i] \in Node
      /\ NULL \notin Node
  BY <1>1, Ends
<1>4. /\ Len(chain') = L - 1
      /\ \A i \in 1..Len(chain') :
            chain'[i] = IF i < k THEN chain[i] ELSE chain[i + 1]
      /\ \A j \in 1..L : j # k =>
            /\ (IF j < k THEN j ELSE j - 1) \in 1..Len(chain')
            /\ chain'[IF j < k THEN j ELSE j - 1] = chain[j]
  BY <1>1, <1>2, UnlinkNodes
<1>5. heap \in [Node -> NodeType] /\ \A m \in Node : heap[m] \in NodeType
  BY <1>1 DEF TypeOK
<1>6. \A m \in Node : heap'[m].item = heap[m].item
  <2>1. CASE k = 1
    BY <1>2, <2>1
  <2>2. CASE k # 1
    <3>1. k - 1 \in 1..L
      BY <1>3, <2>2
    <3>2. chain[k - 1] \in Node
      BY <1>3, <3>1
    <3>. QED
      BY <1>2, <1>5, <2>2, <3>2 DEF NodeType
  <2>. QED
    BY <2>1, <2>2
<1>7. /\ Items \in Seq(Entry \union {NULL}) /\ Len(Items) = L
      /\ \A i \in 1..L : Items[i] = heap[chain[i]].item
  BY ItemsType DEF Items
<1>8. IsFirstOccurrence(Items, entry, k)
  <2>1. \A i \in 1..(k - 1) : i \in 1..L
    BY <1>3
  <2>. QED
    BY <1>2, <1>7, <2>1 DEF IsFirstOccurrence
<1>9. ASSUME NEW i \in 1..(L - 1)
      PROVE  heap'[chain'[i]].item = IF i < k THEN Items[i] ELSE Items[i + 1]
  <2>1. i \in 1..L /\ i + 1 \in 1..L
    BY <1>3
  <2>. QED
    BY <1>3, <1>4, <1>6, <1>7, <2>1
<1>10. Items' = [i \in 1..(L - 1) |-> heap'[chain'[i]].item]
  BY <1>4 DEF Items
<1>11. Items' = Without(Items, k)
  BY <1>7, <1>9, <1>10 DEF Without
<1>12. ASSUME cursor # NULL
       PROVE  \E j \in 1..L : /\ k < j
                              /\ cursor = chain[j]
                              /\ cursor = chain'[j - 1]
  <2>1. live /\ held # NULL
    BY <1>1, <1>2, <1>12, NullAssumption DEF IteratorInside
  <2>2. PICK i \in 1..L : /\ heap[chain[i]].item = held
                          /\ i < L /\ cursor = chain[i + 1]
    BY <1>1, <1>12, <2>1 DEF IteratorInside
  <2>3. i >= k
    BY <1>2, <1>3, <2>1, <2>2
  <2>4. i + 1 \in 1..L /\ k < i + 1 /\ i + 1 # k /\ ~(i + 1 < k)
    BY <1>3, <2>2, <2>3
  <2>. QED
    BY <1>4, <2>2, <2>4
<1>. QED
  BY <1>4, <1>8, <1>11, <1>12

----------------------------------------------------------------------------
\* How a state maps: the list is the entries of the nodes and the position of
\* the iterator the place of its node.
Mapped ==
    /\ Len(chain) \in Nat
    /\ Items \in Seq(Entry \union {NULL})
    /\ Len(Items) = Len(chain)
    /\ AbsList = IF Exists THEN Items ELSE <<>>
    /\ cursor = NULL => AbsPos = 0 /\ ToCome = <<>>
    /\ cursor # NULL => Exists /\ \E i \in 1..Len(chain) : cursor = chain[i]
    /\ \A i \in 1..Len(chain) : cursor = chain[i] =>
          /\ AbsPos = i
          /\ ToCome = [k \in 1..(Len(chain) - i + 1) |-> Items[i + k - 1]]
          /\ ToCome \in Seq(Entry \union {NULL})
          /\ Len(ToCome) = Len(chain) - i + 1

MInv == IInv /\ Mapped

LEMMA MappedInv == Spec => []MInv
<1>1. IInv => MInv
  BY ItemsType, ListMaps, ExhaustedMaps, PositionMaps
     DEF MInv, Mapped, IInv, IteratorInside, Exists, Standing
<1>. QED
  BY <1>1, Inductive, PTL

\* A call that touches no node and no iterator is no step of the sequence.
LEMMA MapsUntouched ==
    ASSUME UNCHANGED <<heap, first, chain, cursor>>, Exists' = Exists
    PROVE  AbsList' = AbsList /\ AbsPos' = AbsPos /\ ToCome' = ToCome
BY DEF AbsList, AbsPos, ToCome, EntriesFrom

\* The operations on sequences are the same in both modules.
LEMMA SameLists ==
    /\ \A s : Abstract!FirstPos(s) = FirstPos(s)
    /\ \A s, p : Abstract!NextPos(s, p) = NextPos(s, p)
    /\ \A s, e, k :
          Abstract!IsFirstOccurrence(s, e, k) <=> IsFirstOccurrence(s, e, k)
    /\ \A s, k : Abstract!Without(s, k) = Without(s, k)
    /\ \A p, k : Abstract!ShiftPos(p, k) = ShiftPos(p, k)
BY DEF Abstract!FirstPos, FirstPos, Abstract!NextPos, NextPos,
   Abstract!IsFirstOccurrence, IsFirstOccurrence, Abstract!Without, Without,
   Abstract!ShiftPos, ShiftPos

LEMMA PushMaps == MInv /\ MInv' /\ Push => Abstract!Push
<1>. SUFFICES ASSUME MInv, MInv', Push
              PROVE  Abstract!Push
  OBVIOUS
<1>1. PICK entry \in Entry :
         /\ Items' = Append(Items, entry)
         /\ \A i \in 1..Len(chain) : chain'[i] = chain[i]
         /\ Len(chain') = Len(chain) + 1
  BY PushItems DEF MInv
<1>2. /\ pc = "idle" /\ pc' = "idle" /\ ret' = "OK"
      /\ UNCHANGED <<live, cursor, held>>
  BY DEF Push
<1>3. Exists /\ Exists'
  BY <1>2 DEF Exists
<1>4. AbsList = Items /\ AbsList' = Items'
  BY <1>3 DEF MInv, Mapped
<1>5. AbsPos' = AbsPos
  <2>1. CASE cursor = NULL
    BY <1>2, <2>1 DEF MInv, Mapped
  <2>2. CASE cursor # NULL
    <3>1. PICK i \in 1..Len(chain) : cursor = chain[i]
      BY <2>2 DEF MInv, Mapped
    <3>2. i \in 1..Len(chain') /\ cursor' = chain'[i]
      BY <1>1, <1>2, <3>1 DEF MInv, Mapped
    <3>. QED
      BY <3>1, <3>2 DEF MInv, Mapped
  <2>. QED
    BY <2>1, <2>2
<1>. QED
  BY <1>1, <1>2, <1>3, <1>4, <1>5 DEF Abstract!Push, AbsList, AbsPos

LEMMA RemoveMaps ==
    MInv /\ MInv' /\ (RemoveFirst \/ RemoveUnlink) => Abstract!Remove
<1>. SUFFICES ASSUME MInv, MInv', RemoveFirst \/ RemoveUnlink
              PROVE  Abstract!Remove
  OBVIOUS
<1>1. PICK k \in 1..Len(chain), entry \in Entry : UnlinkStep(k, entry)
  BY RemoveFirstUnlinks, RemoveUnlinkUnlinks DEF MInv
<1>2. /\ IsFirstOccurrence(Items, entry, k)
      /\ Items' = Without(Items, k)
      /\ Len(chain') = Len(chain) - 1
      /\ cursor # NULL =>
            \E j \in 1..Len(chain) : /\ k < j
                                     /\ cursor = chain[j]
                                     /\ cursor = chain'[j - 1]
  BY <1>1, UnlinkItems DEF MInv
<1>3. /\ Exists /\ Exists'
      /\ live => held = entry
      /\ held' = NULL /\ ret' = "OK" /\ live' = live /\ cursor' = cursor
  BY <1>1 DEF UnlinkStep, Unlinked, Exists
<1>4. AbsList = Items /\ AbsList' = Items' /\ k \in 1..Len(Items)
  BY <1>3 DEF MInv, Mapped
<1>5. AbsPos' = ShiftPos(AbsPos, k)
  <2>1. CASE cursor = NULL
    BY <1>3, <2>1 DEF MInv, Mapped, ShiftPos
  <2>2. CASE cursor # NULL
    <3>1. PICK j \in 1..Len(chain) : /\ k < j
                                     /\ cursor = chain[j]
                                     /\ cursor = chain'[j - 1]
      BY <1>2, <2>2
    <3>2. j - 1 \in 1..Len(chain') /\ cursor' = chain'[j - 1]
      BY <1>2, <1>3, <3>1 DEF MInv, Mapped
    <3>3. AbsPos = j /\ AbsPos' = j - 1
      BY <3>1, <3>2 DEF MInv, Mapped
    <3>. QED
      BY <3>1, <3>3 DEF ShiftPos
  <2>. QED
    BY <2>1, <2>2
<1>6. Abstract!MayRemove(entry)
  BY <1>3 DEF Abstract!MayRemove
<1>7. /\ k \in 1..Len(AbsList)
      /\ IsFirstOccurrence(AbsList, entry, k)
      /\ AbsList' = Without(AbsList, k)
  BY <1>2, <1>4
<1>. QED
  BY <1>3, <1>5, <1>6, <1>7, SameLists
     DEF Abstract!Remove, AbsList, AbsPos

\* The walk of dpl_list_remove has looked at every node when it gives up.
LEMMA NotFoundMaps ==
    MInv /\ MInv' /\ RemoveNotFound => Abstract!RemoveNotFound
<1>. SUFFICES ASSUME MInv, MInv', RemoveNotFound
              PROVE  Abstract!RemoveNotFound
  OBVIOUS
<1>1. /\ pc = "scan" /\ pc' = "idle" /\ curr # NULL /\ ScanNext = NULL
      /\ held' = NULL /\ ret' = "ERR_NOTFOUND"
      /\ UNCHANGED <<heap, first, live, cursor, chain>>
  BY DEF RemoveNotFound
<1>2. Exists /\ Exists'
  BY <1>1 DEF Exists
<1>3. AbsList = Items /\ AbsList' = AbsList /\ AbsPos' = AbsPos
  BY <1>1, <1>2, MapsUntouched DEF MInv, Mapped
<1>4. IInv /\ arg \in Entry /\ (live => held = arg)
  BY <1>1 DEF MInv, IInv, ScanInside
<1>5. PICK k \in 1..Len(chain) :
         curr = chain[k] /\ \A i \in 1..k : heap[chain[i]].item # arg
  BY <1>1, <1>4 DEF IInv, ScanInside
<1>6. Len(chain) \in Nat /\ (ScanNext # NULL <=> k < Len(chain))
  BY <1>1, <1>4, <1>5, ScanAt
<1>7. \A i \in 1..Len(Items) : Items[i] # arg
  <2>1. k = Len(chain) /\ Len(Items) = Len(chain)
    BY <1>1, <1>6 DEF MInv, Mapped
  <2>. QED
    BY <1>5, <2>1 DEF Items
<1>8. Abstract!MayRemove(arg)
  BY <1>4 DEF Abstract!MayRemove
<1>. QED
  BY <1>1, <1>2, <1>3, <1>4, <1>7, <1>8
     DEF Abstract!RemoveNotFound, AbsList, AbsPos

LEMMA IterMaps == MInv /\ MInv' /\ Iter => Abstract!Iter
<1>. SUFFICES ASSUME MInv, MInv', Iter
              PROVE  Abstract!Iter
  OBVIOUS
<1>1. /\ pc = "idle" /\ pc' = "idle" /\ ~live /\ live' = TRUE
      /\ cursor' = first /\ held' = NULL /\ ret' = "OK"
      /\ UNCHANGED <<heap, first, chain>>
  BY DEF Iter
<1>2. Exists /\ Exists' /\ Standing /\ IInv
  BY <1>1 DEF Exists, Standing, MInv
<1>3. Items' = Items
  BY <1>1 DEF Items
<1>4. AbsList = Items /\ AbsList' = Items
  BY <1>2, <1>3 DEF MInv, Mapped
<1>5. /\ first = NULL <=> Len(chain) = 0
      /\ Len(chain) > 0 => first = chain[1]
      /\ Len(chain) \in Nat
  BY <1>2, Ends
<1>6. Items = <<>> <=> Len(chain) = 0
  BY EmptySeq DEF MInv, Mapped
<1>7. AbsPos' = FirstPos(Items)
  <2>1. CASE first = NULL
    BY <1>1, <1>5, <1>6, <2>1 DEF MInv, Mapped, FirstPos
  <2>2. CASE first # NULL
    <3>1. 1 \in 1..Len(chain') /\ cursor' = chain'[1]
      BY <1>1, <1>5, <2>2
    <3>2. AbsPos' = 1
      BY <3>1 DEF MInv, Mapped
    <3>. QED
      BY <1>5, <1>6, <2>2, <3>2 DEF FirstPos
  <2>. QED
    BY <2>1, <2>2
<1>8. AbsPos' = FirstPos(AbsList) /\ AbsList' = AbsList
  BY <1>4, <1>7
<1>. QED
  BY <1>1, <1>2, <1>8, SameLists DEF Abstract!Iter, AbsList, AbsPos

\* What the iterator hands out is the entry at its position, and it moves to
\* the next.
LEMMA NextMaps == MInv /\ MInv' /\ IterNext => Abstract!IterNext
<1>. SUFFICES ASSUME MInv, MInv', IterNext
              PROVE  Abstract!IterNext
  OBVIOUS
<1>1. /\ pc = "idle" /\ pc' = "idle" /\ live /\ live' = live
      /\ cursor # NULL /\ held' = heap[cursor].item
      /\ cursor' = heap[cursor].next /\ ret' = "OK"
      /\ UNCHANGED <<heap, first, chain>>
  BY DEF IterNext, Advance
<1>2. Exists /\ Exists'
  BY <1>1 DEF Exists
<1>3. Items' = Items
  BY <1>1 DEF Items
<1>4. AbsList = Items /\ AbsList' = Items
  BY <1>2, <1>3 DEF MInv, Mapped
<1>5. PICK i \in 1..Len(chain) : cursor = chain[i]
  BY <1>1 DEF MInv, Mapped
<1>6. AbsPos = i /\ Len(Items) = Len(chain) /\ Len(chain) \in Nat
  BY <1>5 DEF MInv, Mapped
<1>7. held' = Items[i]
  BY <1>1, <1>5 DEF Items
<1>8. cursor' = IF i < Len(chain) THEN chain[i + 1] ELSE NULL
  BY <1>1, <1>5 DEF MInv, IInv, Linked
<1>9. AbsPos' = NextPos(Items, i)
  <2>1. CASE i < Len(chain)
    <3>1. i + 1 \in 1..Len(chain') /\ cursor' = chain'[i + 1]
      BY <1>1, <1>6, <1>8, <2>1
    <3>2. AbsPos' = i + 1
      BY <3>1 DEF MInv, Mapped
    <3>. QED
      BY <1>6, <2>1, <3>2 DEF NextPos
  <2>2. CASE ~(i < Len(chain))
    <3>1. AbsPos' = 0
      BY <1>8, <2>2 DEF MInv, Mapped
    <3>. QED
      BY <1>6, <2>2, <3>1 DEF NextPos
  <2>. QED
    BY <2>1, <2>2
<1>10. AbsPos # 0
  BY <1>6
<1>11. /\ held' = AbsList[AbsPos] /\ AbsPos' = NextPos(AbsList, AbsPos)
       /\ AbsList' = AbsList
  BY <1>4, <1>6, <1>7, <1>9
<1>. QED
  BY <1>1, <1>2, <1>10, <1>11, SameLists
     DEF Abstract!IterNext, AbsList, AbsPos

LEMMA EndMaps ==
    /\ MInv /\ MInv' /\ IterEnd => Abstract!IterEnd
    /\ MInv /\ MInv' /\ IterFree => Abstract!IterFree
<1>1. ASSUME MInv, MInv', IterEnd
      PROVE  Abstract!IterEnd
  <2>1. /\ pc = "idle" /\ pc' = "idle" /\ live /\ live' = live
        /\ cursor = NULL /\ held' = NULL /\ ret' = "ITER_END"
        /\ UNCHANGED <<heap, first, chain, cursor>>
    BY <1>1 DEF IterEnd
  <2>2. Exists' = Exists
    BY <2>1 DEF Exists
  <2>3. AbsList' = AbsList /\ AbsPos' = AbsPos
    BY <2>1, <2>2, MapsUntouched
  <2>4. AbsPos = 0
    BY <1>1, <2>1 DEF MInv, Mapped
  <2>. QED
    BY <2>1, <2>2, <2>3, <2>4 DEF Abstract!IterEnd, AbsList, AbsPos
<1>2. ASSUME MInv, MInv', IterFree
      PROVE  Abstract!IterFree
  <2>1. /\ pc = "idle" /\ pc' = "idle" /\ live /\ live' = FALSE
        /\ cursor' = NULL /\ held' = NULL /\ ret' = "OK"
        /\ UNCHANGED <<heap, first, chain>>
    BY <1>2 DEF IterFree
  <2>2. Exists' = Exists
    BY <2>1 DEF Exists
  <2>3. AbsList' = AbsList
    BY <2>1, <2>2 DEF AbsList, EntriesFrom
  <2>4. AbsPos' = 0
    BY <1>2, <2>1 DEF MInv, Mapped
  <2>. QED
    BY <2>1, <2>2, <2>3, <2>4 DEF Abstract!IterFree, AbsList, AbsPos
<1>. QED
  BY <1>1, <1>2

LEMMA AllocMaps ==
    /\ MInv /\ MInv' /\ OutOfMemory => Abstract!OutOfMemory
    /\ MInv /\ MInv' /\ New => Abstract!New
    /\ MInv /\ MInv' /\ FreeCall => Abstract!Free
<1>1. ASSUME MInv, MInv', OutOfMemory
      PROVE  Abstract!OutOfMemory
  <2>1. /\ pc = "idle" /\ pc' = "idle" /\ ret' = "ERR_MEM"
        /\ UNCHANGED <<heap, first, chain, cursor, live, held>>
    BY <1>1 DEF OutOfMemory
  <2>2. Exists /\ Exists' = Exists
    BY <2>1 DEF Exists
  <2>3. AbsList' = AbsList /\ AbsPos' = AbsPos
    BY <2>1, <2>2, MapsUntouched
  <2>. QED
    BY <2>1, <2>2, <2>3 DEF Abstract!OutOfMemory, AbsList, AbsPos
<1>2. ASSUME MInv, MInv', New
      PROVE  Abstract!New
  <2>1. /\ pc = "gone" /\ pc' = "idle" /\ ret' = "OK"
        /\ UNCHANGED <<heap, chain, cursor, live, held>>
    BY <1>2 DEF New
  <2>2. ~Exists /\ Exists'
    BY <2>1 DEF Exists
  <2>3. chain' = <<>>
    BY <1>2, <2>1 DEF MInv, IInv, FreeInside
  <2>4. Len(chain') = 0
    BY <2>3, EmptySeq
  <2>5. AbsList' = <<>>
    <3>1. AbsList' = Items' /\ Items' \in Seq(Entry \union {NULL})
          /\ Len(Items') = Len(chain')
      BY <1>2, <2>2 DEF MInv, Mapped
    <3>. QED
      BY <2>4, <3>1, EmptySeq
  <2>6. cursor = NULL
    BY <1>2, <2>2 DEF MInv, Mapped
  <2>7. AbsPos = 0 /\ AbsPos' = 0
    BY <1>2, <2>1, <2>6 DEF MInv, Mapped
  <2>. QED
    BY <2>1, <2>2, <2>5, <2>7 DEF Abstract!New, AbsList, AbsPos
<1>3. ASSUME MInv, MInv', FreeCall
      PROVE  Abstract!Free
  <2>1. /\ pc = "idle" /\ pc' = "freeing" /\ ~live
        /\ UNCHANGED <<cursor, live, held, ret>>
    BY <1>3 DEF FreeCall
  <2>2. Exists /\ ~Exists'
    BY <2>1 DEF Exists
  <2>3. AbsList' = <<>>
    BY <1>3, <2>2 DEF MInv, Mapped
  <2>4. cursor = NULL
    BY <1>3, <2>1 DEF MInv, IInv, IteratorInside
  <2>5. AbsPos = 0 /\ AbsPos' = 0
    BY <1>3, <2>1, <2>4 DEF MInv, Mapped
  <2>. QED
    BY <2>1, <2>2, <2>3, <2>5 DEF Abstract!Free, AbsList, AbsPos
<1>. QED
  BY <1>1, <1>2, <1>3

\* The steps of a walk between its call and its end change nothing of the
\* sequence.
LEMMA WalkMaps ==
    /\ MInv /\ MInv'
    /\ \/ UNCHANGED vars
       \/ RemoveCall \/ RemoveScan \/ RemoveCrash \/ FreeNode \/ FreeDone
    => UNCHANGED Abstract!vars
<1>. SUFFICES ASSUME MInv, MInv',
                     \/ UNCHANGED vars
                     \/ RemoveCall \/ RemoveScan \/ RemoveCrash
                     \/ FreeNode \/ FreeDone
              PROVE  UNCHANGED Abstract!vars
  OBVIOUS
<1>1. UNCHANGED <<live, cursor, held, ret>>
  BY DEF vars, RemoveCall, RemoveScan, RemoveCrash, FreeNode, FreeDone
<1>2. Exists' = Exists
  BY DEF vars, RemoveCall, RemoveScan, RemoveCrash, FreeNode, FreeDone, Exists
<1>3. AbsList' = AbsList /\ AbsPos' = AbsPos
  <2>1. CASE FreeNode \/ FreeDone
    <3>1. ~Exists /\ ~Exists'
      BY <2>1 DEF FreeNode, FreeDone, Exists
    <3>2. cursor = NULL /\ cursor' = NULL
      BY <1>1, <3>1 DEF MInv, Mapped
    <3>. QED
      BY <3>1, <3>2 DEF MInv, Mapped
  <2>2. CASE UNCHANGED vars \/ RemoveCall \/ RemoveScan \/ RemoveCrash
    <3>1. UNCHANGED <<heap, first, chain, cursor>>
      BY <2>2 DEF vars, RemoveCall, RemoveScan, RemoveCrash
    <3>. QED
      BY <1>2, <3>1, MapsUntouched
  <2>. QED
    BY <2>1, <2>2
<1>. QED
  BY <1>1, <1>2, <1>3 DEF Abstract!vars, AbsList, AbsPos

LEMMA StepMaps ==
    MInv /\ MInv' /\ [Next]_vars => [Abstract!Next]_(Abstract!vars)
BY PushMaps, RemoveMaps, NotFoundMaps, IterMaps, NextMaps, EndMaps, AllocMaps,
   WalkMaps DEF Next, Step, Abstract!Next

LEMMA InitMaps == Init => Abstract!Init
<1>. SUFFICES ASSUME Init
              PROVE  Abstract!Init
  OBVIOUS
<1>1. IInv
  BY InitInv
<1>2. /\ Exists /\ cursor = NULL /\ live = FALSE /\ held = NULL /\ ret = "OK"
      /\ chain = <<>>
  BY DEF Init, Exists
<1>3. AbsList = <<>>
  BY <1>1, <1>2, ListMaps, ItemsType, EmptySeq
<1>4. AbsPos = 0
  BY <1>1, <1>2, ExhaustedMaps
<1>. QED
  BY <1>2, <1>3, <1>4 DEF Abstract!Init, AbsList, AbsPos

\* The pointer structure implements the sequence of entries with a position in
\* it that list.h promises: every call of list.c has the effect and the result
\* of the sequence's, and the steps of its walks in between have none.
THEOREM Refinement == Spec => ImplementsADT
<1>. QED
  BY InitMaps, StepMaps, MappedInv, PTL
     DEF Spec, ImplementsADT, Abstract!Spec

----------------------------------------------------------------------------
\* What one step may do to what an iterator has still to hand out.
Steady ==
    live /\ live' =>
        \/ ToCome' = ToCome
        \/ ToCome # <<>> /\ (\/ ToCome' = Tail(ToCome) /\ held' = Head(ToCome)
                             \/ \E entry \in Entry :
                                    ToCome' = Append(ToCome, entry))

LEMMA PushSteady == MInv /\ MInv' /\ Push => Steady
<1>. SUFFICES ASSUME MInv, MInv', Push
              PROVE  Steady
  OBVIOUS
<1>1. PICK entry \in Entry :
         /\ Items' = Append(Items, entry)
         /\ \A i \in 1..Len(chain) : chain'[i] = chain[i]
         /\ Len(chain') = Len(chain) + 1
  BY PushItems DEF MInv
<1>2. cursor' = cursor
  BY DEF Push
<1>3. CASE cursor = NULL
  BY <1>2, <1>3 DEF MInv, Mapped, Steady
<1>4. CASE cursor # NULL
  <2>1. PICK i \in 1..Len(chain) : cursor = chain[i]
    BY <1>4 DEF MInv, Mapped
  <2>. DEFINE L == Len(chain)
  <2>2. L \in Nat /\ i \in 1..Len(chain') /\ cursor' = chain'[i]
    BY <1>1, <1>2, <2>1 DEF MInv, Mapped
  <2>3. /\ ToCome = [k \in 1..(L - i + 1) |-> Items[i + k - 1]]
        /\ ToCome \in Seq(Entry \union {NULL})
        /\ Len(ToCome) = L - i + 1
        /\ ToCome' = [k \in 1..(L + 1 - i + 1) |-> Items'[i + k - 1]]
    <3>1. ToCome' = [k \in 1..(Len(chain') - i + 1) |-> Items'[i + k - 1]]
      BY <2>2 DEF MInv, Mapped
    <3>. QED
      BY <1>1, <2>1, <3>1 DEF MInv, Mapped
  <2>4. /\ Items \in Seq(Entry \union {NULL}) /\ Len(Items) = L
        /\ entry \in Entry \union {NULL}
    BY DEF MInv, Mapped
  <2>5. /\ \A k \in 1..L : Items'[k] = Items[k]
        /\ Items'[L + 1] = entry
    BY <1>1, <2>4, AppendProperties
  <2>. DEFINE longer == Append(ToCome, entry)
  <2>6. /\ longer \in Seq(Entry \union {NULL})
        /\ Len(longer) = (L - i + 1) + 1
        /\ \A k \in 1..(L - i + 1) : longer[k] = ToCome[k]
        /\ longer[(L - i + 1) + 1] = entry
    BY <2>3, <2>4, AppendProperties
  <2>. HIDE DEF longer
  <2>7. (L - i + 1) + 1 = L + 1 - i + 1
    BY <2>2
  <2>8. longer = [k \in 1..(L + 1 - i + 1) |-> longer[k]]
    BY <2>6, <2>7, LenProperties
  <2>9. ASSUME NEW k \in 1..(L + 1 - i + 1)
        PROVE  Items'[i + k - 1] = longer[k]
    <3>1. CASE k = L + 1 - i + 1
      <4>1. i + k - 1 = L + 1
        BY <2>2, <3>1
      <4>. QED
        BY <2>5, <2>6, <2>7, <3>1, <4>1
    <3>2. CASE k # L + 1 - i + 1
      <4>1. k \in 1..(L - i + 1) /\ i + k - 1 \in 1..L
        BY <2>2, <3>2
      <4>. QED
        BY <2>3, <2>5, <2>6, <4>1
    <3>. QED
      BY <3>1, <3>2
  <2>10. ToCome' = longer
    BY <2>3, <2>8, <2>9
  <2>11. ToCome # <<>>
    <3>1. Len(ToCome) # 0
      BY <2>2, <2>3
    <3>. QED
      BY <2>3, <3>1, EmptySeq
  <2>. QED
    BY <2>10, <2>11 DEF Steady, longer
<1>. QED
  BY <1>3, <1>4

LEMMA RemoveSteady ==
    MInv /\ MInv' /\ (RemoveFirst \/ RemoveUnlink) => Steady
<1>. SUFFICES ASSUME MInv, MInv', RemoveFirst \/ RemoveUnlink
              PROVE  ToCome' = ToCome
  BY DEF Steady
<1>1. PICK n \in 1..Len(chain), entry \in Entry : UnlinkStep(n, entry)
  BY RemoveFirstUnlinks, RemoveUnlinkUnlinks DEF MInv
<1>2. /\ Items' = Without(Items, n)
      /\ Len(chain') = Len(chain) - 1
      /\ cursor # NULL =>
            \E j \in 1..Len(chain) : /\ n < j
                                     /\ cursor = chain[j]
                                     /\ cursor = chain'[j - 1]
  BY <1>1, UnlinkItems DEF MInv
<1>3. cursor' = cursor
  BY <1>1 DEF UnlinkStep, Unlinked
<1>4. CASE cursor = NULL
  BY <1>3, <1>4 DEF MInv, Mapped
<1>5. CASE cursor # NULL
  <2>1. PICK j \in 1..Len(chain) : /\ n < j
                                   /\ cursor = chain[j]
                                   /\ cursor = chain'[j - 1]
    BY <1>2, <1>5
  <2>. DEFINE L == Len(chain)
  <2>2. L \in Nat /\ j - 1 \in 1..Len(chain') /\ cursor' = chain'[j - 1]
    BY <1>2, <1>3, <2>1 DEF MInv, Mapped
  <2>3. /\ ToCome = [k \in 1..(L - j + 1) |-> Items[j + k - 1]]
        /\ ToCome' = [k \in 1..(L - 1 - (j - 1) + 1) |->
                         Items'[(j - 1) + k - 1]]
    BY <1>2, <2>1, <2>2 DEF MInv, Mapped
  <2>4. L - 1 - (j - 1) + 1 = L - j + 1
    BY <2>2
  <2>5. /\ Items \in Seq(Entry \union {NULL}) /\ Len(Items) = L
    BY DEF MInv, Mapped
  <2>6. \A i \in 1..(L - 1) :
           Items'[i] = IF i < n THEN Items[i] ELSE Items[i + 1]
    <3>1. n \in 1..Len(Items)
      BY <2>5
    <3>2. \A i \in 1..(Len(Items) - 1) : Without(Items, n)[i] =
                                 IF i < n THEN Items[i] ELSE Items[i + 1]
      BY <2>5, <3>1, WithoutProperties
    <3>. QED
      BY <1>2, <2>5, <3>2
  <2>7. ASSUME NEW k \in 1..(L - j + 1)
        PROVE  Items'[(j - 1) + k - 1] = Items[j + k - 1]
    <3>1. /\ (j - 1) + k - 1 \in 1..(L - 1) /\ ~((j - 1) + k - 1 < n)
          /\ ((j - 1) + k - 1) + 1 = j + k - 1
      BY <2>1, <2>2
    <3>. QED
      BY <2>6, <3>1
  <2>. QED
    BY <2>3, <2>4, <2>7
<1>. QED
  BY <1>4, <1>5

LEMMA NextSteady == MInv /\ MInv' /\ IterNext => Steady
<1>. SUFFICES ASSUME MInv, MInv', IterNext
              PROVE  /\ ToCome # <<>>
                     /\ ToCome' = Tail(ToCome)
                     /\ held' = Head(ToCome)
  BY DEF Steady
<1>1. /\ cursor # NULL /\ held' = heap[cursor].item
      /\ cursor' = heap[cursor].next
      /\ UNCHANGED <<heap, chain>>
  BY DEF IterNext, Advance
<1>2. PICK i \in 1..Len(chain) : cursor = chain[i]
  BY <1>1 DEF MInv, Mapped
<1>. DEFINE L == Len(chain)
<1>3. /\ L \in Nat /\ Len(ToCome) = L - i + 1
      /\ ToCome = [k \in 1..(L - i + 1) |-> Items[i + k - 1]]
      /\ ToCome \in Seq(Entry \union {NULL})
  BY <1>2 DEF MInv, Mapped
<1>4. ToCome # <<>> /\ Head(ToCome) = ToCome[1]
  <2>1. Len(ToCome) # 0
    BY <1>3
  <2>2. ToCome # <<>>
    BY <1>3, <2>1, EmptySeq
  <2>. QED
    BY <1>3, <2>2, HeadTailProperties
<1>5. Head(ToCome) = Items[i]
  <2>1. 1 \in 1..(L - i + 1) /\ i + 1 - 1 = i
    BY <1>3
  <2>. QED
    BY <1>3, <1>4, <2>1
<1>6. held' = Items[i]
  BY <1>1, <1>2 DEF Items
<1>7. cursor' = IF i < L THEN chain[i + 1] ELSE NULL
  BY <1>1, <1>2 DEF MInv, IInv, Linked
<1>8. Tail(ToCome) = [k \in 1..(L - i) |-> Items[i + k]]
  <2>1. /\ Tail(ToCome) = [k \in 1..(Len(ToCome) - 1) |-> ToCome[k + 1]]
    BY <1>3, <1>4, HeadTailProperties, LenProperties
  <2>2. Len(ToCome) - 1 = L - i
    BY <1>3
  <2>3. ASSUME NEW k \in 1..(L - i)
        PROVE  ToCome[k + 1] = Items[i + k]
    <3>1. k + 1 \in 1..(L - i + 1) /\ i + (k + 1) - 1 = i + k
      BY <1>3
    <3>. QED
      BY <1>3, <3>1
  <2>. QED
    BY <2>1, <2>2, <2>3
<1>9. ToCome' = Tail(ToCome)
  <2>1. CASE i < L
    <3>1. i + 1 \in 1..Len(chain') /\ cursor' = chain'[i + 1]
      BY <1>1, <1>3, <1>7, <2>1
    <3>2. ToCome' = [k \in 1..(Len(chain') - (i + 1) + 1) |->
                        Items'[(i + 1) + k - 1]]
      BY <3>1 DEF MInv, Mapped
    <3>3. Items' = Items /\ Len(chain') - (i + 1) + 1 = L - i
      BY <1>1, <1>3 DEF Items
    <3>4. \A k \in 1..(L - i) : (i + 1) + k - 1 = i + k
      BY <1>3
    <3>. QED
      BY <1>8, <3>2, <3>3, <3>4
  <2>2. CASE ~(i < L)
    <3>1. ToCome' = <<>>
      BY <1>7, <2>2 DEF MInv, Mapped
    <3>2. Tail(ToCome) \in Seq(Entry \union {NULL})
          /\ Len(Tail(ToCome)) = Len(ToCome) - 1
      BY <1>3, <1>4, HeadTailProperties
    <3>3. Len(Tail(ToCome)) = 0
      BY <1>3, <2>2, <3>2
    <3>. QED
      BY <3>1, <3>2, <3>3, EmptySeq
  <2>. QED
    BY <2>1, <2>2
<1>. QED
  BY <1>4, <1>5, <1>6, <1>9

LEMMA OthersSteady ==
    ASSUME MInv, MInv',
           \/ OutOfMemory \/ New \/ Iter \/ IterEnd \/ IterFree
           \/ RemoveCall \/ RemoveCrash \/ RemoveScan \/ RemoveNotFound
           \/ FreeCall \/ FreeNode \/ FreeDone
    PROVE  Steady
<1>1. CASE Iter \/ IterFree
  BY <1>1 DEF Iter, IterFree, Steady
<1>2. CASE FreeNode
  <2>1. ~live
    BY <1>2 DEF FreeNode, MInv, IInv, IteratorInside, Standing
  <2>. QED
    BY <2>1 DEF Steady
<1>3. CASE \/ OutOfMemory \/ New \/ IterEnd
           \/ RemoveCall \/ RemoveCrash \/ RemoveScan \/ RemoveNotFound
           \/ FreeCall \/ FreeDone
  <2>1. UNCHANGED <<heap, chain, cursor>>
    BY <1>3 DEF OutOfMemory, New, IterEnd, RemoveCall, RemoveCrash,
       RemoveScan, RemoveNotFound, FreeCall, FreeDone
  <2>2. ToCome' = ToCome
    BY <2>1 DEF ToCome, EntriesFrom
  <2>. QED
    BY <2>2 DEF Steady
<1>. QED
  BY <1>1, <1>2, <1>3

\* Whatever is called while an iterator is out, what the iterator has still to
\* hand out changes only by its own step, which takes the first of it, and by
\* a push, which adds at the end.
THEOREM IterationSteady == Spec => IterationStable
<1>1. MInv /\ MInv' /\ Next => Steady
  BY PushSteady, RemoveSteady, NextSteady, OthersSteady DEF Next, Step
<1>2. MInv /\ MInv' /\ [Next]_vars => [Steady]_vars
  BY <1>1
<1>. QED
  BY <1>2, MappedInv, PTL DEF Spec, IterationStable, Steady
=============================================================================
