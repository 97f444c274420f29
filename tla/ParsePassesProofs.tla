------------------------- MODULE ParsePassesProofs -------------------------
(***************************************************************************)
(* Proofs about the passes of dpl_parse, for files of any length and any   *)
(* entries the grammar can produce.                                        *)
(***************************************************************************)
EXTENDS ParsePasses, SequenceTheorems,
        WellFoundedInduction, TLAPS

\* A set of natural numbers that is not empty has a least one.
LEMMA Least ==
    ASSUME NEW S \in SUBSET Nat, S # {}
    PROVE  \E m \in S : \A k \in S : m <= k
<1>1. PICK m \in S : \A k \in S : <<k, m>> \notin OpToRel(<, Nat)
  BY NatLessThanWellFounded, WFMin
<1>2. \A k \in S : ~(k < m)
  BY <1>1 DEF OpToRel
<1>. QED
  BY <1>2

\* What is left of a sequence without its k-th element.
LEMMA WithoutProperties ==
    ASSUME NEW S, NEW s \in Seq(S), NEW k \in 1..Len(s)
    PROVE  /\ Without(s, k) \in Seq(S)
           /\ Len(Without(s, k)) = Len(s) - 1
           /\ \A i \in 1..(Len(s) - 1) :
                 Without(s, k)[i] = IF i < k THEN s[i] ELSE s[i + 1]
<1>. DEFINE n == Len(s) - 1
            w == [i \in 1..n |-> IF i < k THEN s[i] ELSE s[i + 1]]
<1>1. Len(s) \in Nat /\ n \in Nat
  BY LenProperties
<1>2. \A i \in 1..n : (IF i < k THEN s[i] ELSE s[i + 1]) \in S
  BY <1>1, ElementOfSeq
<1>3. w \in [1..n -> S]
  BY <1>2
<1>4. w \in Seq(S)
  BY <1>1, <1>3, SeqDef
<1>5. Len(w) = n
  BY <1>1, <1>3, <1>4, LenProperties
<1>6. Without(s, k) = w
  BY DEF Without
<1>. QED
  BY <1>4, <1>5, <1>6

\* The next position of an iterator is a position of the list, and shifted for
\* the entry it has passed a position of the list without that entry.
LEMMA PosProperties ==
    ASSUME NEW S, NEW s \in Seq(S), NEW p \in 1..Len(s)
    PROVE  /\ FirstPos(s) = 1
           /\ NextPos(s, p) = IF p < Len(s) THEN p + 1 ELSE 0
           /\ NextPos(s, p) \in 0..Len(s)
           /\ ShiftPos(NextPos(s, p), p) =
                 IF p < Len(s) THEN p ELSE 0
           /\ ShiftPos(NextPos(s, p), p) \in 0..(Len(s) - 1)
<1>1. Len(s) \in Nat
  BY LenProperties
<1>2. s # <<>>
  BY <1>1, EmptySeq
<1>. QED
  BY <1>1, <1>2 DEF FirstPos, NextPos, ShiftPos

Prelude == {"end_set", "end_loop", "marker_remove"}
Unlinked == Prelude \union {"marker_loop", "link_entries"}
Unmarked == LinkPhase \union {"link_entries", "sort", "done"}

\* Up to the sort ctx->entries is in the order of the file, and an entry is
\* never in it twice.
InOrder ==
    /\ pc # "done" =>
          \A i, j \in 1..Len(entries) : i < j => entries[i] < entries[j]
    /\ \A i, j \in 1..Len(entries) : entries[i] = entries[j] => i = j
    /\ pc \in Prelude => entries = [e \in Entry |-> e]

\* The entries that left the list were freed, and were markers; the markers
\* that are left are those the iterator has not reached.
Kept ==
    /\ Named \subseteq Listed
    /\ freed = Entry \ Listed
    /\ pc = "marker_loop" =>
          \A i \in 1..Len(entries) :
              ~doc[entries[i]].named => pos # 0 /\ pos <= i
    /\ pc \in Unmarked => Listed \subseteq Named

\* The end times up to the current entry are set.
EndsSet ==
    /\ pc = "end_loop" =>
          /\ curr \in Entry
          /\ curr = IF pos = 0 THEN Len(doc) ELSE pos - 1
          /\ \A e \in Entry :
                IsWork(e) /\ e < curr => end[e] = doc[e + 1].begin
    /\ EndsFollow

\* tasks_open and the links hold named entries, and no work entry is linked,
\* no task closed, before the iterator has passed it.
Linking ==
    /\ pc \in Unlinked => /\ open = <<>>
                          /\ \A e \in Entry : link[e] = NULL /\ ~done[e]
    /\ \A i \in 1..Len(open) : open[i] \in Named
    /\ \A e \in Entry : link[e] # NULL => link[e] \in Named
    /\ pc \in LinkPhase =>
          \A e \in Entry : link[e] # NULL \/ done[e] => e \in Passed
    /\ pc \in {"scan", "link_work"} =>
          curr \in Passed /\ IsWork(curr) /\ link[curr] = NULL
    /\ OpenExact

IInv == TypeOK /\ InOrder /\ Kept /\ EndsSet /\ Linking

----------------------------------------------------------------------------
\* What the type invariant says of the file.
LEMMA DocType ==
    ASSUME TypeOK
    PROVE  /\ Entry = 1..Len(doc)
           /\ Len(doc) \in Nat
           /\ Len(entries) \in Nat
           /\ NULL \notin Entry
           /\ NULL \notin Nat
           /\ \A e \in Entry : /\ doc[e] \in EntryType
                               /\ doc[e].begin \in Int
           /\ \A i \in 1..Len(entries) : entries[i] \in Entry
<1>1. /\ doc \in Seq(EntryType)
      /\ entries \in Seq(Entry)
  BY DEF TypeOK
<1>2. /\ Len(doc) \in Nat
      /\ Entry = 1..Len(doc)
      /\ \A e \in Entry : doc[e] \in EntryType
  BY <1>1, LenProperties, ElementOfSeq DEF Entry
<1>3. /\ Len(entries) \in Nat
      /\ \A i \in 1..Len(entries) : entries[i] \in Entry
  BY <1>1, LenProperties, ElementOfSeq
<1>4. NULL \notin Nat
  BY NullAssumption
<1>. QED
  BY <1>2, <1>3, <1>4 DEF EntryType

LEMMA InitInv == Init => IInv
<1>. SUFFICES ASSUME Init
              PROVE  IInv
  OBVIOUS
<1>1. PICK n \in 0..MaxLen : doc \in [1..n -> Shape]
  BY DEF Init
<1>2. /\ n \in Nat
      /\ doc \in Seq(EntryType)
      /\ Len(doc) = n
      /\ Entry = 1..n
  <2>1. n \in Nat
    BY MaxLenAssumption
  <2>2. doc \in [1..n -> EntryType]
    BY <1>1, ShapeAssumption
  <2>3. doc \in Seq(EntryType) /\ DOMAIN doc = 1..n
    BY <2>1, <2>2, SeqDef
  <2>. QED
    BY <2>1, <2>3, LenProperties DEF Entry
<1>3. /\ entries = [e \in Entry |-> e]
      /\ entries \in Seq(Entry)
      /\ Len(entries) = n
      /\ \A i \in 1..n : entries[i] = i
  <2>1. entries = [e \in Entry |-> e]
    BY DEF Init
  <2>2. entries \in [1..n -> Entry]
    BY <1>2, <2>1
  <2>3. entries \in Seq(Entry) /\ DOMAIN entries = 1..n
    BY <1>2, <2>2, SeqDef
  <2>. QED
    BY <1>2, <2>1, <2>3, LenProperties
<1>4. /\ pc = "end_set" /\ pos = 0 /\ open = <<>> /\ freed = {}
      /\ link = [e \in Entry |-> NULL]
      /\ done = [e \in Entry |-> FALSE]
      /\ end = [e \in Entry |-> 0]
  BY DEF Init
<1>5. open \in Seq(Entry) /\ Len(open) = 0
  BY <1>4, EmptySeq
<1>6. TypeOK
  <2>1. /\ strict \in BOOLEAN
        /\ inDesc \in BOOLEAN
        /\ fix \in BOOLEAN
        /\ warned \in BOOLEAN
    BY DEF Init
  <2>2. done \in [Entry -> BOOLEAN]
    BY <1>4
  <2>3. /\ end \in [Entry -> Int]
        /\ link \in [Entry -> Entry \union {NULL}]
        /\ freed \subseteq Entry
    BY <1>4
  <2>4. /\ pc \in Phase
        /\ pos \in 0..Len(entries)
        /\ curr \in Entry \union {NULL}
        /\ hash \in Nat \ {0}
        /\ id \in Nat \union {NULL}
        /\ taskid \in Nat
        /\ ret \in {"OK", "ERR_INPUT", "ERR_MEM"}
    BY <1>2, <1>3 DEF Init, Phase
  <2>. QED
    BY <1>2, <1>3, <1>5, <2>1, <2>2, <2>3, <2>4 DEF TypeOK
<1>7. InOrder
  BY <1>2, <1>3, <1>4 DEF InOrder
<1>8. Kept
  BY <1>2, <1>3, <1>4 DEF Kept, Named, Listed, Unmarked, LinkPhase
<1>9. EndsSet
  BY <1>4 DEF EndsSet, EndsFollow
<1>10. Linking
  BY <1>4, <1>5 DEF Linking, LinkPhase, OpenExact
<1>. QED
  BY <1>6, <1>7, <1>8, <1>9, <1>10 DEF IInv

----------------------------------------------------------------------------
\* No action changes what was read from the file.
LEMMA SameFile ==
    Next => doc' = doc /\ strict' = strict /\ Entry' = Entry /\ Named' = Named
<1>. SUFFICES ASSUME Next
              PROVE  doc' = doc /\ strict' = strict
  BY DEF Entry, Named
<1>. QED
  BY DEF Next, EndSet, MarkerPass, LinkPass, Scan, Sort, OutOfMemory,
     EndSetEmpty, EndSetFirst, EndSetNext, EndSetLast, MarkerFirst,
     MarkerRemove, MarkerSkip, MarkerEnd, LinkFirst, LinkTask, LinkWork,
     LinkEnd, ScanId, ScanSkip, ScanDesc, ScanEnd, LinkFound, LinkNotFound

\* Every action keeps the types, given what the current entry is.
LEMMA TypeInv == IInv /\ Next => TypeOK'
<1>. SUFFICES ASSUME IInv, Next
              PROVE  TypeOK'
  OBVIOUS
<1>. USE DEF Phase
<1>1. TypeOK
  BY DEF IInv
<1>2. doc' = doc /\ strict' = strict /\ Entry' = Entry
  BY SameFile
<1>3. /\ Len(entries) \in Nat
      /\ \A i \in 1..Len(entries) : entries[i] \in Entry
      /\ NULL \notin Entry
  BY <1>1, DocType
<1>4. ASSUME pos # 0
      PROVE  /\ pos \in 1..Len(entries)
             /\ NextPos(entries, pos) \in 0..Len(entries)
             /\ ShiftPos(NextPos(entries, pos), pos) \in 0..(Len(entries) - 1)
             /\ Without(entries, pos) \in Seq(Entry)
             /\ Len(Without(entries, pos)) = Len(entries) - 1
             /\ entries[pos] \in Entry
  <2>1. pos \in 1..Len(entries) /\ entries \in Seq(Entry)
    BY <1>1, <1>3, <1>4 DEF TypeOK
  <2>. QED
    BY <1>3, <2>1, PosProperties, WithoutProperties
<1>5. FirstPos(entries) \in 0..Len(entries)
  BY <1>1, <1>3, EmptySeq DEF FirstPos, TypeOK
<1>6. <<>> \in Seq(Entry)
  BY EmptySeq
<1>7. \A e \in Entry : Append(open, e) \in Seq(Entry)
  BY <1>1, AppendProperties DEF TypeOK
<1>8. CASE EndSetEmpty
  BY <1>1, <1>2, <1>8 DEF EndSetEmpty, TypeOK, fields, scan
<1>9. CASE EndSetFirst
  BY <1>1, <1>2, <1>3, <1>9, PosProperties
     DEF EndSetFirst, TypeOK, fields, scan
<1>10. CASE EndSetNext
  <2>1. entries[pos] \in Entry /\ NextPos(entries, pos) \in 0..Len(entries)
    BY <1>4, <1>10 DEF EndSetNext
  <2>2. EndTime(curr, entries[pos]) \in Int
    BY <1>1, <2>1, DocType DEF EndTime
  <2>3. end' \in [Entry -> Int]
    BY <1>1, <1>10, <2>2 DEF EndSetNext, TypeOK
  <2>. QED
    BY <1>1, <1>2, <1>10, <2>1, <2>3 DEF EndSetNext, TypeOK, scan
<1>11. CASE EndSetLast
  BY <1>1, <1>2, <1>11 DEF EndSetLast, Fail, TypeOK, fields, scan
<1>12. CASE MarkerFirst
  BY <1>1, <1>2, <1>5, <1>12 DEF MarkerFirst, TypeOK, fields, scan
<1>13. CASE MarkerRemove
  <2>1. /\ curr' = entries[pos]
        /\ entries' = Without(entries, pos)
        /\ pos' = ShiftPos(NextPos(entries, pos), pos)
        /\ freed' = freed \union {entries[pos]}
        /\ UNCHANGED <<end, link, done, pc, open, warned, ret>>
        /\ UNCHANGED <<inDesc, hash, id, taskid, fix>>
    BY <1>13 DEF MarkerRemove, scan
  <2>2. pos # 0
    BY <1>13 DEF MarkerRemove
  <2>3. /\ curr' \in Entry /\ entries' \in Seq(Entry)
        /\ pos' \in 0..Len(entries')
        /\ freed' \subseteq Entry
    BY <1>1, <1>4, <2>1, <2>2 DEF TypeOK
  <2>. QED
    BY <1>1, <1>2, <2>1, <2>3 DEF TypeOK
<1>14. CASE MarkerSkip
  <2>1. /\ curr' = entries[pos] /\ pos' = NextPos(entries, pos)
        /\ UNCHANGED <<entries, end, link, done, freed, pc, open, warned>>
        /\ UNCHANGED <<inDesc, hash, id, taskid, fix, ret>>
    BY <1>14 DEF MarkerSkip, fields, scan
  <2>2. pos # 0
    BY <1>14 DEF MarkerSkip
  <2>3. curr' \in Entry /\ pos' \in 0..Len(entries')
    BY <1>4, <2>1, <2>2
  <2>. QED
    BY <1>1, <1>2, <2>1, <2>3 DEF TypeOK
<1>15. CASE MarkerEnd
  BY <1>1, <1>2, <1>15 DEF MarkerEnd, TypeOK, fields, scan
<1>16. CASE LinkFirst
  BY <1>1, <1>2, <1>5, <1>6, <1>16 DEF LinkFirst, TypeOK, fields, scan
<1>17. CASE LinkTask
  <2>1. /\ curr' = entries[pos] /\ pos' = NextPos(entries, pos)
        /\ open' \in {open, Append(open, entries[pos])}
        /\ UNCHANGED <<entries, end, link, done, freed>>
        /\ UNCHANGED <<inDesc, hash, id, taskid, fix>>
    BY <1>17 DEF LinkTask, Warn, fields, scan
  <2>2. pos # 0
    BY <1>17 DEF LinkTask
  <2>3. /\ curr' \in Entry /\ pos' \in 0..Len(entries')
        /\ open' \in Seq(Entry)
    BY <1>1, <1>4, <1>7, <2>1, <2>2 DEF TypeOK
  <2>4. warned' \in BOOLEAN
    BY <1>1, <1>17 DEF LinkTask, Warn, TypeOK
  <2>5. pc' \in Phase /\ ret' \in {"OK", "ERR_INPUT", "ERR_MEM"}
    BY <1>1, <1>17 DEF LinkTask, Warn, Fail, TypeOK
  <2>. QED
    BY <1>1, <1>2, <2>1, <2>3, <2>4, <2>5 DEF TypeOK
<1>18. CASE LinkWork
  <2>1. entries[pos] \in Entry /\ NextPos(entries, pos) \in 0..Len(entries)
    BY <1>4, <1>18 DEF LinkWork
  <2>2. /\ hash' \in Nat \ {0}
        /\ id' \in Nat \union {NULL}
        /\ taskid' \in Nat
    BY <1>18 DEF LinkWork
  <2>4. inDesc' \in BOOLEAN
    BY <1>18 DEF LinkWork
  <2>5. fix' \in BOOLEAN
    BY <1>18 DEF LinkWork
  <2>3. /\ pc' = "scan" /\ curr' = entries[pos]
        /\ pos' = NextPos(entries, pos)
        /\ UNCHANGED <<entries, end, link, done, freed, open, warned, ret>>
    BY <1>18 DEF LinkWork, fields
  <2>. QED
    BY <1>1, <1>2, <2>1, <2>2, <2>3, <2>4, <2>5 DEF TypeOK
<1>19. CASE LinkEnd
  BY <1>1, <1>2, <1>6, <1>19 DEF LinkEnd, TypeOK, fields, scan
<1>20. CASE ScanId
  <2>1. /\ curr \in Entry
        /\ Text \in Seq(Hash)
        /\ hash \in 1..Len(Text)
        /\ Text[hash].kind # "word"
    <3>1. curr \in Entry
      BY <1>20 DEF ScanId, IInv, Linking, Passed, Named
    <3>2. doc[curr] \in EntryType
      BY <1>1, <3>1, DocType
    <3>3. Text \in Seq(Hash)
      BY <3>2 DEF Text, EntryType
    <3>4. hash \in Nat \ {0} /\ Len(Text) \in Nat
      BY <1>1, <3>3, LenProperties DEF TypeOK
    <3>. QED
      BY <1>20, <3>1, <3>3, <3>4 DEF ScanId
  <2>2. Text[hash] \in Hash
    BY <2>1, ElementOfSeq
  <2>3. PICK found \in Scanned(Text[hash]) :
           LET conflict == taskid # 0 /\ taskid # found
           IN  /\ id' = found
               /\ IF conflict THEN Warn ELSE UNCHANGED <<pc, warned, ret>>
               /\ IF conflict /\ strict
                  THEN UNCHANGED <<taskid, fix, hash>>
                  ELSE /\ taskid' = found
                       /\ fix' = Closing(Text[hash])
                       /\ hash' = hash + 1
    BY <1>20 DEF ScanId
  <2>4. found \in Nat
    <3>1. id \in Nat \union {NULL}
      BY <1>1 DEF TypeOK
    <3>2. Text[hash].kind \in {"number", "end"} /\ Text[hash].num \in Nat
      BY <2>1, <2>2 DEF Hash
    <3>3. CASE Text[hash].kind = "number"
      BY <2>3, <3>2, <3>3 DEF Scanned
    <3>4. CASE Text[hash].kind = "end" /\ id # NULL
      BY <2>3, <3>1, <3>4 DEF Scanned
    <3>5. CASE Text[hash].kind = "end" /\ id = NULL
      BY <2>3, <3>5, GarbageAssumption DEF Scanned
    <3>. QED
      BY <3>2, <3>3, <3>4, <3>5
  <2>5. /\ taskid' \in Nat
        /\ fix' \in BOOLEAN
        /\ hash' \in Nat \ {0}
        /\ id' \in Nat \union {NULL}
    <3>1. /\ taskid \in Nat
          /\ fix \in BOOLEAN
          /\ hash \in Nat \ {0}
      BY <1>1 DEF TypeOK
    <3>2. \/ taskid' = taskid /\ fix' = fix /\ hash' = hash
          \/ /\ taskid' = found
             /\ fix' = (Text[hash].word \in FixStrings)
             /\ hash' = hash + 1
      BY <2>3 DEF Closing
    <3>3. id' = found
      BY <2>3
    <3>4. fix' \in BOOLEAN
      <4>1. CASE fix' = fix
        BY <3>1, <4>1
      <4>2. CASE fix' = (Text[hash].word \in FixStrings)
        BY <4>2
      <4>. QED
        BY <3>2, <4>1, <4>2
    <3>. QED
      BY <2>4, <3>1, <3>2, <3>3, <3>4
  <2>6. pc' \in Phase /\ warned' \in BOOLEAN
        /\ ret' \in {"OK", "ERR_INPUT", "ERR_MEM"}
    BY <1>1, <2>3 DEF TypeOK, Warn, Fail
  <2>. QED
    BY <1>1, <1>2, <1>20, <2>5, <2>6 DEF ScanId, TypeOK, fields
<1>21. CASE ScanSkip
  BY <1>1, <1>2, <1>21 DEF ScanSkip, TypeOK, fields, scan
<1>22. CASE ScanDesc
  BY <1>1, <1>2, <1>22 DEF ScanDesc, TypeOK, fields, scan
<1>23. CASE ScanEnd
  BY <1>1, <1>2, <1>23 DEF ScanEnd, TypeOK, fields, scan
<1>24. CASE LinkFound
  <2>1. curr \in Entry
    BY <1>24 DEF LinkFound, IInv, Linking, Passed, Named
  <2>2. PICK k \in 1..Len(open) :
           /\ link' = [link EXCEPT ![curr] = open[k]]
           /\ IF fix THEN Close(k) ELSE UNCHANGED <<done, open>>
    BY <1>24 DEF LinkFound
  <2>3. open[k] \in Entry /\ Without(open, k) \in Seq(Entry)
    BY <1>1, ElementOfSeq, WithoutProperties DEF TypeOK
  <2>4. /\ link' \in [Entry -> Entry \union {NULL}]
        /\ done' \in [Entry -> BOOLEAN]
        /\ open' \in Seq(Entry)
    BY <1>1, <2>2, <2>3 DEF TypeOK, Close
  <2>. QED
    BY <1>1, <1>2, <1>24, <2>4 DEF LinkFound, TypeOK, scan
<1>25. CASE LinkNotFound
  BY <1>1, <1>2, <1>25 DEF LinkNotFound, TypeOK, fields, scan
<1>26. CASE OutOfMemory
  BY <1>1, <1>2, <1>26 DEF OutOfMemory, Fail, TypeOK, fields, scan
<1>27. CASE Sort
  <2>1. PICK sorted \in [1..Len(entries) -> Listed] : entries' = sorted
    BY <1>27 DEF Sort
  <2>2. Listed \subseteq Entry
    BY <1>3 DEF Listed
  <2>3. entries' \in [1..Len(entries) -> Entry]
    BY <2>1, <2>2
  <2>4. entries' \in Seq(Entry) /\ Len(entries') = Len(entries)
    BY <1>3, <2>3, SeqDef, LenProperties
  <2>. QED
    BY <1>1, <1>2, <1>27, <2>4 DEF Sort, TypeOK, fields, scan
<1>. QED
  BY <1>8, <1>9, <1>10, <1>11, <1>12, <1>13, <1>14, <1>15, <1>16, <1>17, <1>18,
     <1>19, <1>20, <1>21, <1>22, <1>23, <1>24, <1>25, <1>26, <1>27
     DEF Next, EndSet, MarkerPass, LinkPass, Scan

----------------------------------------------------------------------------
\* The actions that change ctx->entries are MarkerRemove and Sort.
LEMMA SameEntries ==
    ASSUME IInv, Next, ~MarkerRemove, ~Sort
    PROVE  /\ entries' = entries
           /\ freed' = freed
           /\ pc' # "done"
           /\ pc # "done"
           /\ pc' \in Prelude => pc \in Prelude
<1>. USE DEF fields, Prelude, Fail, Warn
<1>1. CASE EndSet
  BY <1>1 DEF EndSet, EndSetEmpty, EndSetFirst, EndSetNext, EndSetLast
<1>2. CASE MarkerPass
  BY <1>2 DEF MarkerPass, MarkerFirst, MarkerSkip, MarkerEnd
<1>3. CASE LinkFirst \/ LinkTask \/ LinkWork \/ LinkEnd
  BY <1>3 DEF LinkFirst, LinkTask, LinkWork, LinkEnd
<1>4. CASE ScanId
  BY <1>4 DEF ScanId
<1>5. CASE ScanSkip \/ ScanDesc \/ ScanEnd
  BY <1>5 DEF ScanSkip, ScanDesc, ScanEnd
<1>6. CASE LinkFound \/ LinkNotFound
  BY <1>6 DEF LinkFound, LinkNotFound
<1>7. CASE OutOfMemory
  BY <1>7 DEF OutOfMemory
<1>. QED
  BY <1>1, <1>2, <1>3, <1>4, <1>5, <1>6, <1>7 DEF Next, LinkPass, Scan

LEMMA OrderInv == IInv /\ Next => InOrder'
<1>. SUFFICES ASSUME IInv, Next
              PROVE  InOrder'
  OBVIOUS
<1>1. /\ doc' = doc /\ Entry' = Entry
      /\ InOrder
      /\ Len(entries) \in Nat
      /\ entries \in Seq(Entry)
      /\ Entry = 1..Len(doc)
      /\ \A i \in 1..Len(entries) : entries[i] \in Entry
  BY SameFile, DocType DEF IInv, TypeOK
<1>2. CASE MarkerRemove
  <2>1. /\ pc = "marker_loop" /\ pc' = "marker_loop"
        /\ pos \in 1..Len(entries)
        /\ entries' = Without(entries, pos)
    BY <1>1, <1>2 DEF MarkerRemove, IInv, TypeOK
  <2>2. /\ Len(entries') = Len(entries) - 1
        /\ \A i \in 1..(Len(entries) - 1) :
              entries'[i] = IF i < pos THEN entries[i] ELSE entries[i + 1]
    BY <1>1, <2>1, WithoutProperties
  <2>3. \A i, j \in 1..Len(entries) : i < j => entries[i] < entries[j]
    BY <1>1, <2>1 DEF InOrder
  <2>4. ASSUME NEW i \in 1..Len(entries'), NEW j \in 1..Len(entries'), i < j
        PROVE  entries'[i] < entries'[j]
    <3>. DEFINE old(n) == IF n < pos THEN n ELSE n + 1
    <3>1. i \in 1..(Len(entries) - 1) /\ j \in 1..(Len(entries) - 1)
      BY <2>2
    <3>2. /\ old(i) \in 1..Len(entries)
          /\ old(j) \in 1..Len(entries)
          /\ old(i) < old(j)
      <4>1. pos \in Nat /\ i \in Nat /\ j \in Nat
        BY <2>1, <3>1
      <4>2. old(i) < old(j)
        BY <2>4, <4>1
      <4>3. old(i) \in 1..Len(entries)
        BY <1>1, <3>1, <4>1
      <4>4. old(j) \in 1..Len(entries)
        BY <1>1, <3>1, <4>1
      <4>. QED
        BY <4>2, <4>3, <4>4
    <3>3. entries'[i] = entries[old(i)] /\ entries'[j] = entries[old(j)]
      BY <2>2, <3>1
    <3>. HIDE DEF old
    <3>. QED
      BY <2>3, <3>2, <3>3
  <2>5. \A i \in 1..Len(entries') : entries'[i] \in Int
    <3>1. entries' \in Seq(Entry)
      BY <1>1, TypeInv DEF TypeOK
    <3>. QED
      BY <1>1, <3>1, ElementOfSeq
  <2>6. \A i, j \in 1..Len(entries') : entries'[i] = entries'[j] => i = j
    <3>1. \A i, j \in 1..Len(entries') : i < j \/ j < i \/ i = j
      BY <1>1, <2>2
    <3>2. \A i, j \in 1..Len(entries') : i < j => entries'[i] < entries'[j]
      BY <2>4
    <3>. QED
      BY <2>5, <3>1, <3>2
  <2>. QED
    BY <2>1, <2>4, <2>6 DEF InOrder, Prelude
<1>3. CASE Sort
  <2>1. PICK sorted \in [1..Len(entries) -> Listed] :
               IsSorted(sorted, Begin, Listed) /\ entries' = sorted
    BY <1>3 DEF Sort
  <2>2. \A i, j \in 1..Len(entries') :
            i < j => Before(Begin, entries'[i], entries'[j])
    BY <2>1 DEF IsSorted
  <2>3. Len(entries') = Len(entries)
    BY <1>1, <2>1, LenProperties, SeqDef
  <2>4. \A i \in 1..Len(entries') : entries'[i] \in Entry
    BY <1>1, <2>1, <2>3 DEF Listed
  <2>5. \A e \in Entry : ~Before(Begin, e, e)
    BY <1>1, DocType DEF IInv, Begin, Before
  <2>6. \A i, j \in 1..Len(entries') : entries'[i] = entries'[j] => i = j
    BY <1>1, <2>2, <2>3, <2>4, <2>5
  <2>7. pc' = "done"
    BY <1>3 DEF Sort
  <2>. QED
    BY <2>6, <2>7 DEF InOrder, Prelude
<1>4. CASE ~MarkerRemove /\ ~Sort
  BY <1>1, <1>4, SameEntries DEF InOrder
<1>. QED
  BY <1>2, <1>3, <1>4

LEMMA KeptInv == IInv /\ Next => Kept'
<1>. SUFFICES ASSUME IInv, Next
              PROVE  Kept'
  OBVIOUS
<1>1. /\ doc' = doc /\ Entry' = Entry /\ Named' = Named
      /\ InOrder
      /\ Kept
      /\ Len(entries) \in Nat
      /\ entries \in Seq(Entry)
      /\ \A i \in 1..Len(entries) : entries[i] \in Entry
      /\ Listed \subseteq Entry
  BY SameFile, DocType DEF IInv, TypeOK, Listed
<1>2. CASE MarkerRemove
  <2>1. /\ pc = "marker_loop" /\ pc' = "marker_loop"
        /\ pos \in 1..Len(entries)
        /\ ~doc[entries[pos]].named
        /\ entries' = Without(entries, pos)
        /\ pos' = ShiftPos(NextPos(entries, pos), pos)
        /\ freed' = freed \union {entries[pos]}
    BY <1>1, <1>2 DEF MarkerRemove, IInv, TypeOK
  <2>2. /\ Len(entries') = Len(entries) - 1
        /\ \A i \in 1..(Len(entries) - 1) :
              entries'[i] = IF i < pos THEN entries[i] ELSE entries[i + 1]
    BY <1>1, <2>1, WithoutProperties
  <2>3. pos' = IF pos < Len(entries) THEN pos ELSE 0
    BY <1>1, <2>1, PosProperties
  <2>4. \A i, j \in 1..Len(entries) : entries[i] = entries[j] => i = j
    BY <1>1 DEF InOrder
  <2>5. Listed' = Listed \ {entries[pos]}
    <3>1. ASSUME NEW e \in Listed'
          PROVE  e \in Listed /\ e # entries[pos]
      <4>1. PICK i \in 1..(Len(entries) - 1) : e = entries'[i]
        BY <2>2 DEF Listed
      <4>2. CASE i < pos
        BY <1>1, <2>1, <2>2, <2>4, <4>1, <4>2 DEF Listed
      <4>3. CASE ~(i < pos)
        <5>1. e = entries[i + 1] /\ i + 1 \in 1..Len(entries) /\ i + 1 # pos
          BY <1>1, <2>1, <2>2, <4>1, <4>3
        <5>. QED
          BY <2>1, <2>4, <5>1 DEF Listed
      <4>. QED
        BY <4>2, <4>3
    <3>2. ASSUME NEW e \in Listed, e # entries[pos]
          PROVE  e \in Listed'
      <4>1. PICK i \in 1..Len(entries) : e = entries[i]
        BY DEF Listed
      <4>2. CASE i < pos
        <5>1. i \in 1..Len(entries') /\ entries'[i] = e
          BY <1>1, <2>1, <2>2, <4>1, <4>2
        <5>. QED
          BY <5>1 DEF Listed
      <4>3. CASE i > pos
        <5>1. i - 1 \in 1..Len(entries') /\ entries'[i - 1] = e
          BY <1>1, <2>1, <2>2, <4>1, <4>3
        <5>. QED
          BY <5>1 DEF Listed
      <4>. QED
        BY <2>1, <3>2, <4>1, <4>2, <4>3
    <3>. QED
      BY <3>1, <3>2
  <2>6. Named \subseteq Listed' /\ freed' = Entry \ Listed'
    BY <1>1, <2>1, <2>5 DEF Kept, Named
  <2>7. \A i \in 1..Len(entries') :
            ~doc[entries'[i]].named => pos' # 0 /\ pos' <= i
    <3>1. \A i \in 1..Len(entries) : ~doc[entries[i]].named => pos <= i
      BY <1>1, <2>1 DEF Kept
    <3>. QED
      BY <1>1, <2>1, <2>2, <2>3, <3>1
  <2>. QED
    BY <1>1, <2>1, <2>6, <2>7 DEF Kept, Unmarked, LinkPhase
<1>3. CASE Sort
  <2>1. PICK sorted \in [1..Len(entries) -> Listed] :
               IsSorted(sorted, Begin, Listed) /\ entries' = sorted
    BY <1>3 DEF Sort
  <2>2. Listed' = Listed
    BY <2>1 DEF IsSorted, Listed
  <2>3. freed' = freed /\ pc = "sort" /\ pc' = "done"
    BY <1>3 DEF Sort, fields
  <2>. QED
    BY <1>1, <2>2, <2>3 DEF Kept, Unmarked, LinkPhase
<1>4. CASE ~MarkerRemove /\ ~Sort
  <2>1. entries' = entries /\ freed' = freed /\ Listed' = Listed
    BY <1>4, SameEntries DEF Listed
  <2>2. CASE MarkerFirst
    <3>1. /\ pc = "marker_remove" /\ pc' = "marker_loop"
          /\ pos' = FirstPos(entries)
      BY <2>2 DEF MarkerFirst
    <3>2. \A i \in 1..Len(entries) : pos' # 0 /\ pos' <= i
      BY <1>1, <3>1, EmptySeq DEF FirstPos
    <3>. QED
      BY <1>1, <2>1, <3>1, <3>2 DEF Kept, Unmarked, LinkPhase
  <2>3. CASE MarkerSkip
    <3>1. /\ pc = "marker_loop" /\ pc' = "marker_loop"
          /\ pos \in 1..Len(entries)
          /\ doc[entries[pos]].named
          /\ pos' = IF pos < Len(entries) THEN pos + 1 ELSE 0
      BY <1>1, <2>3 DEF MarkerSkip, NextPos, IInv, TypeOK
    <3>2. \A i \in 1..Len(entries) : ~doc[entries[i]].named => pos <= i
      BY <1>1, <3>1 DEF Kept
    <3>3. \A i \in 1..Len(entries) :
              ~doc[entries[i]].named => pos' # 0 /\ pos' <= i
      BY <1>1, <3>1, <3>2
    <3>. QED
      BY <1>1, <2>1, <3>1, <3>3 DEF Kept, Unmarked, LinkPhase
  <2>4. CASE MarkerEnd
    <3>1. pc = "marker_loop" /\ pos = 0 /\ pc' = "link_entries"
      BY <2>4 DEF MarkerEnd
    <3>2. \A i \in 1..Len(entries) : doc[entries[i]].named
      BY <1>1, <3>1 DEF Kept
    <3>3. Listed \subseteq Named
      BY <1>1, <3>2 DEF Listed, Named
    <3>. QED
      BY <1>1, <2>1, <3>1, <3>3 DEF Kept
  <2>5. CASE ~MarkerFirst /\ ~MarkerSkip /\ ~MarkerEnd
    <3>1. pc' # "marker_loop" /\ (pc' \in Unmarked => pc \in Unmarked)
      <4>. USE DEF Unmarked, LinkPhase, Fail, Warn
      <4>1. CASE EndSet
        BY <4>1 DEF EndSet, EndSetEmpty, EndSetFirst, EndSetNext, EndSetLast
      <4>2. CASE LinkFirst \/ LinkTask \/ LinkWork \/ LinkEnd
        BY <4>2 DEF LinkFirst, LinkTask, LinkWork, LinkEnd
      <4>3. CASE ScanId
        BY <4>3 DEF ScanId
      <4>4. CASE ScanSkip \/ ScanDesc \/ ScanEnd
        BY <4>4 DEF ScanSkip, ScanDesc, ScanEnd
      <4>5. CASE LinkFound \/ LinkNotFound
        BY <4>5 DEF LinkFound, LinkNotFound
      <4>6. CASE OutOfMemory
        BY <4>6 DEF OutOfMemory
      <4>. QED
        BY <1>4, <2>5, <4>1, <4>2, <4>3, <4>4, <4>5, <4>6
           DEF Next, MarkerPass, LinkPass, Scan
    <3>. QED
      BY <1>1, <2>1, <3>1 DEF Kept
  <2>. QED
    BY <2>2, <2>3, <2>4, <2>5
<1>. QED
  BY <1>2, <1>3, <1>4

LEMMA EndsInv == IInv /\ Next => EndsSet'
<1>. SUFFICES ASSUME IInv, Next
              PROVE  EndsSet'
  OBVIOUS
<1>1. /\ doc' = doc /\ Entry' = Entry
      /\ EndsSet
      /\ Len(doc) \in Nat
      /\ Entry = 1..Len(doc)
      /\ pos \in 0..Len(entries)
      /\ end \in [Entry -> Int]
  BY SameFile, DocType DEF IInv, TypeOK
<1>2. ASSUME pc \in Prelude
      PROVE  /\ Len(entries) = Len(doc)
             /\ \A i \in 1..Len(doc) : entries[i] = i
  <2>1. entries = [e \in Entry |-> e] /\ entries \in Seq(Entry)
    BY <1>2 DEF IInv, InOrder, TypeOK
  <2>. QED
    BY <1>1, <2>1, LenProperties
<1>. USE DEF Phase
<1>3. CASE EndSetEmpty
  <2>1. pc \in Prelude /\ entries = <<>> /\ pc' = "marker_remove"
    BY <1>3 DEF EndSetEmpty, Prelude
  <2>2. Entry = {}
    BY <1>1, <1>2, <2>1, EmptySeq
  <2>. QED
    BY <1>1, <2>1, <2>2 DEF EndsSet, EndsFollow, IsWork
<1>4. CASE EndSetFirst
  <2>1. /\ pc \in Prelude /\ entries # <<>> /\ pc' = "end_loop"
        /\ curr' = entries[1] /\ pos' = NextPos(entries, 1)
    BY <1>4 DEF EndSetFirst, Prelude
  <2>2. Len(doc) \in Nat /\ Len(doc) # 0
    BY <1>1, <1>2, <2>1, EmptySeq DEF IInv, TypeOK
  <2>3. curr' = 1 /\ pos' = IF 1 < Len(doc) THEN 2 ELSE 0
    BY <1>1, <1>2, <2>1, <2>2 DEF NextPos
  <2>4. curr' \in Entry /\ curr' = IF pos' = 0 THEN Len(doc) ELSE pos' - 1
    <3>1. curr' \in Entry
      BY <1>1, <2>2, <2>3
    <3>. DEFINE n == Len(doc)
    <3>2. n \in Nat /\ n # 0 /\ pos' = IF 1 < n THEN 2 ELSE 0
      BY <2>2, <2>3
    <3>3. curr' = IF pos' = 0 THEN n ELSE pos' - 1
      <4>. HIDE DEF n
      <4>. QED
        BY <2>3, <3>2
    <3>. QED
      BY <3>1, <3>3
  <2>5. \A e \in Entry : ~(e < curr')
    BY <1>1, <2>3
  <2>. QED
    BY <1>1, <2>1, <2>4, <2>5 DEF EndsSet, EndsFollow
<1>5. CASE EndSetNext
  <2>1. /\ pc = "end_loop" /\ pc' = "end_loop" /\ pos # 0
        /\ end' = IF IsWork(curr)
                  THEN [end EXCEPT ![curr] = doc[entries[pos]].begin]
                  ELSE end
        /\ curr' = entries[pos] /\ pos' = NextPos(entries, pos)
    BY <1>5 DEF EndSetNext, EndTime
  <2>2. /\ pos \in 1..Len(doc) /\ entries[pos] = pos
        /\ pos' = IF pos < Len(doc) THEN pos + 1 ELSE 0
    BY <1>1, <1>2, <2>1 DEF Prelude, NextPos
  <2>3. /\ curr \in Entry
        /\ curr = pos - 1
        /\ \A e \in Entry :
              IsWork(e) /\ e < curr => end[e] = doc[e + 1].begin
    BY <1>1, <2>1, <2>2 DEF EndsSet
  <2>4. ASSUME NEW e \in Entry, IsWork(e), e < curr'
        PROVE  end'[e] = doc[e + 1].begin
    <3>1. e < curr \/ e = curr
      BY <1>1, <2>1, <2>2, <2>3, <2>4
    <3>2. CASE e < curr
      BY <1>1, <2>1, <2>3, <2>4, <3>2
    <3>3. CASE e = curr
      <4>1. e + 1 = entries[pos]
        BY <1>1, <2>2, <2>3, <3>3
      <4>. QED
        BY <1>1, <2>1, <2>3, <2>4, <3>3, <4>1
    <3>. QED
      BY <3>1, <3>2, <3>3
  <2>5. curr' \in Entry /\ curr' = IF pos' = 0 THEN Len(doc) ELSE pos' - 1
    BY <1>1, <2>1, <2>2
  <2>6. \A e \in Entry' : IsWork(e)' <=> IsWork(e)
    BY <1>1 DEF IsWork
  <2>. QED
    BY <1>1, <2>1, <2>4, <2>5, <2>6 DEF EndsSet, EndsFollow
<1>6. CASE EndSetLast
  <2>1. /\ pc = "end_loop" /\ pos = 0 /\ end' = end
        /\ pc' \in {"error", "marker_remove"}
    BY <1>6 DEF EndSetLast, Fail, fields
  <2>2. /\ curr = Len(doc)
        /\ \A e \in Entry :
              IsWork(e) /\ e < curr => end[e] = doc[e + 1].begin
    BY <2>1 DEF IInv, EndsSet
  <2>3. \A e \in Entry' : IsWork(e)' <=> IsWork(e)
    BY <1>1 DEF IsWork
  <2>. QED
    BY <1>1, <2>1, <2>2, <2>3 DEF EndsSet, EndsFollow
<1>7. CASE ~EndSet
  <2>1. /\ end' = end /\ pc' # "end_loop"
        /\ pc \in {"end_set", "end_loop"} => pc' = "error"
    <3>. USE DEF fields, Fail, Warn
    <3>1. CASE MarkerPass
      BY <3>1 DEF MarkerPass, MarkerFirst, MarkerRemove, MarkerSkip, MarkerEnd
    <3>2. CASE LinkFirst \/ LinkTask \/ LinkWork \/ LinkEnd
      BY <3>2 DEF LinkFirst, LinkTask, LinkWork, LinkEnd
    <3>3. CASE ScanId
      BY <3>3 DEF ScanId
    <3>4. CASE ScanSkip \/ ScanDesc \/ ScanEnd
      BY <3>4 DEF ScanSkip, ScanDesc, ScanEnd
    <3>5. CASE LinkFound \/ LinkNotFound
      BY <3>5 DEF LinkFound, LinkNotFound
    <3>6. CASE OutOfMemory
      BY <3>6 DEF OutOfMemory
    <3>7. CASE Sort
      BY <3>7 DEF Sort
    <3>. QED
      BY <1>7, <3>1, <3>2, <3>3, <3>4, <3>5, <3>6, <3>7
         DEF Next, LinkPass, Scan
  <2>2. pc' \in Phase \ {"end_set", "end_loop", "error"} =>
            pc \in Phase \ {"end_set", "end_loop", "error"}
    <3>1. pc # "error"
      BY DEF Next, EndSet, MarkerPass, LinkPass, Scan, Sort, OutOfMemory,
         EndSetEmpty, EndSetFirst, EndSetNext, EndSetLast, MarkerFirst,
         MarkerRemove, MarkerSkip, MarkerEnd, LinkFirst, LinkTask, LinkWork,
         LinkEnd, ScanId, ScanSkip, ScanDesc, ScanEnd, LinkFound, LinkNotFound
    <3>. QED
      BY <2>1, <3>1 DEF IInv, TypeOK
  <2>3. \A e \in Entry' : IsWork(e)' <=> IsWork(e)
    BY <1>1 DEF IsWork
  <2>. QED
    BY <1>1, <2>1, <2>2, <2>3 DEF EndsSet, EndsFollow
<1>. QED
  BY <1>3, <1>4, <1>5, <1>6, <1>7 DEF EndSet

\* When the iterator moves on while work entries are linked, it has passed one
\* entry more, which is behind all those it had passed.
LEMMA PassedNext ==
    ASSUME IInv, pc \in LinkPhase, pos # 0,
           entries' = entries, pos' = NextPos(entries, pos), Named' = Named
    PROVE  /\ Passed' = Passed \union {entries[pos]}
           /\ entries[pos] \in Named
           /\ \A e \in Passed : e \in Nat /\ e < entries[pos]
<1>1. /\ Len(entries) \in Nat
      /\ pos \in 1..Len(entries)
      /\ Entry \subseteq Nat
      /\ \A i \in 1..Len(entries) : entries[i] \in Entry
  BY DocType DEF IInv, TypeOK
<1>2. /\ Named = Listed
      /\ \A i, j \in 1..Len(entries) : i < j => entries[i] < entries[j]
  BY DEF IInv, Kept, InOrder, Unmarked, LinkPhase
<1>3. Named \subseteq Entry
  BY DEF Named
<1>4. entries[pos] \in Named
  BY <1>1, <1>2 DEF Listed
<1>5. Passed = {e \in Named : e < entries[pos]}
  BY DEF Passed
<1>6. ASSUME NEW e \in Named
      PROVE  e \in Passed' <=> e < entries[pos] \/ e = entries[pos]
  <2>1. PICK i \in 1..Len(entries) : e = entries[i]
    BY <1>2 DEF Listed
  <2>2. i \in Nat /\ pos \in Nat /\ e \in Nat /\ entries[pos] \in Nat
    <3>1. i \in Nat /\ pos \in Nat
      BY <1>1
    <3>2. e \in Entry /\ entries[pos] \in Entry
      BY <1>1, <2>1
    <3>. QED
      BY <1>1, <3>1, <3>2
  <2>5. e < entries[pos] \/ e = entries[pos] <=> i <= pos
    <3>1. i < pos => e < entries[pos]
      BY <1>1, <1>2, <2>1
    <3>2. i > pos => entries[pos] < e
      BY <1>1, <1>2, <2>1
    <3>. QED
      BY <2>1, <2>2, <3>1, <3>2
  <2>3. CASE pos < Len(entries)
    <3>1. pos' = pos + 1 /\ pos + 1 \in 1..Len(entries)
      BY <1>1, <2>3 DEF NextPos
    <3>2. e \in Passed' <=> e < entries[pos + 1]
      BY <1>1, <3>1 DEF Passed
    <3>3. i <= pos => e < entries[pos + 1]
      BY <1>1, <1>2, <2>1, <3>1
    <3>4. i > pos => ~(e < entries[pos + 1])
      <4>1. entries[pos + 1] \in Nat
        BY <1>1, <3>1
      <4>2. i > pos => i = pos + 1 \/ pos + 1 < i
        BY <2>2
      <4>3. pos + 1 < i => entries[pos + 1] < e
        BY <1>1, <1>2, <2>1, <3>1
      <4>. QED
        BY <2>1, <2>2, <4>1, <4>2, <4>3
    <3>. QED
      BY <2>2, <2>5, <3>2, <3>3, <3>4
  <2>4. CASE ~(pos < Len(entries))
    <3>1. pos' = 0 /\ i <= pos
      BY <1>1, <2>4 DEF NextPos
    <3>. QED
      BY <2>5, <3>1 DEF Passed
  <2>. QED
    BY <2>3, <2>4
<1>7. Passed' \subseteq Named
  BY DEF Passed
<1>. QED
  BY <1>1, <1>3, <1>4, <1>5, <1>6, <1>7

\* The iterator has passed nothing when the links begin.
LEMMA PassedFirst ==
    ASSUME IInv, Next, LinkFirst
    PROVE  /\ Passed' = {}
           /\ \A e \in Entry : link[e] = NULL /\ ~done[e]
<1>1. /\ pc = "link_entries" /\ pos' = FirstPos(entries)
      /\ entries' = entries /\ Named' = Named
  BY SameFile DEF LinkFirst
<1>2. \A e \in Entry : link[e] = NULL /\ ~done[e]
  BY <1>1 DEF IInv, Linking, Unlinked
<1>3. /\ Named = Listed
      /\ \A i, j \in 1..Len(entries) : i < j => entries[i] < entries[j]
  BY <1>1 DEF IInv, Kept, InOrder, Unmarked
<1>4. /\ Len(entries) \in Nat
      /\ \A i \in 1..Len(entries) : entries[i] \in Nat
      /\ entries \in Seq(Entry)
  BY DocType DEF IInv, TypeOK
<1>5. CASE entries = <<>>
  <2>1. Listed = {}
    BY <1>5, EmptySeq DEF Listed
  <2>. QED
    BY <1>1, <1>2, <1>3, <2>1 DEF Passed
<1>6. CASE entries # <<>>
  <2>1. pos' = 1 /\ 1 \in 1..Len(entries)
    BY <1>1, <1>4, <1>6, EmptySeq DEF FirstPos
  <2>2. ASSUME NEW i \in 1..Len(entries)
        PROVE  ~(entries[i] < entries[1])
    <3>1. i = 1 \/ 1 < i
      BY <1>4
    <3>2. i = 1 \/ entries[1] < entries[i]
      BY <1>3, <2>1, <3>1
    <3>. QED
      BY <1>4, <2>1, <3>2
  <2>3. \A e \in Named : ~(e < entries[1])
    BY <1>3, <2>2 DEF Listed
  <2>4. Passed' = {}
    BY <1>1, <2>1, <2>3 DEF Passed
  <2>. QED
    BY <1>2, <2>4
<1>. QED
  BY <1>5, <1>6

LEMMA LinkingInv == IInv /\ Next => Linking'
<1>. SUFFICES ASSUME IInv, Next
              PROVE  Linking'
  OBVIOUS
<1>. USE DEF LinkPhase
<1>1. /\ doc' = doc /\ Entry' = Entry /\ Named' = Named
      /\ Linking
      /\ Named \subseteq Entry
      /\ open \in Seq(Entry) /\ Len(open) \in Nat
      /\ link \in [Entry -> Entry \union {NULL}]
      /\ done \in [Entry -> BOOLEAN]
      /\ \A e : IsWork(e)' <=> IsWork(e)
      /\ \A e : IsTask(e)' <=> IsTask(e)
  BY SameFile, LenProperties DEF IInv, TypeOK, Named, IsWork, IsTask
<1>2. ASSUME entries' = entries, pos' = pos
      PROVE  Passed' = Passed
  BY <1>1, <1>2 DEF Passed
<1>3. CASE EndSet \/ MarkerPass
  <2>1. /\ pc \in Unlinked
        /\ open' = open /\ link' = link /\ done' = done
        /\ pc' \in Unlinked \union {"error"}
    <3>. USE DEF Unlinked, Prelude, fields, Fail
    <3>1. CASE EndSet
      BY <3>1 DEF EndSet, EndSetEmpty, EndSetFirst, EndSetNext, EndSetLast
    <3>2. CASE MarkerPass
      BY <3>2 DEF MarkerPass, MarkerFirst, MarkerRemove, MarkerSkip, MarkerEnd
    <3>. QED
      BY <1>3, <3>1, <3>2
  <2>. QED
    BY <1>1, <2>1 DEF Linking, OpenExact, Unlinked, Prelude
<1>4. CASE OutOfMemory \/ Sort \/ LinkEnd
  <2>1. /\ open' = open \/ open' = <<>>
        /\ link' = link /\ done' = done
        /\ pc' \in {"error", "sort", "done"}
    BY <1>4 DEF OutOfMemory, Sort, LinkEnd, Fail, fields
  <2>2. \A i \in 1..Len(open') : open'[i] \in Named
    BY <1>1, <2>1, EmptySeq DEF Linking
  <2>. QED
    BY <1>1, <2>1, <2>2 DEF Linking, OpenExact, Unlinked, Prelude
<1>5. CASE LinkFirst
  <2>1. /\ pc = "link_entries" /\ pc' = "link_loop"
        /\ open' = <<>> /\ link' = link /\ done' = done
        /\ pos' = FirstPos(entries)
        /\ entries' = entries
    BY <1>5 DEF LinkFirst, fields
  <2>2. \A e \in Entry : link[e] = NULL /\ ~done[e]
    BY <1>5, PassedFirst
  <2>3. Passed' = {}
    BY <1>5, PassedFirst
  <2>4. Len(open') = 0
    BY <2>1, EmptySeq
  <2>. QED
    BY <1>1, <2>1, <2>2, <2>3, <2>4 DEF Linking, OpenExact, Unlinked, Prelude
<1>6. CASE LinkWork
  <2>1. /\ pc = "link_loop" /\ pc' = "scan" /\ pos # 0
        /\ IsWork(entries[pos])
        /\ curr' = entries[pos] /\ pos' = NextPos(entries, pos)
        /\ entries' = entries /\ open' = open
        /\ link' = link /\ done' = done
    BY <1>6 DEF LinkWork, fields
  <2>2. /\ Passed' = Passed \union {entries[pos]}
        /\ entries[pos] \in Named
        /\ \A e \in Passed : e \in Nat /\ e < entries[pos]
    BY <1>1, <2>1, PassedNext
  <2>3. entries[pos] \notin Passed
    BY <2>2
  <2>4. link[curr'] = NULL /\ curr' \in Passed'
    BY <1>1, <2>1, <2>2, <2>3 DEF Linking
  <2>5. ~IsTask(entries[pos])
    BY <2>1 DEF IsWork, IsTask
  <2>6. OpenExact'
    BY <1>1, <2>1, <2>2, <2>5 DEF Linking, OpenExact
  <2>. QED
    BY <1>1, <2>1, <2>2, <2>4, <2>6 DEF Linking, Unlinked, Prelude
<1>7. CASE LinkTask
  <2>1. /\ pc = "link_loop" /\ pos # 0
        /\ IsTask(entries[pos])
        /\ pos' = NextPos(entries, pos)
        /\ entries' = entries
        /\ link' = link /\ done' = done
    BY <1>7 DEF LinkTask, fields
  <2>2. \/ pc' = "link_loop" /\ open' = Append(open, entries[pos])
        \/ pc' = "error" /\ open' \in {open, Append(open, entries[pos])}
    BY <1>7 DEF LinkTask, Warn, Fail
  <2>3. /\ Passed' = Passed \union {entries[pos]}
        /\ entries[pos] \in Named
        /\ \A e \in Passed : e \in Nat /\ e < entries[pos]
    BY <1>1, <2>1, PassedNext
  <2>4. /\ Len(Append(open, entries[pos])) = Len(open) + 1
        /\ \A i \in 1..Len(open) : Append(open, entries[pos])[i] = open[i]
        /\ Append(open, entries[pos])[Len(open) + 1] = entries[pos]
    BY <1>1, <2>3, AppendProperties
  <2>5. \A i \in 1..Len(open') : open'[i] \in Named
    <3>1. \A i \in 1..Len(open) : open[i] \in Named
      BY <1>1 DEF Linking
    <3>2. \A i \in 1..(Len(open) + 1) :
              i \in 1..Len(open) \/ i = Len(open) + 1
      BY <1>1
    <3>3. \A i \in 1..(Len(open) + 1) : Append(open, entries[pos])[i] \in Named
      BY <2>3, <2>4, <3>1, <3>2
    <3>. QED
      BY <2>2, <2>4, <3>1, <3>3
  <2>6. CASE pc' = "error"
    BY <1>1, <2>1, <2>5, <2>6 DEF Linking, OpenExact, Unlinked, Prelude
  <2>7. CASE pc' = "link_loop"
    <3>. DEFINE o == Append(open, entries[pos])
    <3>1. open' = o
      BY <2>2, <2>7
    <3>2. /\ {open[i] : i \in 1..Len(open)} =
                 {t \in Passed : IsTask(t) /\ ~done[t]}
          /\ \A i, j \in 1..Len(open) : i < j => open[i] < open[j]
          /\ \A e \in Entry : link[e] # NULL \/ done[e] => e \in Passed
      BY <1>1, <2>1 DEF Linking, OpenExact
    <3>3. ~done[entries[pos]]
      BY <1>1, <2>3, <3>2
    <3>4. {o[i] : i \in 1..Len(o)} =
             {open[i] : i \in 1..Len(open)} \union {entries[pos]}
      <4>1. \A i : i \in 1..(Len(open) + 1) <=>
                    i \in 1..Len(open) \/ i = Len(open) + 1
        BY <1>1
      <4>2. \A e \in {o[i] : i \in 1..Len(o)} :
                e \in {open[i] : i \in 1..Len(open)} \union {entries[pos]}
        BY <2>4, <4>1
      <4>3. \A e \in {open[i] : i \in 1..Len(open)} :
                e \in {o[i] : i \in 1..Len(o)}
        BY <2>4, <4>1
      <4>4. entries[pos] \in {o[i] : i \in 1..Len(o)}
        BY <2>4, <4>1
      <4>. QED
        BY <4>2, <4>3, <4>4
    <3>5. \A i \in 1..Len(open) : open[i] \in Passed
      BY <3>2
    <3>6. ASSUME NEW i \in 1..Len(o), NEW j \in 1..Len(o), i < j
          PROVE  o[i] < o[j]
      <4>1. i \in 1..Len(open) /\ (j \in 1..Len(open) \/ j = Len(open) + 1)
        BY <1>1, <2>4, <3>6
      <4>2. CASE j \in 1..Len(open)
        BY <2>4, <3>2, <3>6, <4>1, <4>2
      <4>3. CASE j = Len(open) + 1
        BY <2>3, <2>4, <3>5, <4>1, <4>3
      <4>. QED
        BY <4>1, <4>2, <4>3
    <3>7. {o[i] : i \in 1..Len(o)} = {t \in Passed' : IsTask(t) /\ ~done[t]}
      BY <2>1, <2>3, <3>2, <3>3, <3>4
    <3>. HIDE DEF o
    <3>8. OpenExact'
      BY <1>1, <2>1, <3>1, <3>6, <3>7 DEF OpenExact
    <3>9. \A e \in Entry : link[e] # NULL \/ done[e] => e \in Passed'
      BY <2>3, <3>2
    <3>. QED
      BY <1>1, <2>1, <2>5, <2>7, <3>8, <3>9 DEF Linking, Unlinked, Prelude
  <2>. QED
    BY <2>2, <2>6, <2>7
<1>8. CASE Scan
  <2>1. /\ pc = "scan"
        /\ pc' \in {"scan", "link_work", "link_loop", "error"}
        /\ entries' = entries /\ pos' = pos /\ curr' = curr
        /\ open' = open /\ link' = link /\ done' = done
    <3>. USE DEF fields, Warn, Fail
    <3>1. CASE ScanId
      BY <3>1 DEF ScanId
    <3>2. CASE ScanSkip \/ ScanDesc \/ ScanEnd
      BY <3>2 DEF ScanSkip, ScanDesc, ScanEnd
    <3>. QED
      BY <1>8, <3>1, <3>2 DEF Scan
  <2>2. Passed' = Passed
    BY <1>2, <2>1
  <2>3. OpenExact'
    BY <1>1, <2>1, <2>2 DEF Linking, OpenExact
  <2>. QED
    BY <1>1, <2>1, <2>2, <2>3 DEF Linking, Unlinked, Prelude
<1>9. CASE LinkNotFound
  <2>1. /\ pc = "link_work" /\ pc' = "link_loop"
        /\ entries' = entries /\ pos' = pos
        /\ open' = open /\ link' = link /\ done' = done
    BY <1>9 DEF LinkNotFound, fields
  <2>2. Passed' = Passed
    BY <1>2, <2>1
  <2>3. OpenExact'
    BY <1>1, <2>1, <2>2 DEF Linking, OpenExact
  <2>. QED
    BY <1>1, <2>1, <2>2, <2>3 DEF Linking, Unlinked, Prelude
<1>10. CASE LinkFound
  <2>1. /\ pc = "link_work" /\ pc' = "link_loop"
        /\ entries' = entries /\ pos' = pos
    BY <1>10 DEF LinkFound
  <2>2. PICK k \in 1..Len(open) :
           /\ link' = [link EXCEPT ![curr] = open[k]]
           /\ IF fix THEN Close(k) ELSE UNCHANGED <<done, open>>
    BY <1>10 DEF LinkFound
  <2>3. /\ Passed' = Passed
        /\ curr \in Passed
        /\ {open[i] : i \in 1..Len(open)} =
               {t \in Passed : IsTask(t) /\ ~done[t]}
        /\ \A i, j \in 1..Len(open) : i < j => open[i] < open[j]
        /\ \A i \in 1..Len(open) : open[i] \in Named
        /\ \A e \in Entry : link[e] # NULL => link[e] \in Named
        /\ \A e \in Entry : link[e] # NULL \/ done[e] => e \in Passed
    BY <1>1, <1>2, <2>1 DEF Linking, OpenExact
  <2>4. /\ open[k] \in Passed
        /\ open[k] \in Entry
        /\ open[k] \in Named
    BY <1>1, <2>3
  <2>5. \A e \in Entry : link'[e] = IF e = curr THEN open[k] ELSE link[e]
    BY <1>1, <2>2
  <2>6. \A e \in Entry : link'[e] # NULL => link'[e] \in Named /\ e \in Passed
    BY <2>3, <2>4, <2>5
  <2>7. CASE ~fix
    <3>1. done' = done /\ open' = open
      BY <2>2, <2>7
    <3>2. OpenExact'
      BY <1>1, <2>1, <2>3, <3>1 DEF OpenExact
    <3>. QED
      BY <1>1, <2>1, <2>3, <2>6, <3>1, <3>2 DEF Linking, Unlinked, Prelude
  <2>8. CASE fix
    <3>. DEFINE o == Without(open, k)
    <3>1. done' = [done EXCEPT ![open[k]] = TRUE] /\ open' = o
      BY <2>2, <2>8 DEF Close
    <3>2. \A e \in Entry : done'[e] <=> done[e] \/ e = open[k]
      BY <1>1, <2>4, <3>1
    <3>3. /\ Len(o) = Len(open) - 1
          /\ \A i \in 1..(Len(open) - 1) :
                o[i] = IF i < k THEN open[i] ELSE open[i + 1]
      BY <1>1, WithoutProperties
    <3>. DEFINE old(n) == IF n < k THEN n ELSE n + 1
    <3>4. \A i \in 1..Len(o) : /\ old(i) \in 1..Len(open)
                               /\ old(i) # k
                               /\ o[i] = open[old(i)]
      BY <1>1, <3>3
    <3>5. \A i, j \in 1..Len(o) : i < j => old(i) < old(j)
      BY <1>1, <3>3
    <3>6. \A n \in 1..Len(open) :
              n # k => \E i \in 1..Len(o) : old(i) = n
      <4>1. ASSUME NEW n \in 1..Len(open), n < k
            PROVE  n \in 1..Len(o) /\ old(n) = n
        BY <1>1, <3>3, <4>1
      <4>2. ASSUME NEW n \in 1..Len(open), n > k
            PROVE  n - 1 \in 1..Len(o) /\ old(n - 1) = n
        BY <1>1, <3>3, <4>2
      <4>3. \A n \in 1..Len(open) : n < k \/ n > k \/ n = k
        BY <1>1
      <4>. HIDE DEF old, o
      <4>. QED
        BY <4>1, <4>2, <4>3
    <3>. HIDE DEF old, o
    <3>7. \A i \in 1..Len(open) : open[i] \in Nat
      BY <1>1, DocType DEF IInv, Linking
    <3>8. \A i \in 1..Len(open) : open[i] = open[k] => i = k
      <4>1. \A i \in 1..Len(open) : i < k \/ i > k \/ i = k
        BY <1>1
      <4>2. \A i \in 1..Len(open) : i < k => open[i] < open[k]
        BY <2>3
      <4>3. \A i \in 1..Len(open) : i > k => open[k] < open[i]
        BY <2>3
      <4>. QED
        BY <3>7, <4>1, <4>2, <4>3
    <3>9. {o[i] : i \in 1..Len(o)} =
             {open[i] : i \in 1..Len(open)} \ {open[k]}
      <4>1. ASSUME NEW i \in 1..Len(o)
            PROVE  o[i] \in {open[n] : n \in 1..Len(open)} \ {open[k]}
        BY <3>4, <3>8
      <4>2. ASSUME NEW n \in 1..Len(open), open[n] # open[k]
            PROVE  open[n] \in {o[i] : i \in 1..Len(o)}
        <5>1. PICK i \in 1..Len(o) : old(i) = n
          BY <3>6, <4>2
        <5>. QED
          BY <3>4, <5>1
      <4>. QED
        BY <4>1, <4>2
    <3>10. {o[i] : i \in 1..Len(o)} = {t \in Passed : IsTask(t) /\ ~done'[t]}
      <4>1. Passed \subseteq Entry
        BY <1>1 DEF Passed
      <4>. QED
        BY <2>3, <3>2, <3>9, <4>1
    <3>11. \A i, j \in 1..Len(o) : i < j => o[i] < o[j]
      BY <2>3, <3>4, <3>5
    <3>12. OpenExact'
      BY <1>1, <2>3, <3>1, <3>10, <3>11 DEF OpenExact
    <3>13. \A i \in 1..Len(o) : o[i] \in Named
      BY <2>3, <3>4
    <3>14. \A e \in Entry : link'[e] # NULL \/ done'[e] => e \in Passed'
      BY <2>3, <2>4, <2>6, <3>2
    <3>. QED
      BY <1>1, <2>1, <2>6, <3>1, <3>12, <3>13, <3>14
         DEF Linking, Unlinked, Prelude
  <2>. QED
    BY <2>7, <2>8
<1>. QED
  BY <1>3, <1>4, <1>5, <1>6, <1>7, <1>8, <1>9, <1>10 DEF Next, LinkPass

LEMMA StutterInv == IInv /\ UNCHANGED vars => IInv'
<1>. SUFFICES ASSUME IInv, UNCHANGED vars
              PROVE  IInv'
  OBVIOUS
<1>1. /\ UNCHANGED <<doc, strict, entries, end, link, done, freed, pc, pos>>
      /\ UNCHANGED <<curr, open, inDesc, hash, id, taskid, fix, warned, ret>>
  BY DEF vars, fields, scan
<1>2. /\ UNCHANGED <<Entry, Named, Listed, Passed>>
      /\ \A e : (IsWork(e)' <=> IsWork(e)) /\ (IsTask(e)' <=> IsTask(e))
  BY <1>1 DEF Entry, Named, Listed, Passed, IsWork, IsTask
<1>3. TypeOK'
  BY <1>1, <1>2 DEF IInv, TypeOK
<1>4. InOrder'
  BY <1>1, <1>2 DEF IInv, InOrder
<1>5. Kept'
  BY <1>1, <1>2 DEF IInv, Kept
<1>6. EndsSet'
  BY <1>1, <1>2 DEF IInv, EndsSet, EndsFollow
<1>7. Linking'
  BY <1>1, <1>2 DEF IInv, Linking, OpenExact
<1>. QED
  BY <1>3, <1>4, <1>5, <1>6, <1>7 DEF IInv

LEMMA Invariance == Spec => []IInv
<1>1. IInv /\ [Next]_vars => IInv'
  BY TypeInv, OrderInv, KeptInv, EndsInv, LinkingInv, StutterInv DEF IInv
<1>. QED
  BY InitInv, <1>1, PTL DEF Spec

----------------------------------------------------------------------------
\* Every variable of dpl_parse keeps its type; in particular an iterator
\* always stands on an entry of the list it iterates over, or is exhausted.
THEOREM TypeCorrect == Spec => []TypeOK
<1>1. IInv => TypeOK
  BY DEF IInv
<1>. QED
  BY Invariance, <1>1, PTL

\* dpl_parse_end_set: each work entry ends when the entry behind it in the
\* file begins, for files of any length.
THEOREM EndsAreRight == Spec => []EndsFollow
<1>1. IInv => EndsFollow
  BY DEF IInv, EndsSet
<1>. QED
  BY Invariance, <1>1, PTL

\* dpl_parse_marker_remove: the loop that removes from the list it iterates
\* over visits every entry once, and removes and frees exactly the markers.
THEOREM MarkersAreGone == Spec => []MarkersGone
<1>1. ASSUME IInv
      PROVE  MarkersGone
  BY <1>1 DEF IInv, Kept, InOrder, MarkersGone, Unmarked
<1>. QED
  BY Invariance, <1>1, PTL

\* The list, tasks_open and the links never lead to a freed entry.
THEOREM NothingFreedIsUsed == Spec => []NoUseAfterFree
<1>1. ASSUME IInv
      PROVE  NoUseAfterFree
  <2>1. /\ freed = Entry \ Listed
        /\ Named \subseteq Listed
        /\ \A i \in 1..Len(open) : open[i] \in Named
        /\ \A e \in Entry : link[e] # NULL => link[e] \in Named
        /\ NULL \notin Entry
    BY <1>1, DocType DEF IInv, Kept, Linking
  <2>. QED
    BY <2>1 DEF NoUseAfterFree
<1>. QED
  BY Invariance, <1>1, PTL

\* dpl_parse_link_entries: tasks_open is exactly what the iterator has passed
\* of the tasks nobody closed, in the order of the file.
THEOREM OpenIsExact == Spec => []OpenExact
<1>1. IInv => OpenExact
  BY DEF IInv, Linking
<1>. QED
  BY Invariance, <1>1, PTL

\* dpl_parse_link_work: a link is set once, and to a task that is not done.
THEOREM LinksOnlyToOpen == Spec => NoLinkToDone
<1>1. ASSUME IInv, [Next]_vars,
             NEW w \in Entry, link'[w] # link[w]
      PROVE  link[w] = NULL /\ ~done[link'[w]]
  <2>1. LinkFound
    <3>. USE DEF fields
    <3>1. link' # link
      BY <1>1
    <3>2. Next
      BY <1>1, <3>1 DEF vars
    <3>3. CASE EndSet \/ MarkerPass
      BY <3>1, <3>3
         DEF EndSet, EndSetEmpty, EndSetFirst, EndSetNext, EndSetLast,
             MarkerPass, MarkerFirst, MarkerRemove, MarkerSkip, MarkerEnd
    <3>4. CASE OutOfMemory \/ Sort \/ LinkNotFound
      BY <3>1, <3>4 DEF OutOfMemory, Sort, LinkNotFound
    <3>5. CASE LinkFirst \/ LinkTask \/ LinkWork \/ LinkEnd
      BY <3>1, <3>5 DEF LinkFirst, LinkTask, LinkWork, LinkEnd
    <3>6. CASE Scan
      BY <3>1, <3>6 DEF Scan, ScanId, ScanSkip, ScanDesc, ScanEnd
    <3>. QED
      BY <3>2, <3>3, <3>4, <3>5, <3>6 DEF Next, LinkPass
  <2>2. PICK k \in 1..Len(open) : link' = [link EXCEPT ![curr] = open[k]]
    BY <2>1 DEF LinkFound
  <2>3. /\ link[curr] = NULL
        /\ curr \in Entry
        /\ {open[i] : i \in 1..Len(open)} =
               {t \in Passed : IsTask(t) /\ ~done[t]}
    BY <1>1, <2>1
       DEF LinkFound, IInv, Linking, OpenExact, LinkPhase, Passed, Named
  <2>4. link \in [Entry -> Entry \union {NULL}]
    BY <1>1 DEF IInv, TypeOK
  <2>5. w = curr /\ link'[w] = open[k]
    BY <1>1, <2>2, <2>3, <2>4
  <2>6. ~done[open[k]]
    BY <2>3
  <2>. QED
    BY <2>3, <2>5, <2>6
<1>2. IInv /\ [Next]_vars =>
          [\A w \in Entry :
              link'[w] # link[w] => link[w] = NULL /\ ~done[link'[w]]]_vars
  BY <1>1
<1>. QED
  BY Invariance, <1>2, PTL DEF Spec, NoLinkToDone

----------------------------------------------------------------------------
(* What dpl_parse hands to the reports. *)

\* Links lead from works to tasks, and none but tasks are done.
LinksTyped ==
    /\ \A w \in Entry : link[w] # NULL => IsWork(w) /\ IsTask(link[w])
    /\ \A t \in Entry : done[t] => IsTask(t)

InTime == pc = "done" => \A i, j \in 1..Len(entries) :
                             i < j => Before(Begin, entries[i], entries[j])

HandedOver ==
    pc = "done" =>
        /\ InTime
        /\ \A e \in Listed : doc[e].named
        /\ \A w \in Listed :
              link[w] # NULL => /\ IsWork(w)
                                /\ link[w] \in Listed
                                /\ IsTask(link[w])
        /\ \A t \in Listed : done[t] => IsTask(t)

LEMMA LinksTypedInv ==
    ASSUME IInv, LinksTyped, [Next]_vars
    PROVE  LinksTyped'
<1>1. CASE UNCHANGED <<doc, link, done>>
  BY <1>1 DEF LinksTyped, Entry, IsWork, IsTask
<1>2. CASE ~UNCHANGED <<doc, link, done>>
  <2>1. Next
    BY <1>2 DEF vars, fields
  <2>2. doc' = doc /\ Entry' = Entry
    BY <2>1, SameFile
  <2>3. LinkFound
    <3>. USE DEF fields
    <3>1. CASE EndSet \/ MarkerPass
      BY <1>2, <2>2, <3>1
         DEF EndSet, EndSetEmpty, EndSetFirst, EndSetNext, EndSetLast,
             MarkerPass, MarkerFirst, MarkerRemove, MarkerSkip, MarkerEnd
    <3>2. CASE OutOfMemory \/ Sort \/ LinkNotFound
      BY <1>2, <2>2, <3>2 DEF OutOfMemory, Sort, LinkNotFound
    <3>3. CASE LinkFirst \/ LinkTask \/ LinkWork \/ LinkEnd
      BY <1>2, <2>2, <3>3 DEF LinkFirst, LinkTask, LinkWork, LinkEnd
    <3>4. CASE Scan
      BY <1>2, <2>2, <3>4 DEF Scan, ScanId, ScanSkip, ScanDesc, ScanEnd
    <3>. QED
      BY <2>1, <3>1, <3>2, <3>3, <3>4 DEF Next, LinkPass
  <2>4. PICK k \in 1..Len(open) :
            /\ link' = [link EXCEPT ![curr] = open[k]]
            /\ done' = done \/ done' = [done EXCEPT ![open[k]] = TRUE]
    BY <2>3 DEF LinkFound, Close
  <2>5. /\ IsWork(curr)
        /\ {open[i] : i \in 1..Len(open)} =
               {t \in Passed : IsTask(t) /\ ~done[t]}
    BY <2>3 DEF LinkFound, IInv, Linking, OpenExact, LinkPhase
  <2>6. /\ link \in [Entry -> Entry \union {NULL}]
        /\ done \in [Entry -> BOOLEAN]
    BY DEF IInv, TypeOK
  <2>7. IsTask(open[k])
    BY <2>5
  <2>8. \A e \in Entry :
            /\ link'[e] = link[e] \/ (e = curr /\ link'[e] = open[k])
            /\ done'[e] = done[e] \/ e = open[k]
    BY <2>4, <2>6
  <2>9. \A e : (IsWork(e)' <=> IsWork(e)) /\ (IsTask(e)' <=> IsTask(e))
    BY <2>2 DEF IsWork, IsTask
  <2>10. ASSUME NEW w \in Entry, link'[w] # NULL
         PROVE  IsWork(w) /\ doc[link'[w]].type = "TASK"
    BY <2>5, <2>7, <2>8, <2>10 DEF LinksTyped, IsTask
  <2>11. ASSUME NEW t \in Entry, done'[t]
         PROVE  IsTask(t)
    BY <2>7, <2>8, <2>11 DEF LinksTyped
  <2>12. \A w \in Entry : link'[w] # NULL =>
             doc'[w].type = "WORK" /\ doc'[link'[w]].type = "TASK"
    BY <2>2, <2>10 DEF IsWork
  <2>13. \A t \in Entry : done'[t] => doc'[t].type = "TASK"
    BY <2>2, <2>11 DEF IsTask
  <2>. QED
    BY <2>2, <2>12, <2>13 DEF LinksTyped, IsWork, IsTask
<1>. QED
  BY <1>1, <1>2

LEMMA InTimeInv ==
    ASSUME IInv, InTime, [Next]_vars
    PROVE  InTime'
<1>1. CASE Sort
  <2>1. PICK sorted \in [1..Len(entries) -> Listed] :
            IsSorted(sorted, Begin, Listed) /\ entries' = sorted
    BY <1>1 DEF Sort
  <2>2. Begin' = Begin
    BY <1>1 DEF Sort, Begin, Entry
  <2>. QED
    BY <2>1, <2>2 DEF IsSorted, InTime
<1>2. CASE UNCHANGED vars
  BY <1>2 DEF vars, InTime, Begin, Entry
<1>3. CASE Next /\ ~Sort
  <2>1. pc' # "done"
    <3>1. CASE EndSet \/ MarkerPass
      BY <3>1
         DEF EndSet, EndSetEmpty, EndSetFirst, EndSetNext, EndSetLast, Fail,
             MarkerPass, MarkerFirst, MarkerRemove, MarkerSkip, MarkerEnd
    <3>2. CASE OutOfMemory \/ LinkFound \/ LinkNotFound
      BY <3>2 DEF OutOfMemory, LinkFound, LinkNotFound, Fail
    <3>3. CASE LinkFirst \/ LinkTask \/ LinkWork \/ LinkEnd
      BY <3>3 DEF LinkFirst, LinkTask, LinkWork, LinkEnd, Warn, Fail
    <3>4. CASE Scan
      BY <3>4 DEF Scan, ScanId, ScanSkip, ScanDesc, ScanEnd, Warn, Fail
    <3>. QED
      BY <1>3, <3>1, <3>2, <3>3, <3>4 DEF Next, LinkPass
  <2>. QED
    BY <2>1 DEF InTime
<1>. QED
  BY <1>1, <1>2, <1>3

\* The list dpl_parse returns is what the filters and reports take for granted
\* of one (the assumption on EntryLists in Reports): in the order of begin
\* times, without markers; a task linked to is in the list and is a task, and
\* nothing but a task is done.
THEOREM ListIsReady == Spec => []HandedOver
<1>1. Init => LinksTyped /\ InTime
  <2>. SUFFICES ASSUME Init
                PROVE  LinksTyped /\ InTime
    OBVIOUS
  <2>1. \A e \in Entry : link[e] = NULL /\ ~done[e]
    BY DEF Init
  <2>2. pc = "end_set"
    BY DEF Init
  <2>. QED
    BY <2>1, <2>2 DEF LinksTyped, InTime
<1>2. IInv /\ LinksTyped /\ InTime /\ [Next]_vars => LinksTyped' /\ InTime'
  BY LinksTypedInv, InTimeInv
<1>3. IInv /\ LinksTyped /\ InTime => HandedOver
  <2>. SUFFICES ASSUME IInv, LinksTyped, InTime, pc = "done"
                PROVE  HandedOver
    BY DEF HandedOver
  <2>1. Listed = Named /\ Listed \subseteq Entry
    BY DEF IInv, Kept, Unmarked, Named
  <2>2. \A e \in Entry : link[e] # NULL => link[e] \in Named
    BY DEF IInv, Linking
  <2>. QED
    BY <2>1, <2>2 DEF LinksTyped, HandedOver, Named
<1>. QED
  BY Invariance, <1>1, <1>2, <1>3, PTL DEF Spec

----------------------------------------------------------------------------
(* The '#' characters of the texts of a work entry. *)

AllClean == \A w \in Named : Clean(w)

\* How many '#' characters of the texts are behind the scan.
At == IF inDesc THEN Len(doc[curr].name) + hash - 1 ELSE hash - 1

\* t and f are the id and the closing word of the last reference among the
\* first n '#' characters.
Settled(w, n, t, f) ==
    \/ \E i \in 1..n : /\ LastNumber(w, n, i)
                       /\ t = Hashes(w)[i].num
                       /\ f <=> Hashes(w)[i].word \in FixStrings
    \/ /\ \A i \in 1..n : Hashes(w)[i].kind # "number"
       /\ t = 0
       /\ ~f

\* The name and then the description.
LEMMA HashesType ==
    ASSUME TypeOK, NEW w \in Entry
    PROVE  /\ Hashes(w) \in Seq(Hash)
           /\ doc[w].name \in Seq(Hash) /\ doc[w].desc \in Seq(Hash)
           /\ Len(doc[w].name) \in Nat /\ Len(doc[w].desc) \in Nat
           /\ Len(Hashes(w)) = Len(doc[w].name) + Len(doc[w].desc)
           /\ \A i \in 1..Len(doc[w].name) : Hashes(w)[i] = doc[w].name[i]
           /\ \A i \in 1..Len(doc[w].desc) :
                 Hashes(w)[Len(doc[w].name) + i] = doc[w].desc[i]
<1>1. doc[w] \in EntryType
  BY DocType
<1>2. doc[w].name \in Seq(Hash) /\ doc[w].desc \in Seq(Hash)
  BY <1>1 DEF EntryType
<1>. DEFINE name == doc[w].name
            desc == doc[w].desc
<1>3. /\ name \in Seq(Hash) /\ desc \in Seq(Hash)
      /\ Hashes(w) = name \o desc
  BY <1>2 DEF Hashes
<1>. HIDE DEF name, desc
<1>4. /\ Len(name) \in Nat /\ Len(desc) \in Nat
      /\ Hashes(w) \in Seq(Hash)
      /\ Len(Hashes(w)) = Len(name) + Len(desc)
      /\ \A i \in 1..(Len(name) + Len(desc)) :
            Hashes(w)[i] = IF i <= Len(name) THEN name[i]
                           ELSE desc[i - Len(name)]
  BY <1>3, ConcatProperties, LenProperties
<1>5. \A i \in 1..Len(name) : Hashes(w)[i] = name[i]
  BY <1>4
<1>6. ASSUME NEW i \in 1..Len(desc)
      PROVE  Hashes(w)[Len(name) + i] = desc[i]
  <2>1. /\ Len(name) + i \in 1..(Len(name) + Len(desc))
        /\ ~(Len(name) + i <= Len(name))
        /\ (Len(name) + i) - Len(name) = i
    BY <1>4
  <2>. QED
    BY <1>4, <2>1
<1>. QED
  BY <1>3, <1>4, <1>5, <1>6 DEF name, desc

LEMMA HashType ==
    ASSUME TypeOK, NEW w \in Entry, NEW i \in 1..Len(Hashes(w))
    PROVE  /\ Hashes(w)[i].kind \in {"number", "word", "end"}
           /\ Hashes(w)[i].num \in Nat
<1>1. Hashes(w)[i] \in Hash
  BY HashesType, ElementOfSeq
<1>. QED
  BY <1>1 DEF Hash

\* The '#' the scan has come to.
LEMMA TextAt ==
    ASSUME TypeOK, curr \in Entry
    PROVE  /\ Text \in Seq(Hash)
           /\ Len(Text) \in Nat
           /\ At \in Nat
           /\ hash <= Len(Text) =>
                 /\ At + 1 \in 1..Len(Hashes(curr))
                 /\ Hashes(curr)[At + 1] = Text[hash]
           /\ inDesc /\ hash = Len(Text) + 1 => At = Len(Hashes(curr))
           /\ ~inDesc /\ hash = Len(Text) + 1 => At = Len(doc[curr].name)
<1>. DEFINE name == doc[curr].name
            desc == doc[curr].desc
            all == Hashes(curr)
<1>1. /\ name \in Seq(Hash) /\ desc \in Seq(Hash)
      /\ Len(name) \in Nat /\ Len(desc) \in Nat
      /\ Len(all) = Len(name) + Len(desc)
      /\ \A i \in 1..Len(name) : all[i] = name[i]
      /\ \A i \in 1..Len(desc) : all[Len(name) + i] = desc[i]
  BY HashesType
<1>2. hash \in Nat \ {0}
  BY DEF TypeOK
<1>. HIDE DEF all
<1>3. CASE inDesc
  <2>1. Text = desc /\ At = Len(name) + hash - 1
    BY <1>3 DEF Text, At
  <2>. HIDE DEF name, desc
  <2>2. At \in Nat /\ At + 1 = Len(name) + hash
    BY <1>1, <1>2, <2>1
  <2>3. hash <= Len(desc) => hash \in 1..Len(desc)
    BY <1>1, <1>2
  <2>4. hash <= Len(desc) =>
            At + 1 \in 1..Len(all) /\ all[At + 1] = desc[hash]
    BY <1>1, <1>2, <2>2, <2>3
  <2>5. hash = Len(desc) + 1 => At = Len(all)
    BY <1>1, <1>2, <2>2
  <2>. QED
    BY <1>1, <1>3, <2>1, <2>2, <2>4, <2>5 DEF all
<1>4. CASE ~inDesc
  <2>1. Text = name /\ At = hash - 1
    BY <1>4 DEF Text, At
  <2>2. At \in Nat /\ At + 1 = hash
    BY <1>2, <2>1
  <2>3. hash <= Len(name) => hash \in 1..Len(name)
    BY <1>1, <1>2
  <2>. HIDE DEF desc
  <2>4. hash <= Len(name) =>
            At + 1 \in 1..Len(all) /\ all[At + 1] = name[hash]
    BY <1>1, <1>2, <2>2, <2>3
  <2>5. hash = Len(name) + 1 => At = Len(name)
    BY <1>1, <1>2, <2>2
  <2>. QED
    BY <1>1, <1>4, <2>1, <2>2, <2>4, <2>5 DEF all
<1>. QED
  BY <1>3, <1>4

\* One '#' more, with a number behind it or without.
LEMMA NumberNext ==
    ASSUME NEW w, NEW n \in Nat, Hashes(w)[n + 1].kind = "number"
    PROVE  LastNumber(w, n + 1, n + 1)
<1>1. \A j : j \notin ((n + 1) + 1)..(n + 1)
  OBVIOUS
<1>. QED
  BY <1>1 DEF LastNumber

LEMMA OtherNext ==
    ASSUME NEW w, NEW n \in Nat, Hashes(w)[n + 1].kind # "number", NEW i
    PROVE  LastNumber(w, n, i) <=> LastNumber(w, n + 1, i)
<1>1. \A k : k \in 1..(n + 1) <=> k \in 1..n \/ k = n + 1
  OBVIOUS
<1>2. ASSUME i \in 1..n, NEW j
      PROVE  j \in (i + 1)..(n + 1) <=> j \in (i + 1)..n \/ j = n + 1
  BY <1>2
<1>. HIDE DEF Hashes
<1>. QED
  BY <1>1, <1>2 DEF LastNumber

LEMMA LastUnique ==
    ASSUME NEW w, NEW n \in Nat, NEW i, NEW j,
           LastNumber(w, n, i), LastNumber(w, n, j)
    PROVE  i = j
<1>1. /\ i \in 1..n /\ j \in 1..n
      /\ i \in Int /\ j \in Int
      /\ Hashes(w)[i].kind = "number" /\ Hashes(w)[j].kind = "number"
      /\ \A k \in (i + 1)..n : Hashes(w)[k].kind # "number"
      /\ \A k \in (j + 1)..n : Hashes(w)[k].kind # "number"
  BY DEF LastNumber
<1>2. ~(i < j)
  BY <1>1
<1>3. ~(j < i)
  BY <1>1
<1>. QED
  BY <1>1, <1>2, <1>3

\* The id and the closing word of a work entry are those of its last
\* reference.
LEMMA ReferenceIs ==
    ASSUME TypeOK, NEW w \in Entry, NEW i, IsReference(w, i)
    PROVE  /\ RefersTo(w) = Hashes(w)[i].num
           /\ Closes(w) <=> Hashes(w)[i].word \in FixStrings
<1>1. Len(Hashes(w)) \in Nat
  BY HashesType, LenProperties
<1>2. i \in 1..Len(Hashes(w))
  BY DEF IsReference, LastNumber
<1>3. \A j : IsReference(w, j) => j = i
  BY <1>1, LastUnique DEF IsReference
<1>4. (CHOOSE j \in 1..Len(Hashes(w)) : IsReference(w, j)) = i
  BY <1>2, <1>3
<1>. QED
  BY <1>2, <1>3, <1>4 DEF RefersTo, Closes

LEMMA NoReferenceIs ==
    ASSUME NEW w,
           \A i \in 1..Len(Hashes(w)) : Hashes(w)[i].kind # "number"
    PROVE  RefersTo(w) = 0 /\ ~Closes(w)
  BY DEF RefersTo, Closes, IsReference, LastNumber

LEMMA SettledAll ==
    ASSUME TypeOK, NEW w \in Entry, NEW t, NEW f \in BOOLEAN,
           Settled(w, Len(Hashes(w)), t, f)
    PROVE  t = RefersTo(w) /\ (f <=> Closes(w))
<1>1. CASE \E i \in 1..Len(Hashes(w)) :
              /\ LastNumber(w, Len(Hashes(w)), i)
              /\ t = Hashes(w)[i].num
              /\ f <=> Hashes(w)[i].word \in FixStrings
  <2>1. PICK i \in 1..Len(Hashes(w)) :
              /\ LastNumber(w, Len(Hashes(w)), i)
              /\ t = Hashes(w)[i].num
              /\ f <=> Hashes(w)[i].word \in FixStrings
    BY <1>1
  <2>2. IsReference(w, i)
    BY <2>1 DEF IsReference
  <2>. QED
    BY <2>1, <2>2, ReferenceIs
<1>2. CASE /\ \A i \in 1..Len(Hashes(w)) : Hashes(w)[i].kind # "number"
           /\ t = 0
           /\ ~f
  BY <1>2, NoReferenceIs
<1>. QED
  BY <1>1, <1>2 DEF Settled

\* What a file says does not change.
LEMMA SameTexts ==
    ASSUME doc' = doc
    PROVE  /\ \A w : Hashes(w)' = Hashes(w)
           /\ \A w : Clean(w)' <=> Clean(w)
           /\ \A w : RefersTo(w)' = RefersTo(w)
           /\ \A w : Closes(w)' <=> Closes(w)
           /\ \A w, j : Contradicts(w, j)' <=> Contradicts(w, j)
           /\ \A w : Conflict(w)' <=> Conflict(w)
           /\ \A w : IsTask(w)' <=> IsTask(w)
           /\ \A w : IsWork(w)' <=> IsWork(w)
           /\ \A w, n, t, f : Settled(w, n, t, f)' <=> Settled(w, n, t, f)
<1>1. \A w : Hashes(w)' = Hashes(w)
  BY DEF Hashes
<1>2. \A w, n, i : LastNumber(w, n, i)' <=> LastNumber(w, n, i)
  BY <1>1 DEF LastNumber
<1>3. \A w, i : IsReference(w, i)' <=> IsReference(w, i)
  BY <1>1, <1>2 DEF IsReference
<1>4. \A w : RefersTo(w)' = RefersTo(w)
  BY <1>1, <1>3 DEF RefersTo
<1>5. \A w, j : Contradicts(w, j)' <=> Contradicts(w, j)
  BY <1>1, <1>2 DEF Contradicts
<1>6. \A w, n, t, f : Settled(w, n, t, f)' <=> Settled(w, n, t, f)
  BY <1>1, <1>2 DEF Settled
<1>7. \A w : (Clean(w)' <=> Clean(w)) /\ (Closes(w)' <=> Closes(w))
  BY <1>1, <1>3 DEF Clean, Closes
<1>. QED
  BY <1>1, <1>4, <1>5, <1>6, <1>7 DEF Conflict, IsTask, IsWork

----------------------------------------------------------------------------
(* What the scan of a work entry knows. *)

InScan == pc \in {"scan", "link_work"}

\* The scan of a work entry that refers to a task cleanly knows at each '#'
\* what the '#' characters behind it say; the entry is the last one the
\* iterator has passed.
Scanning ==
    InScan =>
        /\ \A e \in Passed : e <= curr
        /\ hash <= Len(Text) + 1
        /\ pc = "link_work" => inDesc /\ hash = Len(Text) + 1 /\ taskid # 0
        /\ Clean(curr) => Settled(curr, At, taskid, fix)

\* Only these actions begin or go on with the scan of a work entry.
LEMMA OutsideScan ==
    ASSUME Next, ~LinkWork, ~Scan
    PROVE  ~InScan'
<1>. USE DEF InScan, fields, Fail, Warn
<1>1. CASE EndSet
  BY <1>1 DEF EndSet, EndSetEmpty, EndSetFirst, EndSetNext, EndSetLast
<1>2. CASE MarkerPass
  BY <1>2 DEF MarkerPass, MarkerFirst, MarkerRemove, MarkerSkip, MarkerEnd
<1>3. CASE LinkFirst \/ LinkTask \/ LinkEnd \/ LinkFound \/ LinkNotFound
  BY <1>3 DEF LinkFirst, LinkTask, LinkEnd, LinkFound, LinkNotFound
<1>4. CASE Sort \/ OutOfMemory
  BY <1>4 DEF Sort, OutOfMemory
<1>. QED
  BY <1>1, <1>2, <1>3, <1>4 DEF Next, LinkPass

\* What the scan knows after a '#' without a number, and after one with.
LEMMA SettledSkip ==
    ASSUME NEW w, NEW n \in Nat, NEW t, NEW f \in BOOLEAN,
           Settled(w, n, t, f), Hashes(w)[n + 1].kind # "number"
    PROVE  Settled(w, n + 1, t, f)
<1>1. \A k : k \in 1..(n + 1) <=> k \in 1..n \/ k = n + 1
  OBVIOUS
<1>2. \A i : LastNumber(w, n, i) => LastNumber(w, n + 1, i)
  BY OtherNext
<1>. QED
  BY <1>1, <1>2 DEF Settled

LEMMA SettledNumber ==
    ASSUME NEW w, NEW n \in Nat, NEW f \in BOOLEAN,
           Hashes(w)[n + 1].kind = "number",
           f <=> Hashes(w)[n + 1].word \in FixStrings
    PROVE  Settled(w, n + 1, Hashes(w)[n + 1].num, f)
<1>1. n + 1 \in 1..(n + 1)
  OBVIOUS
<1>. QED
  BY <1>1, NumberNext DEF Settled

LEMMA SettledNone == \A w : Settled(w, 0, 0, FALSE)
  BY DEF Settled

\* The scan is of an entry of the list.
LEMMA ScanAt ==
    ASSUME IInv, InScan
    PROVE  curr \in Entry /\ curr \in Passed /\ IsWork(curr)
  BY DEF IInv, Linking, InScan, Passed, Named

LEMMA ScanFrame ==
    ASSUME Scan
    PROVE  /\ pc = "scan"
           /\ UNCHANGED <<doc, strict, entries, end, link, done, freed>>
           /\ UNCHANGED <<pos, curr, open>>
<1>1. CASE ScanId
  BY <1>1 DEF ScanId, fields
<1>2. CASE ScanSkip \/ ScanDesc \/ ScanEnd
  BY <1>2 DEF ScanSkip, ScanDesc, ScanEnd, fields, scan
<1>. QED
  BY <1>1, <1>2 DEF Scan

LEMMA ScanInvId ==
    ASSUME IInv, Scanning, ScanId
    PROVE  Scanning'
<1>1. /\ pc = "scan" /\ hash <= Len(Text) /\ Text[hash].kind # "word"
      /\ doc' = doc /\ curr' = curr /\ inDesc' = inDesc
      /\ entries' = entries /\ pos' = pos
  BY DEF ScanId, fields
<1>2. TypeOK /\ curr \in Entry
  BY <1>1, ScanAt DEF IInv, InScan
<1>3. PICK found \in Scanned(Text[hash]) :
          LET conflict == taskid # 0 /\ taskid # found
          IN  /\ id' = found
              /\ IF conflict THEN Warn ELSE UNCHANGED <<pc, warned, ret>>
              /\ IF conflict /\ strict
                 THEN UNCHANGED <<taskid, fix, hash>>
                 ELSE /\ taskid' = found
                      /\ fix' = Closing(Text[hash])
                      /\ hash' = hash + 1
  BY DEF ScanId
<1>4. \/ pc' = "error"
      \/ /\ pc' = "scan" /\ taskid' = found /\ hash' = hash + 1
         /\ fix' = (Text[hash].word \in FixStrings)
  BY <1>1, <1>3 DEF Warn, Fail, Closing
<1>5. CASE pc' = "error"
  BY <1>5 DEF Scanning, InScan
<1>6. CASE /\ pc' = "scan" /\ taskid' = found /\ hash' = hash + 1
           /\ fix' = (Text[hash].word \in FixStrings)
  <2>1. /\ Len(Text) \in Nat /\ hash \in Nat \ {0} /\ At \in Nat
        /\ At + 1 \in 1..Len(Hashes(curr))
        /\ Hashes(curr)[At + 1] = Text[hash]
    BY <1>1, <1>2, TextAt DEF TypeOK
  <2>2. Text' = Text /\ Passed' = Passed /\ InScan
    BY <1>1 DEF Text, Passed, Named, InScan, Entry
  <2>3. hash' <= Len(Text') + 1
    BY <1>1, <1>6, <2>1, <2>2
  <2>4. PICK n \in Nat : n = At
    BY <2>1
  <2>5. At' = n + 1
    BY <1>1, <1>6, <2>1, <2>4 DEF At
  <2>6. PICK w : w = curr
    OBVIOUS
  <2>7. PICK f \in BOOLEAN :
            f = fix' /\ (f <=> Text[hash].word \in FixStrings)
    <3>1. fix' \in BOOLEAN
      BY <1>6
    <3>2. fix' <=> Text[hash].word \in FixStrings
      BY <1>6
    <3>. QED
      BY <3>1, <3>2, Zenon
  <2>8. ASSUME Clean(curr)
        PROVE  Settled(w, n + 1, found, f)
    <3>1. Text[hash].kind = "number"
      BY <1>1, <1>2, <2>1, <2>8, HashType DEF Clean
    <3>2. found = Text[hash].num
      BY <1>3, <3>1 DEF Scanned
    <3>. QED
      BY <2>1, <2>4, <2>6, <2>7, <3>1, <3>2, SettledNumber
  <2>9. Clean(curr)' => Clean(curr)
    BY <1>1, SameTexts
  <2>10. ASSUME Clean(curr)
         PROVE  Settled(curr, At, taskid, fix)'
    <3>1. Settled(w, n + 1, found, f)'
      BY <1>1, <2>8, <2>10, SameTexts
    <3>. QED
      BY <1>1, <1>6, <2>5, <2>6, <2>7, <3>1 DEF Settled
  <2>11. \A e \in Passed : e <= curr
    BY <2>2 DEF Scanning
  <2>. QED
    BY <1>1, <1>6, <2>2, <2>3, <2>9, <2>10, <2>11 DEF Scanning
<1>. QED
  BY <1>4, <1>5, <1>6

LEMMA ScanInvSkip ==
    ASSUME IInv, Scanning, ScanSkip
    PROVE  Scanning'
<1>1. /\ pc = "scan" /\ pc' = "scan" /\ hash <= Len(Text)
      /\ Text[hash].kind = "word" /\ hash' = hash + 1
      /\ doc' = doc /\ curr' = curr /\ inDesc' = inDesc
      /\ entries' = entries /\ pos' = pos
      /\ taskid' = taskid /\ fix' = fix
  BY DEF ScanSkip, fields
<1>2. TypeOK /\ curr \in Entry
  BY <1>1, ScanAt DEF IInv, InScan
<1>3. /\ Len(Text) \in Nat /\ hash \in Nat \ {0} /\ At \in Nat
      /\ Hashes(curr)[At + 1] = Text[hash]
  BY <1>1, <1>2, TextAt DEF TypeOK
<1>4. Text' = Text /\ Passed' = Passed /\ InScan
  BY <1>1 DEF Text, Passed, Named, InScan, Entry
<1>5. hash' <= Len(Text') + 1
  BY <1>1, <1>3, <1>4
<1>6. PICK n \in Nat : n = At
  BY <1>3
<1>7. At' = n + 1
  BY <1>1, <1>3, <1>6 DEF At
<1>8. PICK w, t : w = curr /\ t = taskid
  OBVIOUS
<1>9. PICK f \in BOOLEAN : f = fix
  BY <1>2 DEF TypeOK
<1>10. Clean(curr) => Settled(w, n, t, f)
  BY <1>4, <1>6, <1>8, <1>9 DEF Scanning
<1>11. Clean(curr) => Settled(w, n + 1, t, f)
  BY <1>1, <1>3, <1>6, <1>8, <1>10, SettledSkip
<1>12. ASSUME Clean(curr)
       PROVE  Settled(curr, At, taskid, fix)'
  <2>1. Settled(w, n + 1, t, f)'
    BY <1>1, <1>11, <1>12, SameTexts
  <2>. QED
    BY <1>1, <1>7, <1>8, <1>9, <2>1 DEF Settled
<1>13. Clean(curr)' => Clean(curr)
  BY <1>1, SameTexts
<1>14. \A e \in Passed : e <= curr
  BY <1>4 DEF Scanning
<1>. QED
  BY <1>1, <1>4, <1>5, <1>12, <1>13, <1>14 DEF Scanning

LEMMA ScanInvDesc ==
    ASSUME IInv, Scanning, ScanDesc
    PROVE  Scanning'
<1>1. /\ pc = "scan" /\ pc' = "scan" /\ hash > Len(Text)
      /\ ~inDesc /\ inDesc' = TRUE /\ hash' = 1
      /\ doc' = doc /\ curr' = curr
      /\ entries' = entries /\ pos' = pos
      /\ taskid' = taskid /\ fix' = fix
  BY DEF ScanDesc, fields
<1>2. TypeOK /\ curr \in Entry /\ InScan
  BY <1>1, ScanAt DEF IInv, InScan
<1>3. /\ Len(Text) \in Nat /\ hash \in Nat \ {0} /\ hash <= Len(Text) + 1
  BY <1>2, TextAt DEF TypeOK, Scanning
<1>4. At = Len(doc[curr].name) /\ Len(doc[curr].name) \in Nat
  BY <1>1, <1>2, <1>3, TextAt, HashesType
<1>5. At' = At
  BY <1>1, <1>4 DEF At
<1>6. Text' = doc[curr].desc /\ Passed' = Passed
  BY <1>1 DEF Text, Passed, Named, Entry
<1>7. hash' <= Len(Text') + 1
  BY <1>1, <1>2, <1>6, HashesType
<1>8. PICK w, n, t, f : w = curr /\ n = At /\ t = taskid /\ f = fix
  OBVIOUS
<1>9. ASSUME Clean(curr)
       PROVE  Settled(curr, At, taskid, fix)'
  <2>1. Settled(w, n, t, f)
    BY <1>2, <1>8, <1>9 DEF Scanning
  <2>2. Settled(w, n, t, f)'
    BY <1>1, <2>1, SameTexts
  <2>. QED
    BY <1>1, <1>5, <1>8, <2>2 DEF Settled
<1>10. Clean(curr)' => Clean(curr)
  BY <1>1, SameTexts
<1>11. \A e \in Passed : e <= curr
  BY <1>2 DEF Scanning
<1>. QED
  BY <1>1, <1>6, <1>7, <1>9, <1>10, <1>11 DEF Scanning

LEMMA ScanInvEnd ==
    ASSUME IInv, Scanning, ScanEnd
    PROVE  Scanning'
<1>1. /\ pc = "scan" /\ hash > Len(Text) /\ inDesc
      /\ pc' = IF taskid = 0 THEN "link_loop" ELSE "link_work"
      /\ doc' = doc /\ curr' = curr
      /\ entries' = entries /\ pos' = pos
      /\ UNCHANGED <<inDesc, hash, id, taskid, fix>>
  BY DEF ScanEnd, fields, scan
<1>2. TypeOK /\ curr \in Entry /\ InScan
  BY <1>1, ScanAt DEF IInv, InScan
<1>3. Len(Text) \in Nat /\ hash \in Nat \ {0} /\ hash <= Len(Text) + 1
  BY <1>2, TextAt DEF TypeOK, Scanning
<1>4. Text' = Text /\ Passed' = Passed /\ At' = At
  BY <1>1 DEF Text, Passed, Named, Entry, At
<1>5. hash = Len(Text) + 1
  BY <1>1, <1>3
<1>6. PICK w, n, t, f : w = curr /\ n = At /\ t = taskid /\ f = fix
  OBVIOUS
<1>7. ASSUME Clean(curr)
      PROVE  Settled(curr, At, taskid, fix)'
  <2>1. Settled(w, n, t, f)
    BY <1>2, <1>6, <1>7 DEF Scanning
  <2>2. Settled(w, n, t, f)'
    BY <1>1, <2>1, SameTexts
  <2>. QED
    BY <1>1, <1>4, <1>6, <2>2 DEF Settled
<1>8. Clean(curr)' => Clean(curr)
  BY <1>1, SameTexts
<1>9. \A e \in Passed : e <= curr
  BY <1>2 DEF Scanning
<1>. QED
  BY <1>1, <1>3, <1>4, <1>5, <1>7, <1>8, <1>9 DEF Scanning, InScan

LEMMA ScanInvWork ==
    ASSUME IInv, Next, LinkWork
    PROVE  Scanning'
<1>1. /\ pc = "link_loop" /\ pos # 0 /\ pc' = "scan"
      /\ inDesc' = FALSE /\ hash' = 1 /\ taskid' = 0 /\ fix' = FALSE
      /\ curr' = entries[pos] /\ pos' = NextPos(entries, pos)
      /\ entries' = entries /\ doc' = doc
  BY DEF LinkWork, fields
<1>2. /\ Passed' = Passed \union {entries[pos]}
      /\ entries[pos] \in Named
      /\ \A e \in Passed : e \in Nat /\ e < entries[pos]
  BY <1>1, SameFile, PassedNext DEF LinkPhase
<1>3. TypeOK /\ entries[pos] \in Entry
  BY <1>2 DEF IInv, Named
<1>4. Text' = doc[entries[pos]].name /\ At' = 0
  BY <1>1 DEF Text, At
<1>5. hash' <= Len(Text') + 1
  BY <1>1, <1>3, <1>4, HashesType
<1>6. \A e \in Passed' : e <= curr'
  <2>1. entries[pos] \in Nat
    BY <1>3, DocType
  <2>. QED
    BY <1>1, <1>2, <2>1
<1>7. Settled(curr, At, taskid, fix)'
  <2>1. \A w : Settled(w, 0, 0, FALSE)'
    BY <1>1, SettledNone, SameTexts
  <2>. QED
    BY <1>1, <1>4, <2>1 DEF Settled
<1>. QED
  BY <1>1, <1>5, <1>6, <1>7 DEF Scanning

LEMMA ScanningInv == IInv /\ Scanning /\ Next => Scanning'
<1>. SUFFICES ASSUME IInv, Scanning, Next
              PROVE  Scanning'
  OBVIOUS
<1>1. CASE LinkWork
  BY <1>1, ScanInvWork
<1>2. CASE Scan
  BY <1>2, ScanInvId, ScanInvSkip, ScanInvDesc, ScanInvEnd DEF Scan
<1>3. CASE ~LinkWork /\ ~Scan
  BY <1>3, OutsideScan DEF Scanning
<1>. QED
  BY <1>1, <1>2, <1>3

----------------------------------------------------------------------------
(* The links. *)

Linkage == LinkPhase \union {"sort", "done"}

\* The entries that are linked as far as they ever will be.
Finished == IF InScan THEN Passed \ {curr} ELSE Passed

\* What was linked so far was linked as the file says.
Linked ==
    /\ pc \in {"sort", "done"} => pos = 0
    /\ pc \in Linkage /\ AllClean =>
          /\ \A t \in Named : DoneRight(t)
          /\ \A w \in Finished : LinkRight(w)

\* No later link changes which tasks were open at an entry.
LEMMA SameAbove ==
    ASSUME doc' = doc, NEW e,
           \A v \in Named : v < e => link'[v] = link[v]
    PROVE  \A n : OpenAbove(e, n)' = OpenAbove(e, n)
<1>1. /\ Named' = Named
      /\ \A w : Closes(w)' <=> Closes(w)
      /\ \A w : IsTask(w)' <=> IsTask(w)
  BY SameTexts DEF Named, Entry
<1>2. ASSUME NEW n, NEW t
      PROVE  t \in OpenAbove(e, n)' <=> t \in OpenAbove(e, n)
  BY <1>1 DEF OpenAbove
<1>. QED
  BY <1>2

LEMMA SameLink ==
    ASSUME doc' = doc, NEW e, link'[e] = link[e],
           \A v \in Named : v < e => link'[v] = link[v]
    PROVE  LinkRight(e)' <=> LinkRight(e)
<1>1. \A n : OpenAbove(e, n)' = OpenAbove(e, n)
  BY SameAbove
<1>2. RefersTo(e)' = RefersTo(e) /\ (IsTask(e)' <=> IsTask(e))
  BY SameTexts
<1>. QED
  BY <1>1, <1>2 DEF LinkRight

LEMMA SameSuspect ==
    ASSUME doc' = doc, NEW e,
           \A v \in Named : v < e => link'[v] = link[v]
    PROVE  Suspect(e)' <=> Suspect(e)
<1>1. \A n : OpenAbove(e, n)' = OpenAbove(e, n)
  BY SameAbove
<1>2. /\ Conflict(e)' <=> Conflict(e)
      /\ IsTask(e)' <=> IsTask(e)
      /\ IsWork(e)' <=> IsWork(e)
  BY SameTexts
<1>. QED
  BY <1>1, <1>2 DEF Suspect, Duplicate

\* The tasks that are open at an entry are those of tasks_open when the
\* iterator comes to it.
LEMMA OpenAboveIs ==
    ASSUME IInv, pc \in LinkPhase, \A t \in Named : DoneRight(t),
           NEW e \in Named,
           \A t \in Passed : IsTask(t) => t < e,
           \A t \in Named : t < e => t \in Passed,
           \A v \in Named : link[v] # NULL => v < e,
           NEW n
    PROVE  OpenAbove(e, n) =
              {t \in {open[i] : i \in 1..Len(open)} : doc[t].id = n}
<1>1. /\ {open[i] : i \in 1..Len(open)} =
             {t \in Passed : IsTask(t) /\ ~done[t]}
      /\ NULL \notin Named
      /\ Passed \subseteq Named
  BY DocType DEF IInv, Linking, OpenExact, Passed, Named
<1>2. ASSUME NEW t \in OpenAbove(e, n)
      PROVE  t \in Passed /\ IsTask(t) /\ ~done[t] /\ doc[t].id = n
  <2>1. /\ t \in Named /\ IsTask(t) /\ doc[t].id = n /\ t < e
        /\ \A v \in Named : v < e /\ link[v] = t => ~Closes(v)
    BY DEF OpenAbove
  <2>2. ASSUME NEW v \in Named, link[v] = t
        PROVE  ~Closes(v)
    BY <1>1, <2>1, <2>2
  <2>3. ~done[t]
    BY <2>1, <2>2 DEF DoneRight
  <2>. QED
    BY <2>1, <2>3
<1>3. ASSUME NEW t \in Passed, IsTask(t), ~done[t], doc[t].id = n
      PROVE  t \in OpenAbove(e, n)
  <2>1. t \in Named /\ t < e
    BY <1>1, <1>3
  <2>2. \A v \in Named : link[v] = t => ~Closes(v)
    BY <1>3, <2>1 DEF DoneRight
  <2>. QED
    BY <1>3, <2>1, <2>2 DEF OpenAbove
<1>. QED
  BY <1>1, <1>2, <1>3

\* The same for the two entries it is asked of: the task the iterator comes to
\* and the work entry it has come from.
LEMMA OpenAboveTask ==
    ASSUME IInv, Next, pc = "link_loop", pos # 0,
           \A t \in Named : DoneRight(t), NEW n
    PROVE  /\ OpenAbove(entries[pos], n) =
                 {t \in {open[i] : i \in 1..Len(open)} : doc[t].id = n}
           /\ link[entries[pos]] = NULL
           /\ entries[pos] \in Named
<1>. DEFINE e == entries[pos]
<1>1. Passed = {t \in Named : t < e}
  BY DEF Passed
<1>2. /\ Len(entries) \in Nat
      /\ pos \in 1..Len(entries)
      /\ Entry \subseteq Nat
      /\ e \in Entry
  BY DocType DEF IInv, TypeOK
<1>3. e \in Named
  BY <1>2 DEF IInv, Kept, Unmarked, LinkPhase, Listed
<1>4. \A v \in Entry : link[v] # NULL => v \in Passed
  BY DEF IInv, Linking, LinkPhase
<1>5. \A v \in Named : link[v] # NULL => v < e
  BY <1>1, <1>4 DEF Named
<1>6. link[e] = NULL
  <2>1. e \in Nat
    BY <1>2
  <2>2. e \notin Passed
    BY <1>1, <2>1
  <2>. QED
    BY <1>2, <1>4, <2>2
<1>. HIDE DEF e
<1>7. OpenAbove(e, n) =
          {t \in {open[i] : i \in 1..Len(open)} : doc[t].id = n}
  BY <1>1, <1>3, <1>5, OpenAboveIs DEF LinkPhase
<1>. QED
  BY <1>3, <1>6, <1>7 DEF e

LEMMA ScanBounds ==
    ASSUME IInv, Scanning, InScan
    PROVE  /\ curr \in Named /\ curr \in Nat
           /\ Passed \subseteq Nat /\ Passed \subseteq Named
           /\ \A t \in Named : t < curr => t \in Passed
           /\ \A v \in Named : link[v] # NULL => v < curr
           /\ \A t \in Passed : t # curr => t < curr
<1>1. /\ curr \in Passed /\ link[curr] = NULL
      /\ \A v \in Entry : link[v] # NULL => v \in Passed
      /\ \A t \in Passed : t <= curr
  BY DEF IInv, Linking, Scanning, InScan, LinkPhase
<1>2. Passed \subseteq Named /\ Named \subseteq Entry /\ Entry \subseteq Nat
  BY DocType DEF IInv, Passed, Named
<1>3. \A t \in Passed : t # curr => t < curr
  BY <1>1, <1>2
<1>4. ASSUME NEW t \in Named, t < curr
      PROVE  t \in Passed
  <2>1. CASE pos = 0
    BY <2>1 DEF Passed
  <2>2. CASE pos # 0
    <3>1. pos \in 1..Len(entries)
      BY <2>2, DocType DEF IInv, TypeOK
    <3>2. entries[pos] \in Nat
      BY <1>2, <3>1, DocType DEF IInv
    <3>3. curr < entries[pos]
      BY <1>1, <2>2 DEF Passed
    <3>4. t < entries[pos]
      BY <1>1, <1>2, <1>4, <3>2, <3>3
    <3>. QED
      BY <2>2, <3>4 DEF Passed
  <2>. QED
    BY <2>1, <2>2
<1>. QED
  BY <1>1, <1>2, <1>3, <1>4 DEF Named

LEMMA OpenAboveWork ==
    ASSUME IInv, Scanning, InScan, \A t \in Named : DoneRight(t), NEW n
    PROVE  OpenAbove(curr, n) =
              {t \in {open[i] : i \in 1..Len(open)} : doc[t].id = n}
<1>1. IsWork(curr)
  BY ScanAt
<1>2. \A t \in Passed : IsTask(t) => t < curr
  BY <1>1, ScanBounds DEF IsTask, IsWork
<1>. QED
  BY <1>2, ScanBounds, OpenAboveIs DEF InScan, LinkPhase

\* What the scan of a clean work entry ends with.
LEMMA ScannedIs ==
    ASSUME IInv, Scanning, InScan, Clean(curr),
           inDesc, hash = Len(Text) + 1
    PROVE  /\ At = Len(Hashes(curr))
           /\ taskid = RefersTo(curr)
           /\ fix <=> Closes(curr)
<1>1. curr \in Entry /\ TypeOK
  BY ScanAt DEF IInv
<1>2. At = Len(Hashes(curr))
  BY <1>1, TextAt
<1>3. fix \in BOOLEAN
  BY <1>1 DEF TypeOK
<1>4. Settled(curr, Len(Hashes(curr)), taskid, fix)
  BY <1>2 DEF Scanning
<1>. QED
  BY <1>1, <1>2, <1>3, <1>4, SettledAll

\* Only LinkFound changes a link or closes a task.
LEMMA LinksKept ==
    ASSUME Next, ~LinkFound
    PROVE  link' = link /\ done' = done
<1>. USE DEF fields
<1>1. CASE EndSet \/ MarkerPass
  BY <1>1
     DEF EndSet, EndSetEmpty, EndSetFirst, EndSetNext, EndSetLast,
         MarkerPass, MarkerFirst, MarkerRemove, MarkerSkip, MarkerEnd
<1>2. CASE OutOfMemory \/ Sort \/ LinkNotFound
  BY <1>2 DEF OutOfMemory, Sort, LinkNotFound
<1>3. CASE LinkFirst \/ LinkTask \/ LinkWork \/ LinkEnd
  BY <1>3 DEF LinkFirst, LinkTask, LinkWork, LinkEnd
<1>4. CASE Scan
  BY <1>4, ScanFrame
<1>. QED
  BY <1>1, <1>2, <1>3, <1>4 DEF Next, LinkPass

\* When the links are as the file says, they still are after a step that
\* leaves them alone.
LEMMA LinkedKeep ==
    ASSUME Linked, pc \in Linkage, doc' = doc, link' = link, done' = done,
           AllClean => \A w \in Finished' : w \in Finished \/ LinkRight(w),
           pc' \in {"sort", "done"} => pos' = 0
    PROVE  Linked'
<1>1. /\ Named' = Named
      /\ AllClean' <=> AllClean
      /\ \A w : Closes(w)' <=> Closes(w)
  <2>1. Named' = Named
    BY DEF Named, Entry
  <2>. QED
    BY <2>1, SameTexts DEF AllClean
<1>2. ASSUME NEW w
      PROVE  LinkRight(w)' <=> LinkRight(w)
  BY SameLink
<1>3. \A t : DoneRight(t)' <=> DoneRight(t)
  BY <1>1 DEF DoneRight
<1>. QED
  BY <1>1, <1>2, <1>3 DEF Linked

\* What each step of the pass adds to the finished entries.
LEMMA FinishedTask ==
    ASSUME IInv, Next, LinkTask, pc' = "link_loop"
    PROVE  Finished' = Finished \union {entries[pos]}
<1>1. /\ pc = "link_loop" /\ pos # 0
      /\ entries' = entries /\ pos' = NextPos(entries, pos)
  BY DEF LinkTask
<1>2. Passed' = Passed \union {entries[pos]}
  BY <1>1, SameFile, PassedNext DEF LinkPhase
<1>. QED
  BY <1>1, <1>2 DEF Finished, InScan

LEMMA FinishedWork ==
    ASSUME IInv, Next, LinkWork
    PROVE  Finished' = Finished
<1>1. /\ pc = "link_loop" /\ pos # 0 /\ pc' = "scan"
      /\ curr' = entries[pos]
      /\ entries' = entries /\ pos' = NextPos(entries, pos)
  BY DEF LinkWork
<1>2. /\ Passed' = Passed \union {entries[pos]}
      /\ entries[pos] \in Named
      /\ \A e \in Passed : e \in Nat /\ e < entries[pos]
  BY <1>1, SameFile, PassedNext DEF LinkPhase
<1>3. entries[pos] \notin Passed
  BY <1>2
<1>. QED
  BY <1>1, <1>2, <1>3 DEF Finished, InScan

LEMMA FinishedScan ==
    ASSUME IInv, Scan
    PROVE  Finished' = IF InScan' THEN Finished ELSE Finished \union {curr}
<1>1. /\ pc = "scan" /\ curr' = curr
      /\ doc' = doc /\ entries' = entries /\ pos' = pos
  BY ScanFrame
<1>2. Passed' = Passed
  BY <1>1 DEF Passed, Named, Entry
<1>3. CASE InScan'
  BY <1>1, <1>2, <1>3 DEF Finished, InScan
<1>4. CASE ~InScan'
  <2>1. Finished' = Passed
    BY <1>2, <1>4 DEF Finished
  <2>2. Finished = Passed \ {curr}
    BY <1>1 DEF Finished, InScan
  <2>3. curr \in Passed
    BY <1>1, ScanAt DEF InScan
  <2>. QED
    BY <1>1, <1>4, <2>1, <2>2, <2>3
<1>. QED
  BY <1>3, <1>4

LEMMA LinkedFirst ==
    ASSUME IInv, Next, LinkFirst
    PROVE  Linked'
<1>1. /\ pc' = "link_loop" /\ doc' = doc /\ Named' = Named
      /\ link' = link /\ done' = done
  BY SameFile DEF LinkFirst, fields
<1>2. /\ Passed' = {}
      /\ \A e \in Entry : link[e] = NULL /\ ~done[e]
      /\ NULL \notin Named
      /\ Named \subseteq Entry
  BY PassedFirst, DocType DEF IInv, Named
<1>3. Finished' = {}
  BY <1>1, <1>2 DEF Finished, InScan
<1>4. ASSUME NEW t \in Named
      PROVE  DoneRight(t)'
  BY <1>1, <1>2 DEF DoneRight
<1>. QED
  BY <1>1, <1>3, <1>4 DEF Linked

LEMMA LinkedTask ==
    ASSUME IInv, Linked, Next, LinkTask
    PROVE  Linked'
<1>1. /\ pc = "link_loop" /\ pos # 0 /\ IsTask(entries[pos])
      /\ doc' = doc /\ link' = link /\ done' = done
      /\ pc' \in {"link_loop", "error"}
  BY DEF LinkTask, Warn, Fail, fields
<1>2. CASE pc' = "error"
  BY <1>2 DEF Linked, Linkage, LinkPhase
<1>3. CASE pc' = "link_loop"
  <2>1. Finished' = Finished \union {entries[pos]}
    BY <1>3, FinishedTask
  <2>2. AllClean => link[entries[pos]] = NULL
    BY <1>1, OpenAboveTask DEF Linked, Linkage, LinkPhase
  <2>3. AllClean => LinkRight(entries[pos])
    BY <1>1, <2>2 DEF LinkRight
  <2>. QED
    BY <1>1, <1>3, <2>1, <2>3, LinkedKeep DEF Linkage, LinkPhase
<1>. QED
  BY <1>1, <1>2, <1>3

LEMMA LinkedScan ==
    ASSUME IInv, Scanning, Linked, Next, Scan
    PROVE  Linked'
<1>1. /\ pc = "scan" /\ doc' = doc /\ link' = link /\ done' = done
  BY ScanFrame
<1>2. pc' \in {"scan", "link_work", "link_loop", "error"}
  <2>. USE DEF Warn, Fail
  <2>1. CASE ScanId
    BY <2>1 DEF ScanId
  <2>2. CASE ScanSkip \/ ScanDesc \/ ScanEnd
    BY <2>2 DEF ScanSkip, ScanDesc, ScanEnd
  <2>. QED
    BY <2>1, <2>2 DEF Scan
<1>3. CASE pc' = "error"
  BY <1>3 DEF Linked, Linkage, LinkPhase
<1>4. CASE pc' \in {"scan", "link_work"}
  <2>1. Finished' = Finished
    BY <1>4, FinishedScan DEF InScan
  <2>. QED
    BY <1>1, <1>4, <2>1, LinkedKeep DEF Linkage, LinkPhase
<1>5. CASE pc' = "link_loop"
  <2>1. Finished' = Finished \union {curr}
    BY <1>5, FinishedScan DEF InScan
  <2>2. ScanEnd
    <3>1. ~ScanId
      BY <1>5 DEF ScanId, Warn, Fail
    <3>2. ~ScanSkip /\ ~ScanDesc
      BY <1>5 DEF ScanSkip, ScanDesc
    <3>. QED
      BY <3>1, <3>2 DEF Scan
  <2>3. taskid = 0 /\ hash > Len(Text) /\ inDesc
    BY <1>5, <2>2 DEF ScanEnd
  <2>4. InScan /\ curr \in Entry /\ IsWork(curr) /\ TypeOK
    BY <1>1, ScanAt DEF InScan, IInv
  <2>5. hash = Len(Text) + 1
    <3>1. hash \in Nat /\ Len(Text) \in Nat /\ hash <= Len(Text) + 1
      BY <2>4, TextAt DEF TypeOK, Scanning
    <3>. QED
      BY <2>3, <3>1
  <2>6. AllClean => Clean(curr)
    BY <2>4, ScanBounds DEF AllClean
  <2>7. AllClean => RefersTo(curr) = 0
    BY <2>3, <2>4, <2>5, <2>6, ScannedIs
  <2>8. link[curr] = NULL
    BY <1>1 DEF IInv, Linking
  <2>9. AllClean => LinkRight(curr)
    BY <2>7, <2>8 DEF LinkRight
  <2>. QED
    BY <1>1, <1>5, <2>1, <2>9, LinkedKeep DEF Linkage, LinkPhase
<1>. QED
  BY <1>2, <1>3, <1>4, <1>5

\* Among the open tasks with an id there is a first one.
LEMMA FirstReferenced ==
    ASSUME IInv, NEW i \in 1..Len(open), doc[open[i]].id = taskid
    PROVE  \E k \in 1..Len(open) : Referenced(k)
<1>1. Len(open) \in Nat
  BY LenProperties DEF IInv, TypeOK
<1>. DEFINE S == {k \in 1..Len(open) : doc[open[k]].id = taskid}
<1>2. S \in SUBSET Nat /\ S # {}
  BY <1>1
<1>3. PICK m \in S : \A k \in S : m <= k
  BY <1>2, Least
<1>4. m \in 1..Len(open) /\ doc[open[m]].id = taskid
  BY <1>3
<1>5. ASSUME NEW j \in 1..(m - 1)
      PROVE  doc[open[j]].id # taskid
  <2>1. j \in 1..Len(open) /\ ~(m <= j)
    BY <1>1, <1>4, <1>5
  <2>. QED
    BY <1>3, <2>1
<1>. QED
  BY <1>4, <1>5 DEF Referenced

\* What the work entry refers to when the open tasks are searched.
LEMMA LinkWorkFacts ==
    ASSUME IInv, Scanning, Linked, pc = "link_work", AllClean
    PROVE  /\ taskid = RefersTo(curr) /\ taskid # 0
           /\ fix <=> Closes(curr)
           /\ OpenAbove(curr, taskid) =
                 {t \in {open[i] : i \in 1..Len(open)} : doc[t].id = taskid}
           /\ IsWork(curr) /\ curr \in Entry /\ curr \in Named
           /\ link[curr] = NULL
<1>1. InScan /\ inDesc /\ hash = Len(Text) + 1 /\ taskid # 0
  BY DEF InScan, Scanning
<1>2. curr \in Named /\ IsWork(curr) /\ curr \in Entry
  BY <1>1, ScanAt, ScanBounds
<1>3. Clean(curr)
  BY <1>2 DEF AllClean
<1>4. taskid = RefersTo(curr) /\ (fix <=> Closes(curr))
  BY <1>1, <1>3, ScannedIs
<1>5. \A t \in Named : DoneRight(t)
  BY DEF Linked, Linkage, LinkPhase
<1>6. OpenAbove(curr, taskid) =
          {t \in {open[i] : i \in 1..Len(open)} : doc[t].id = taskid}
  BY <1>1, <1>5, OpenAboveWork
<1>7. link[curr] = NULL
  BY DEF IInv, Linking
<1>. QED
  BY <1>1, <1>2, <1>4, <1>6, <1>7

LEMMA LinkedNotFound ==
    ASSUME IInv, Scanning, Linked, Next, LinkNotFound
    PROVE  Linked'
<1>1. /\ pc = "link_work" /\ pc' = "link_loop"
      /\ doc' = doc /\ link' = link /\ done' = done
      /\ curr' = curr /\ pos' = pos /\ entries' = entries
      /\ \A k \in 1..Len(open) : ~Referenced(k)
  BY DEF LinkNotFound, fields
<1>2. Passed' = Passed /\ InScan /\ ~InScan'
  BY <1>1 DEF Passed, Named, Entry, InScan
<1>3. \A w \in Finished' : w \in Finished \/ w = curr
  BY <1>2 DEF Finished
<1>4. ASSUME AllClean
      PROVE  LinkRight(curr)
  <2>1. OpenAbove(curr, RefersTo(curr)) =
            {t \in {open[i] : i \in 1..Len(open)} : doc[t].id = taskid}
    BY <1>1, <1>4, LinkWorkFacts
  <2>2. OpenAbove(curr, RefersTo(curr)) = {}
    BY <1>1, <2>1, FirstReferenced
  <2>3. link[curr] = NULL
    BY <1>1, <1>4, LinkWorkFacts
  <2>. QED
    BY <2>2, <2>3 DEF LinkRight
<1>. QED
  BY <1>1, <1>3, <1>4, LinkedKeep DEF Linkage, LinkPhase

LEMMA LinkedFound ==
    ASSUME IInv, Scanning, Linked, Next, LinkFound
    PROVE  Linked'
<1>1. /\ pc = "link_work" /\ pc' = "link_loop"
      /\ doc' = doc /\ curr' = curr /\ pos' = pos /\ entries' = entries
  BY DEF LinkFound
<1>2. PICK k \in 1..Len(open) :
          /\ Referenced(k)
          /\ link' = [link EXCEPT ![curr] = open[k]]
          /\ IF fix THEN Close(k) ELSE UNCHANGED <<done, open>>
  BY DEF LinkFound
<1>3. SUFFICES ASSUME AllClean
               PROVE  /\ \A t \in Named : DoneRight(t)'
                      /\ \A w \in Finished' : LinkRight(w)'
  <2>1. AllClean' <=> AllClean
    BY <1>1, SameTexts DEF AllClean, Named, Entry
  <2>2. Named' = Named
    BY <1>1 DEF Named, Entry
  <2>. QED
    BY <1>1, <2>1, <2>2 DEF Linked
<1>4. /\ taskid = RefersTo(curr) /\ taskid # 0
      /\ fix <=> Closes(curr)
      /\ OpenAbove(curr, taskid) =
            {t \in {open[i] : i \in 1..Len(open)} : doc[t].id = taskid}
      /\ IsWork(curr) /\ curr \in Entry /\ curr \in Named
      /\ link[curr] = NULL
  BY <1>1, <1>3, LinkWorkFacts
<1>5. /\ open[k] \in Named /\ NULL \notin Named /\ NULL # open[k]
      /\ link \in [Entry -> Entry \union {NULL}]
      /\ done \in [Entry -> BOOLEAN]
      /\ Named \subseteq Entry
      /\ Len(open) \in Nat
      /\ \A i \in 1..Len(open) : open[i] \in Nat
  <2>1. TypeOK
    BY DEF IInv
  <2>2. open[k] \in Named /\ \A i \in 1..Len(open) : open[i] \in Named
    BY DEF IInv, Linking
  <2>3. NULL \notin Entry /\ Named \subseteq Entry /\ Entry \subseteq Nat
    BY <2>1, DocType DEF Named
  <2>4. Len(open) \in Nat
    BY <2>1, LenProperties DEF TypeOK
  <2>. QED
    BY <2>1, <2>2, <2>3, <2>4 DEF TypeOK
<1>6. \A e \in Entry : link'[e] = IF e = curr THEN open[k] ELSE link[e]
  BY <1>2, <1>4, <1>5
<1>7. \A e \in Entry :
          done'[e] <=> done[e] \/ (fix /\ e = open[k])
  <2>1. CASE fix
    BY <1>2, <1>5, <2>1 DEF Close
  <2>2. CASE ~fix
    BY <1>2, <2>2
  <2>. QED
    BY <2>1, <2>2
<1>8. \A t \in Named : DoneRight(t)
  BY <1>1, <1>3 DEF Linked, Linkage, LinkPhase
<1>9. ASSUME NEW t \in Named
      PROVE  DoneRight(t)'
  <2>1. /\ Named' = Named
        /\ \A w : Closes(w)' <=> Closes(w)
    BY <1>1, SameTexts DEF Named, Entry
  <2>2. done[t] <=> \E w \in Named : link[w] = t /\ Closes(w)
    BY <1>8 DEF DoneRight
  <2>3. \A w \in Named : link'[w] = t <=>
            IF w = curr THEN t = open[k] ELSE link[w] = t
    BY <1>5, <1>6
  <2>4. link[curr] # t
    BY <1>4, <1>5
  <2>5. (\E w \in Named : link'[w] = t /\ Closes(w)) <=>
            \/ \E w \in Named : link[w] = t /\ Closes(w)
            \/ t = open[k] /\ Closes(curr)
    BY <1>4, <2>3, <2>4
  <2>6. done'[t] <=> \E w \in Named : link'[w] = t /\ Closes(w)
    BY <1>4, <1>5, <1>7, <2>2, <2>5
  <2>. QED
    BY <2>1, <2>6 DEF DoneRight
<1>10. /\ \A v \in Named : v < curr => link'[v] = link[v]
       /\ \A w \in Finished : /\ w < curr
                              /\ link'[w] = link[w]
                              /\ \A v \in Named : v < w => link'[v] = link[v]
  <2>1. InScan
    BY <1>1 DEF InScan
  <2>2. /\ curr \in Nat /\ Passed \subseteq Nat /\ Passed \subseteq Named
        /\ \A t \in Passed : t # curr => t < curr
    BY <2>1, ScanBounds
  <2>3. Finished = Passed \ {curr}
    BY <2>1 DEF Finished
  <2>4. Named \subseteq Nat
    BY <1>5, DocType DEF IInv
  <2>5. \A v \in Named : v < curr => link'[v] = link[v]
    BY <1>5, <1>6, <2>2, <2>4
  <2>6. ASSUME NEW w \in Finished
        PROVE  /\ w < curr
               /\ link'[w] = link[w]
               /\ \A v \in Named : v < w => link'[v] = link[v]
    <3>1. w < curr /\ w \in Named /\ w \in Nat
      BY <2>2, <2>3
    <3>2. \A v \in Named : v < w => v < curr
      BY <2>2, <2>4, <3>1
    <3>. QED
      BY <2>5, <3>1, <3>2
  <2>. QED
    BY <2>5, <2>6
<1>11. ASSUME NEW w \in Finished
       PROVE  LinkRight(w)'
  <2>1. LinkRight(w)
    BY <1>1, <1>3 DEF Linked, Linkage, LinkPhase
  <2>2. /\ link'[w] = link[w]
        /\ \A v \in Named : v < w => link'[v] = link[v]
    BY <1>10
  <2>. QED
    BY <1>1, <2>1, <2>2, SameLink
<1>12. \A t \in OpenAbove(curr, taskid) : open[k] <= t
  <2>1. \A i, j \in 1..Len(open) : i < j => open[i] < open[j]
    BY <1>1 DEF IInv, Linking, OpenExact, LinkPhase
  <2>2. \A i \in 1..(k - 1) : doc[open[i]].id # taskid
    BY <1>2 DEF Referenced
  <2>3. ASSUME NEW i \in 1..Len(open), doc[open[i]].id = taskid
        PROVE  open[k] <= open[i]
    <3>1. ~(i < k)
      BY <1>5, <2>2, <2>3
    <3>2. i = k \/ k < i
      BY <1>5, <3>1
    <3>. QED
      BY <1>5, <2>1, <3>2
  <2>. QED
    BY <1>4, <2>3
<1>13. open[k] \in OpenAbove(curr, taskid)
  BY <1>2, <1>4 DEF Referenced
<1>14. LinkRight(curr)'
  <2>1. PICK w : w = curr
    OBVIOUS
  <2>2. \A n : OpenAbove(w, n)' = OpenAbove(w, n)
    BY <1>1, <1>10, <2>1, SameAbove
  <2>3. RefersTo(w)' = RefersTo(w) /\ (IsTask(w)' <=> IsTask(w))
    BY <1>1, SameTexts
  <2>4. link'[w] = open[k]
    BY <1>4, <1>6, <2>1
  <2>5. LinkRight(w)'
    <3>1. OpenAbove(w, RefersTo(w))' = OpenAbove(w, taskid)
      <4>1. PICK n : n = taskid
        OBVIOUS
      <4>2. RefersTo(w)' = n
        BY <1>4, <2>1, <2>3, <4>1
      <4>3. OpenAbove(w, RefersTo(w))' = OpenAbove(w, n)'
        BY <4>2 DEF OpenAbove
      <4>. QED
        BY <2>2, <4>1, <4>3
    <3>2. /\ link'[w] \in OpenAbove(w, taskid)
          /\ \A t \in OpenAbove(w, taskid) : link'[w] <= t
      BY <1>12, <1>13, <2>1, <2>4
    <3>3. ~IsTask(w) /\ RefersTo(w) # 0
      BY <1>4, <2>1 DEF IsTask, IsWork
    <3>. QED
      BY <2>3, <3>1, <3>2, <3>3 DEF LinkRight
  <2>. QED
    BY <1>1, <2>1, <2>5 DEF LinkRight, OpenAbove, IsTask
<1>15. Finished' \subseteq Finished \union {curr}
  <2>1. Passed' = Passed
    BY <1>1 DEF Passed, Named, Entry
  <2>. QED
    BY <1>1, <2>1 DEF Finished, InScan
<1>16. ASSUME NEW w \in Finished'
       PROVE  LinkRight(w)'
  <2>1. CASE w \in Finished
    BY <1>11, <2>1
  <2>2. CASE w = curr
    <3>1. w = curr'
      BY <1>1, <2>2
    <3>. QED
      BY <1>14, <3>1, <1>1 DEF LinkRight, OpenAbove, IsTask
  <2>. QED
    BY <1>15, <2>1, <2>2
<1>. QED
  BY <1>9, <1>16

LEMMA LinkedInv == IInv /\ Scanning /\ Linked /\ Next => Linked'
<1>. SUFFICES ASSUME IInv, Scanning, Linked, Next
              PROVE  Linked'
  OBVIOUS
<1>. USE DEF Linkage, LinkPhase
<1>1. doc' = doc /\ Named' = Named
  BY SameFile
<1>2. CASE EndSet
  <2>1. pc' \notin Linkage
    BY <1>2 DEF EndSet, EndSetEmpty, EndSetFirst, EndSetNext, EndSetLast,
                Fail
  <2>. QED
    BY <2>1 DEF Linked
<1>3. CASE MarkerPass
  <2>1. pc' \notin Linkage
    BY <1>3 DEF MarkerPass, MarkerFirst, MarkerRemove, MarkerSkip, MarkerEnd
  <2>. QED
    BY <2>1 DEF Linked
<1>4. CASE OutOfMemory
  BY <1>4 DEF OutOfMemory, Fail, Linked
<1>5. CASE LinkWork
  <2>1. /\ pc = "link_loop" /\ pc' = "scan"
        /\ link' = link /\ done' = done
    BY <1>5 DEF LinkWork, fields
  <2>2. Finished' = Finished
    BY <1>5, FinishedWork
  <2>. QED
    BY <1>1, <2>1, <2>2, LinkedKeep
<1>6. CASE LinkEnd \/ Sort
  <2>1. /\ pc \in {"link_loop", "sort"} /\ pc' \in {"sort", "done"}
        /\ link' = link /\ done' = done /\ pos = 0 /\ pos' = 0
    BY <1>6 DEF LinkEnd, Sort, fields, Linked
  <2>2. Finished' = Finished
    BY <1>1, <2>1 DEF Finished, InScan, Passed
  <2>. QED
    BY <1>1, <2>1, <2>2, LinkedKeep
<1>. QED
  BY <1>2, <1>3, <1>4, <1>5, <1>6, LinkedFirst, LinkedTask, LinkedScan,
     LinkedFound, LinkedNotFound DEF Next, LinkPass

----------------------------------------------------------------------------
(* Warnings and errors. *)

Unended == doc # <<>> /\ doc[Len(doc)].named

\* A duplicate task or a conflict of references is among what was linked and
\* scanned so far.
SuspectSeen ==
    \/ \E e \in Finished : Suspect(e)
    \/ InScan /\ \E j \in 1..At : Contradicts(curr, j)

\* A warning was issued exactly when something was suspect, and an error is
\* returned for nothing else.
Judged ==
    /\ pc \notin Linkage \union {"error"} => ~warned
    /\ pc \in Linkage /\ strict => ~warned
    /\ pc \in Linkage /\ AllClean => (warned <=> SuspectSeen)
    /\ pc \notin {"end_set", "end_loop", "error"} => ~Unended
    /\ pc # "error" => ret = "OK"
    /\ ret = "ERR_INPUT" /\ AllClean =>
          Unended \/ (strict /\ \E e \in Named : Suspect(e))

LEMMA SameFileSays ==
    ASSUME doc' = doc
    PROVE  /\ Named' = Named
           /\ AllClean' <=> AllClean
           /\ Unended' <=> Unended
  BY SameTexts DEF Named, Entry, AllClean, Unended

\* A step of the pass that may come upon something suspect and warns of it.
LEMMA JudgedWarn ==
    ASSUME Judged, pc \in Linkage, pc' \in Linkage, NEW new \in BOOLEAN,
           doc' = doc, strict' = strict, ret' = ret,
           warned' <=> warned \/ new,
           strict => ~new,
           AllClean => (SuspectSeen' <=> SuspectSeen \/ new)
    PROVE  Judged'
<1>1. /\ AllClean' <=> AllClean
      /\ Unended' <=> Unended
  BY SameFileSays
<1>2. ret' = "OK" /\ ~Unended
  BY DEF Judged, Linkage, LinkPhase
<1>. QED
  BY <1>1, <1>2 DEF Judged

\* A step that comes upon nothing suspect.
LEMMA JudgedKeep ==
    ASSUME Judged, pc \in Linkage, pc' \in Linkage,
           doc' = doc, strict' = strict, ret' = ret, warned' = warned,
           AllClean => (SuspectSeen' <=> SuspectSeen)
    PROVE  Judged'
  BY JudgedWarn

\* A step that comes upon something suspect in strict mode.
LEMMA JudgedError ==
    ASSUME Judged, pc' = "error", strict, doc' = doc, strict' = strict,
           AllClean => \E e \in Named : Suspect(e)'
    PROVE  Judged'
<1>1. Named' = Named /\ (AllClean' <=> AllClean)
  BY SameFileSays
<1>. QED
  BY <1>1 DEF Judged, Linkage, LinkPhase

\* What is suspect changes only with the links.
LEMMA SuspectsSame ==
    ASSUME doc' = doc, link' = link
    PROVE  \A e : Suspect(e)' <=> Suspect(e)
<1>1. ASSUME NEW e
      PROVE  Suspect(e)' <=> Suspect(e)
  BY SameSuspect
<1>. QED
  BY <1>1

LEMMA JudgedFirst ==
    ASSUME IInv, Judged, Next, LinkFirst
    PROVE  Judged'
<1>1. /\ pc = "link_entries" /\ pc' = "link_loop" /\ doc' = doc
      /\ warned' = warned /\ ret' = ret /\ strict' = strict
  BY DEF LinkFirst
<1>2. /\ Unended' <=> Unended
  BY <1>1, SameFileSays
<1>3. ~SuspectSeen'
  BY <1>1, PassedFirst DEF SuspectSeen, Finished, InScan
<1>. QED
  BY <1>1, <1>2, <1>3 DEF Judged, Linkage, LinkPhase

LEMMA JudgedTask ==
    ASSUME IInv, Scanning, Linked, Judged, Next, LinkTask
    PROVE  Judged'
<1>. DEFINE e == entries[pos]
            dup == HasOpenDuplicate(e)
<1>1. /\ pc = "link_loop" /\ pos # 0 /\ IsTask(e)
      /\ doc' = doc /\ strict' = strict /\ link' = link
  BY DEF LinkTask, fields
<1>2. ASSUME AllClean
      PROVE  e \in Named /\ (Suspect(e) <=> dup)
  <2>1. \A t \in Named : DoneRight(t)
    BY <1>1, <1>2 DEF Linked, Linkage, LinkPhase
  <2>2. /\ OpenAbove(e, doc[e].id) =
              {t \in {open[i] : i \in 1..Len(open)} : doc[t].id = doc[e].id}
        /\ e \in Named
    BY <1>1, <2>1, OpenAboveTask
  <2>3. Duplicate(e) <=> dup
    BY <2>2 DEF Duplicate, HasOpenDuplicate
  <2>. QED
    BY <1>1, <2>2, <2>3 DEF Suspect, IsTask, IsWork
<1>3. \/ /\ ~dup /\ pc' = pc /\ warned' = warned /\ ret' = ret
      \/ /\ dup /\ warned' = TRUE
         /\ IF strict THEN pc' = "error" /\ ret' = "ERR_INPUT"
                      ELSE pc' = pc /\ ret' = ret
  BY DEF LinkTask, Warn, Fail
<1>4. \A w : Suspect(w)' <=> Suspect(w)
  BY <1>1, SuspectsSame
<1>5. CASE dup /\ strict
  <2>1. pc' = "error"
    BY <1>3, <1>5
  <2>2. AllClean => \E w \in Named : Suspect(w)'
    BY <1>2, <1>4, <1>5
  <2>. QED
    BY <1>1, <1>5, <2>1, <2>2, JudgedError
<1>6. CASE ~(dup /\ strict)
  <2>1. /\ pc' = "link_loop" /\ ret' = ret
        /\ dup => warned' = TRUE
        /\ ~dup => warned' = warned
    BY <1>1, <1>3, <1>6
  <2>2. Finished' = Finished \union {e}
    BY <2>1, FinishedTask
  <2>3. ~InScan /\ ~InScan'
    BY <1>1, <2>1 DEF InScan
  <2>4. AllClean => (SuspectSeen' <=> SuspectSeen \/ dup)
    <3>. HIDE DEF e, dup
    <3>1. SuspectSeen' <=> \E w \in Finished' : Suspect(w)'
      BY <2>3 DEF SuspectSeen
    <3>2. SuspectSeen <=> \E w \in Finished : Suspect(w)
      BY <2>3 DEF SuspectSeen
    <3>. QED
      BY <1>2, <1>4, <2>2, <3>1, <3>2
  <2>5. PICK new \in BOOLEAN : new <=> dup
    BY Zenon
  <2>6. (warned' <=> warned \/ new) /\ (strict => ~new)
    BY <1>6, <2>1, <2>5
  <2>. HIDE DEF dup
  <2>. QED
    BY <1>1, <2>1, <2>4, <2>5, <2>6, JudgedWarn DEF Linkage, LinkPhase
<1>. QED
  BY <1>5, <1>6

\* What the scan knows tells whether a number contradicts what is in front.
LEMMA ContradictsIs ==
    ASSUME NEW w, NEW n \in Nat, NEW t, NEW f \in BOOLEAN,
           Settled(w, n, t, f), Hashes(w)[n + 1].kind = "number"
    PROVE  Contradicts(w, n + 1) <=> t # 0 /\ t # Hashes(w)[n + 1].num
<1>1. (n + 1) - 1 = n
  OBVIOUS
<1>2. Contradicts(w, n + 1) <=>
          \E i \in 1..n : /\ LastNumber(w, n, i)
                          /\ Hashes(w)[i].num \notin {0, Hashes(w)[n + 1].num}
  BY <1>1 DEF Contradicts
<1>3. CASE \E i \in 1..n : /\ LastNumber(w, n, i)
                           /\ t = Hashes(w)[i].num
                           /\ f <=> Hashes(w)[i].word \in FixStrings
  <2>1. PICK i \in 1..n : LastNumber(w, n, i) /\ t = Hashes(w)[i].num
    BY <1>3
  <2>2. \A k : LastNumber(w, n, k) => k = i
    BY <2>1, LastUnique
  <2>. QED
    BY <1>2, <2>1, <2>2
<1>4. CASE /\ \A i \in 1..n : Hashes(w)[i].kind # "number"
           /\ t = 0
  BY <1>2, <1>4 DEF LastNumber
<1>. QED
  BY <1>3, <1>4 DEF Settled

LEMMA JudgedScanId ==
    ASSUME IInv, Scanning, Judged, Next, ScanId
    PROVE  Judged'
<1>1. /\ pc = "scan" /\ hash <= Len(Text) /\ Text[hash].kind # "word"
      /\ doc' = doc /\ strict' = strict /\ link' = link
      /\ curr' = curr /\ inDesc' = inDesc
  BY DEF ScanId, fields
<1>2. TypeOK /\ curr \in Entry /\ IsWork(curr) /\ InScan /\ curr \in Named
  <2>1. InScan
    BY <1>1 DEF InScan
  <2>. QED
    BY <2>1, ScanAt, ScanBounds DEF IInv
<1>3. PICK found \in Scanned(Text[hash]) :
          LET conflict == taskid # 0 /\ taskid # found
          IN  /\ id' = found
              /\ IF conflict THEN Warn ELSE UNCHANGED <<pc, warned, ret>>
              /\ IF conflict /\ strict
                 THEN UNCHANGED <<taskid, fix, hash>>
                 ELSE /\ taskid' = found
                      /\ fix' = Closing(Text[hash])
                      /\ hash' = hash + 1
  BY DEF ScanId
<1>. DEFINE conflict == taskid # 0 /\ taskid # found
<1>4. /\ conflict => /\ warned' = TRUE
                     /\ IF strict THEN pc' = "error"
                                  ELSE pc' = pc /\ ret' = ret
      /\ ~conflict => pc' = pc /\ warned' = warned /\ ret' = ret
      /\ ~(conflict /\ strict) => hash' = hash + 1
  BY <1>3 DEF Warn, Fail
<1>5. /\ hash \in Nat \ {0} /\ At \in Nat
      /\ At + 1 \in 1..Len(Hashes(curr))
      /\ Hashes(curr)[At + 1] = Text[hash]
  BY <1>1, <1>2, TextAt DEF TypeOK
<1>6. ASSUME AllClean
      PROVE  Contradicts(curr, At + 1) <=> conflict
  <2>1. Clean(curr)
    BY <1>2, <1>6 DEF AllClean
  <2>2. Text[hash].kind = "number"
    BY <1>1, <1>2, <1>5, <2>1, HashType DEF Clean
  <2>3. found = Text[hash].num
    BY <1>3, <2>2 DEF Scanned
  <2>4. Settled(curr, At, taskid, fix) /\ fix \in BOOLEAN
    BY <1>2, <2>1 DEF Scanning, TypeOK
  <2>. QED
    BY <1>5, <2>2, <2>3, <2>4, ContradictsIs
<1>7. \A w : Suspect(w)' <=> Suspect(w)
  BY <1>1, SuspectsSame
<1>8. CASE conflict /\ strict
  <2>1. AllClean => Suspect(curr)
    BY <1>2, <1>5, <1>6, <1>8 DEF Suspect, Conflict
  <2>2. AllClean => \E e \in Named : Suspect(e)'
    BY <1>2, <1>7, <2>1
  <2>. QED
    BY <1>1, <1>4, <1>8, <2>2, JudgedError
<1>9. CASE ~(conflict /\ strict)
  <2>1. /\ pc' = "scan" /\ ret' = ret /\ hash' = hash + 1
        /\ conflict => warned' = TRUE
        /\ ~conflict => warned' = warned
    BY <1>1, <1>4, <1>9
  <2>2. At' = At + 1
    BY <1>1, <1>5, <2>1 DEF At
  <2>3. Finished' = Finished /\ InScan'
    BY <2>1, FinishedScan DEF Scan, InScan
  <2>4. PICK n, w : n \in Nat /\ n = At /\ w = curr
    BY <1>5
  <2>5. SuspectSeen' <=> \/ \E e \in Finished' : Suspect(e)'
                         \/ \E j \in 1..(n + 1) : Contradicts(w, j)'
    BY <1>1, <2>2, <2>3, <2>4 DEF SuspectSeen, Contradicts
  <2>6. SuspectSeen <=> \/ \E e \in Finished : Suspect(e)
                        \/ \E j \in 1..n : Contradicts(w, j)
    BY <1>2, <2>4 DEF SuspectSeen
  <2>7. \A j : Contradicts(w, j)' <=> Contradicts(w, j)
    BY <1>1, SameTexts
  <2>8. \A j : j \in 1..(n + 1) <=> j \in 1..n \/ j = n + 1
    BY <2>4
  <2>9. AllClean => (Contradicts(w, n + 1) <=> conflict)
    BY <1>6, <2>4
  <2>. HIDE DEF conflict
  <2>10. AllClean => (SuspectSeen' <=> SuspectSeen \/ conflict)
    BY <1>7, <2>3, <2>5, <2>6, <2>7, <2>8, <2>9
  <2>11. PICK new \in BOOLEAN : new <=> conflict
    BY Zenon
  <2>12. (warned' <=> warned \/ new) /\ (strict => ~new)
    BY <1>9, <2>1, <2>11
  <2>. QED
    BY <1>1, <2>1, <2>10, <2>11, <2>12, JudgedWarn DEF Linkage, LinkPhase
<1>. QED
  BY <1>8, <1>9

LEMMA JudgedSkip ==
    ASSUME IInv, Scanning, Judged, Next, ScanSkip
    PROVE  Judged'
<1>1. /\ pc = "scan" /\ pc' = "scan" /\ hash <= Len(Text)
      /\ Text[hash].kind = "word" /\ hash' = hash + 1
      /\ doc' = doc /\ strict' = strict /\ link' = link
      /\ curr' = curr /\ inDesc' = inDesc
      /\ ret' = ret /\ warned' = warned
  BY DEF ScanSkip, fields
<1>2. TypeOK /\ curr \in Entry /\ InScan
  BY <1>1, ScanAt DEF IInv, InScan
<1>3. /\ hash \in Nat \ {0} /\ At \in Nat
      /\ Hashes(curr)[At + 1] = Text[hash]
  BY <1>1, <1>2, TextAt DEF TypeOK
<1>4. At' = At + 1
  BY <1>1, <1>3 DEF At
<1>5. Finished' = Finished /\ InScan'
  BY <1>1, FinishedScan DEF Scan, InScan
<1>6. PICK n, w : n \in Nat /\ n = At /\ w = curr
  BY <1>3
<1>7. SuspectSeen' <=> \/ \E e \in Finished' : Suspect(e)'
                       \/ \E j \in 1..(n + 1) : Contradicts(w, j)'
  BY <1>1, <1>4, <1>5, <1>6 DEF SuspectSeen, Contradicts
<1>8. SuspectSeen <=> \/ \E e \in Finished : Suspect(e)
                      \/ \E j \in 1..n : Contradicts(w, j)
  BY <1>2, <1>6 DEF SuspectSeen
<1>9. ~Contradicts(w, n + 1)
  BY <1>1, <1>3, <1>6 DEF Contradicts
<1>10. /\ \A j : Contradicts(w, j)' <=> Contradicts(w, j)
       /\ \A e : Suspect(e)' <=> Suspect(e)
  BY <1>1, SameTexts, SuspectsSame
<1>11. \A j : j \in 1..(n + 1) <=> j \in 1..n \/ j = n + 1
  BY <1>6
<1>12. SuspectSeen' <=> SuspectSeen
  BY <1>5, <1>7, <1>8, <1>9, <1>10, <1>11
<1>. QED
  BY <1>1, <1>12, JudgedKeep DEF Linkage, LinkPhase

LEMMA JudgedDesc ==
    ASSUME IInv, Scanning, Judged, Next, ScanDesc
    PROVE  Judged'
<1>1. /\ pc = "scan" /\ pc' = "scan" /\ hash > Len(Text)
      /\ ~inDesc /\ inDesc' = TRUE /\ hash' = 1
      /\ doc' = doc /\ strict' = strict /\ link' = link /\ curr' = curr
      /\ ret' = ret /\ warned' = warned
  BY DEF ScanDesc, fields
<1>2. TypeOK /\ curr \in Entry /\ InScan
  BY <1>1, ScanAt DEF IInv, InScan
<1>3. hash \in Nat /\ Len(Text) \in Nat /\ hash <= Len(Text) + 1
  BY <1>2, TextAt DEF TypeOK, Scanning
<1>4. At = Len(doc[curr].name) /\ Len(doc[curr].name) \in Nat
  BY <1>1, <1>2, <1>3, TextAt, HashesType
<1>5. At' = At
  BY <1>1, <1>4 DEF At
<1>6. Finished' = Finished /\ InScan'
  BY <1>1, FinishedScan DEF Scan, InScan
<1>7. PICK n, w : n = At /\ w = curr
  OBVIOUS
<1>8. SuspectSeen' <=> \/ \E e \in Finished' : Suspect(e)'
                       \/ \E j \in 1..n : Contradicts(w, j)'
  BY <1>1, <1>5, <1>6, <1>7 DEF SuspectSeen, Contradicts
<1>9. SuspectSeen <=> \/ \E e \in Finished : Suspect(e)
                      \/ \E j \in 1..n : Contradicts(w, j)
  BY <1>2, <1>7 DEF SuspectSeen
<1>10. /\ \A j : Contradicts(w, j)' <=> Contradicts(w, j)
       /\ \A e : Suspect(e)' <=> Suspect(e)
  BY <1>1, SameTexts, SuspectsSame
<1>11. SuspectSeen' <=> SuspectSeen
  BY <1>6, <1>8, <1>9, <1>10
<1>. QED
  BY <1>1, <1>11, JudgedKeep DEF Linkage, LinkPhase

LEMMA JudgedEnd ==
    ASSUME IInv, Scanning, Judged, Next, ScanEnd
    PROVE  Judged'
<1>1. /\ pc = "scan" /\ hash > Len(Text) /\ inDesc
      /\ pc' = IF taskid = 0 THEN "link_loop" ELSE "link_work"
      /\ doc' = doc /\ strict' = strict /\ link' = link /\ curr' = curr
      /\ ret' = ret /\ warned' = warned
      /\ inDesc' = inDesc /\ hash' = hash
  BY DEF ScanEnd, fields, scan
<1>2. TypeOK /\ curr \in Entry /\ InScan /\ IsWork(curr)
  BY <1>1, ScanAt DEF IInv, InScan
<1>3. At = Len(Hashes(curr))
  <2>1. hash \in Nat /\ Len(Text) \in Nat /\ hash <= Len(Text) + 1
    BY <1>2, TextAt DEF TypeOK, Scanning
  <2>2. hash = Len(Text) + 1
    BY <1>1, <2>1
  <2>. QED
    BY <1>1, <1>2, <2>2, TextAt
<1>4. At' = At
  BY <1>1 DEF At
<1>5. PICK n, w : n = At /\ w = curr
  OBVIOUS
<1>6. SuspectSeen <=> \/ \E e \in Finished : Suspect(e)
                      \/ \E j \in 1..n : Contradicts(w, j)
  BY <1>2, <1>5 DEF SuspectSeen
<1>7. /\ \A j : Contradicts(w, j)' <=> Contradicts(w, j)
      /\ \A e : Suspect(e)' <=> Suspect(e)
  BY <1>1, SameTexts, SuspectsSame
<1>8. CASE InScan'
  <2>1. Finished' = Finished
    BY <1>8, FinishedScan DEF Scan
  <2>2. SuspectSeen' <=> \/ \E e \in Finished' : Suspect(e)'
                         \/ \E j \in 1..n : Contradicts(w, j)'
    BY <1>1, <1>4, <1>5, <1>8 DEF SuspectSeen, Contradicts
  <2>3. SuspectSeen' <=> SuspectSeen
    BY <1>6, <1>7, <2>1, <2>2
  <2>. QED
    BY <1>1, <2>3, JudgedKeep DEF Linkage, LinkPhase
<1>9. CASE ~InScan'
  <2>1. Finished' = Finished \union {w}
    BY <1>5, <1>9, FinishedScan DEF Scan
  <2>2. SuspectSeen' <=> \E e \in Finished' : Suspect(e)'
    BY <1>9 DEF SuspectSeen
  <2>3. Suspect(w) <=> \E j \in 1..n : Contradicts(w, j)
    BY <1>2, <1>3, <1>5 DEF Suspect, Conflict, IsWork, IsTask
  <2>4. SuspectSeen' <=> SuspectSeen
    BY <1>6, <1>7, <2>1, <2>2, <2>3
  <2>. QED
    BY <1>1, <2>4, JudgedKeep DEF Linkage, LinkPhase
<1>. QED
  BY <1>8, <1>9

LEMMA JudgedWork ==
    ASSUME IInv, Scanning, Judged, Next, LinkWork
    PROVE  Judged'
<1>1. /\ pc = "link_loop" /\ pc' = "scan"
      /\ inDesc' = FALSE /\ hash' = 1
      /\ doc' = doc /\ strict' = strict /\ link' = link
      /\ ret' = ret /\ warned' = warned
  BY DEF LinkWork, fields
<1>2. At' = 0
  BY <1>1 DEF At
<1>3. Finished' = Finished /\ ~InScan
  BY <1>1, FinishedWork DEF InScan
<1>4. \A e : Suspect(e)' <=> Suspect(e)
  BY <1>1, SuspectsSame
<1>5. SuspectSeen' <=> \E e \in Finished' : Suspect(e)'
  BY <1>2 DEF SuspectSeen
<1>6. SuspectSeen <=> \E e \in Finished : Suspect(e)
  BY <1>3 DEF SuspectSeen
<1>7. SuspectSeen' <=> SuspectSeen
  BY <1>3, <1>4, <1>5, <1>6
<1>. QED
  BY <1>1, <1>7, JudgedKeep DEF Linkage, LinkPhase

\* The link of a work entry makes nothing suspect, and nothing that is suspect
\* unsuspicious: it comes too late for the entries above.
LEMMA JudgedLink ==
    ASSUME IInv, Scanning, Judged, Next, LinkFound \/ LinkNotFound
    PROVE  Judged'
<1>1. /\ pc = "link_work" /\ pc' = "link_loop"
      /\ doc' = doc /\ strict' = strict /\ curr' = curr
      /\ ret' = ret /\ warned' = warned
      /\ pos' = pos /\ entries' = entries
      /\ \E t : link' = [link EXCEPT ![curr] = t]
  <2>1. CASE LinkFound
    BY <2>1 DEF LinkFound
  <2>2. CASE LinkNotFound
    <3>1. link' = link
      BY <2>2 DEF LinkNotFound, fields
    <3>2. link' = [link EXCEPT ![curr] = link[curr]]
      BY <3>1 DEF IInv, TypeOK
    <3>. QED
      BY <2>2, <3>2 DEF LinkNotFound, fields
  <2>. QED
    BY <2>1, <2>2
<1>2. /\ InScan /\ ~InScan' /\ TypeOK
      /\ inDesc /\ hash = Len(Text) + 1
  BY <1>1 DEF InScan, Scanning, IInv
<1>3. curr \in Entry /\ IsWork(curr) /\ curr \in Passed
  BY <1>2, ScanAt
<1>4. At = Len(Hashes(curr))
  BY <1>2, <1>3, TextAt
<1>5. Finished = Passed \ {curr} /\ Finished' = Passed
  BY <1>1, <1>2 DEF Finished, Passed, Named, Entry
<1>6. \A v \in Named : v < curr => link'[v] = link[v]
  <2>1. curr \in Nat /\ Named \subseteq Entry /\ Entry \subseteq Nat
    BY <1>2, <1>3, DocType DEF Named
  <2>2. link \in [Entry -> Entry \union {NULL}]
    BY <1>2 DEF TypeOK
  <2>. QED
    BY <1>1, <2>1, <2>2
<1>7. ASSUME NEW e \in Passed
      PROVE  Suspect(e)' <=> Suspect(e)
  <2>1. e <= curr /\ e \in Nat /\ curr \in Nat
    BY <1>2, ScanBounds DEF Scanning
  <2>2. Named \subseteq Nat
    BY <1>2, DocType DEF Named
  <2>3. \A v \in Named : v < e => link'[v] = link[v]
    BY <1>6, <2>1, <2>2
  <2>. QED
    BY <1>1, <2>3, SameSuspect
<1>8. Suspect(curr) <=> \E j \in 1..At : Contradicts(curr, j)
  BY <1>3, <1>4 DEF Suspect, Conflict, IsWork, IsTask
<1>9. SuspectSeen' <=> \E e \in Finished' : Suspect(e)'
  BY <1>2 DEF SuspectSeen
<1>10. SuspectSeen <=> \/ \E e \in Finished : Suspect(e)
                       \/ Suspect(curr)
  BY <1>2, <1>8 DEF SuspectSeen
<1>11. SuspectSeen' <=> SuspectSeen
  BY <1>3, <1>5, <1>7, <1>9, <1>10
<1>. QED
  BY <1>1, <1>11, JudgedKeep DEF Linkage, LinkPhase

LEMMA JudgedInv == IInv /\ Scanning /\ Linked /\ Judged /\ Next => Judged'
<1>. SUFFICES ASSUME IInv, Scanning, Linked, Judged, Next
              PROVE  Judged'
  OBVIOUS
<1>. USE DEF Linkage, LinkPhase
<1>1. /\ doc' = doc /\ strict' = strict /\ Named' = Named
      /\ AllClean' <=> AllClean
      /\ Unended' <=> Unended
  BY SameFile, SameFileSays
<1>2. CASE EndSetEmpty
  <2>1. doc = <<>>
    <3>1. entries = [e \in Entry |-> e] /\ entries = <<>>
      BY <1>2 DEF EndSetEmpty, IInv, InOrder, Prelude
    <3>2. Entry = {}
      BY <3>1
    <3>. QED
      BY <3>2, EmptySeq, DocType DEF IInv, TypeOK
  <2>2. /\ pc = "end_set" /\ pc' = "marker_remove"
        /\ warned' = warned /\ ret' = ret
    BY <1>2 DEF EndSetEmpty
  <2>. QED
    BY <1>1, <2>1, <2>2 DEF Judged, Unended
<1>3. CASE EndSetFirst \/ EndSetNext
  <2>1. /\ pc \in {"end_set", "end_loop"} /\ pc' = "end_loop"
        /\ warned' = warned /\ ret' = ret
    BY <1>3 DEF EndSetFirst, EndSetNext
  <2>. QED
    BY <1>1, <2>1 DEF Judged
<1>4. CASE EndSetLast
  <2>1. /\ pc = "end_loop" /\ pos = 0 /\ warned' = warned
        /\ IF doc[curr].named THEN pc' = "error" /\ ret' = "ERR_INPUT"
           ELSE pc' = "marker_remove" /\ ret' = ret
    BY <1>4 DEF EndSetLast, Fail
  <2>2. curr = Len(doc) /\ curr \in Entry
    BY <2>1 DEF IInv, EndsSet
  <2>3. doc[curr].named <=> Unended
    <3>1. doc # <<>>
      BY <2>2 DEF Entry
    <3>. QED
      BY <2>2, <3>1 DEF Unended
  <2>. QED
    BY <1>1, <2>1, <2>3 DEF Judged
<1>5. CASE MarkerPass
  <2>1. /\ pc \in {"marker_remove", "marker_loop"}
        /\ pc' \in {"marker_loop", "link_entries"}
        /\ warned' = warned /\ ret' = ret
    BY <1>5 DEF MarkerPass, MarkerFirst, MarkerRemove, MarkerSkip, MarkerEnd
  <2>. QED
    BY <1>1, <2>1 DEF Judged
<1>6. CASE OutOfMemory
  <2>1. pc' = "error" /\ ret' = "ERR_MEM"
    BY <1>6 DEF OutOfMemory, Fail
  <2>. QED
    BY <2>1 DEF Judged
<1>7. CASE LinkEnd \/ Sort
  <2>1. /\ pc \in {"link_loop", "sort"} /\ pc' \in {"sort", "done"}
        /\ link' = link /\ warned' = warned /\ ret' = ret
        /\ pos = 0 /\ pos' = 0
    BY <1>7 DEF LinkEnd, Sort, fields, Linked
  <2>2. Finished' = Finished /\ ~InScan /\ ~InScan'
    BY <1>1, <2>1 DEF Finished, InScan, Passed
  <2>3. \A e : Suspect(e)' <=> Suspect(e)
    BY <1>1, <2>1, SuspectsSame
  <2>4. SuspectSeen' <=> SuspectSeen
    BY <2>2, <2>3 DEF SuspectSeen
  <2>. QED
    BY <1>1, <2>1, <2>4, JudgedKeep
<1>. QED
  BY <1>2, <1>3, <1>4, <1>5, <1>6, <1>7, JudgedFirst, JudgedTask, JudgedWork,
     JudgedScanId, JudgedSkip, JudgedDesc, JudgedEnd, JudgedLink
     DEF Next, EndSet, LinkPass, Scan

----------------------------------------------------------------------------
LinksInv == IInv /\ Scanning /\ Linked /\ Judged

LEMMA InitLinks == Init => LinksInv
<1>. SUFFICES ASSUME Init
              PROVE  LinksInv
  OBVIOUS
<1>1. pc = "end_set" /\ warned = FALSE /\ ret = "OK"
  BY DEF Init
<1>. QED
  BY <1>1, InitInv
     DEF LinksInv, Scanning, InScan, Linked, Linkage, LinkPhase, Judged

LEMMA StutterLinks == LinksInv /\ UNCHANGED vars => LinksInv'
<1>. SUFFICES ASSUME LinksInv, UNCHANGED vars
              PROVE  LinksInv'
  OBVIOUS
<1>1. /\ UNCHANGED <<doc, strict, entries, end, link, done, freed, pc, pos>>
      /\ UNCHANGED <<curr, open, inDesc, hash, id, taskid, fix, warned, ret>>
  BY DEF vars, fields, scan
<1>2. IInv'
  BY StutterInv DEF LinksInv
<1>3. /\ Named' = Named
      /\ AllClean' <=> AllClean
      /\ Unended' <=> Unended
      /\ Passed' = Passed /\ Text' = Text /\ At' = At
      /\ InScan' <=> InScan
      /\ Finished' = Finished
  <2>1. Named' = Named /\ (AllClean' <=> AllClean) /\ (Unended' <=> Unended)
    BY <1>1, SameFileSays
  <2>. QED
    BY <1>1, <2>1 DEF Passed, Text, At, InScan, Finished
<1>4. Scanning'
  <2>1. ASSUME InScan, Clean(curr)
        PROVE  Settled(curr, At, taskid, fix)'
    <3>1. PICK w, n, t, f : w = curr /\ n = At /\ t = taskid /\ f = fix
      OBVIOUS
    <3>2. Settled(w, n, t, f)'
      BY <1>1, <2>1, <3>1, SameTexts DEF LinksInv, Scanning
    <3>. QED
      BY <1>1, <1>3, <3>1, <3>2 DEF Settled
  <2>2. Clean(curr)' => Clean(curr)
    BY <1>1, SameTexts
  <2>. QED
    BY <1>1, <1>3, <2>1, <2>2 DEF LinksInv, Scanning
<1>5. Linked'
  <2>1. ASSUME NEW w
        PROVE  LinkRight(w)' <=> LinkRight(w)
    BY <1>1, SameLink
  <2>2. \A t : DoneRight(t)' <=> DoneRight(t)
    BY <1>1, <1>3, SameTexts DEF DoneRight
  <2>. QED
    BY <1>1, <1>3, <2>1, <2>2 DEF LinksInv, Linked
<1>6. Judged'
  <2>1. \A e : Suspect(e)' <=> Suspect(e)
    BY <1>1, SuspectsSame
  <2>2. PICK w : w = curr
    OBVIOUS
  <2>3. \A j : Contradicts(w, j)' <=> Contradicts(w, j)
    BY <1>1, SameTexts
  <2>4. SuspectSeen' <=> \/ \E e \in Finished : Suspect(e)'
                         \/ InScan /\ \E j \in 1..At : Contradicts(w, j)'
    BY <1>1, <1>3, <2>2 DEF SuspectSeen, Contradicts
  <2>5. SuspectSeen' <=> SuspectSeen
    BY <2>1, <2>2, <2>3, <2>4 DEF SuspectSeen
  <2>. QED
    BY <1>1, <1>3, <2>1, <2>5 DEF LinksInv, Judged
<1>. QED
  BY <1>2, <1>4, <1>5, <1>6 DEF LinksInv

LEMMA LinksInvariance == Spec => []LinksInv
<1>1. LinksInv /\ [Next]_vars => LinksInv'
  <2>1. LinksInv /\ Next => IInv'
    BY TypeInv, OrderInv, KeptInv, EndsInv, LinkingInv DEF LinksInv, IInv
  <2>2. LinksInv /\ Next => LinksInv'
    BY <2>1, ScanningInv, LinkedInv, JudgedInv DEF LinksInv
  <2>. QED
    BY <2>2, StutterLinks
<1>. QED
  BY InitLinks, <1>1, PTL DEF Spec

\* dpl_parse_find_task_refstr: the last reference in the name or in the
\* description counts, for texts of any length.
THEOREM ScanIsExact == Spec => []ScanExact
<1>1. ASSUME LinksInv
      PROVE  ScanExact
  <2>. SUFFICES ASSUME pc = "link_work", Clean(curr)
                PROVE  taskid = RefersTo(curr) /\ fix = Closes(curr)
    BY DEF ScanExact
  <2>1. InScan /\ inDesc /\ hash = Len(Text) + 1
    BY <1>1 DEF LinksInv, Scanning, InScan
  <2>2. taskid = RefersTo(curr) /\ (fix <=> Closes(curr))
    BY <1>1, <2>1, ScannedIs DEF LinksInv
  <2>3. fix \in BOOLEAN /\ Closes(curr) \in BOOLEAN
    BY <1>1 DEF LinksInv, IInv, TypeOK, Closes
  <2>. QED
    BY <2>2, <2>3
<1>. QED
  BY LinksInvariance, <1>1, PTL

\* dpl_parse_link_entries: in files of any length every work entry is linked
\* to the first task it refers to that is open above it, and a task is done
\* exactly when a work entry linked to it closes it.
THEOREM LinksAreExact == Spec => []LinksExact
<1>1. ASSUME LinksInv
      PROVE  LinksExact
  <2>. SUFFICES ASSUME pc \in {"sort", "done"}, AllClean,
                       NEW e \in Named
                PROVE  LinkRight(e) /\ DoneRight(e)
    BY DEF LinksExact, AllClean
  <2>1. Finished = Named
    BY <1>1 DEF LinksInv, Linked, Finished, InScan, Passed
  <2>. QED
    BY <1>1, <2>1 DEF LinksInv, Linked, Linkage
<1>. QED
  BY LinksInvariance, <1>1, PTL

\* DPL_WARN and strict mode, for files of any length: a warning is issued for
\* a duplicate task or a conflict of references and for nothing else, strict
\* mode refuses just these files, and both modes refuse a file without a
\* marker at its end.
THEOREM VerdictIsRight == Spec => []Verdict
<1>1. ASSUME LinksInv
      PROVE  Verdict
  <2>. DEFINE suspect == \E e \in Named : Suspect(e)
  <2>. SUFFICES ASSUME AllClean
                PROVE  /\ pc = "done" => ~Unended /\ (suspect <=> warned)
                       /\ pc = "done" /\ strict => ~suspect
                       /\ ret = "ERR_INPUT" => Unended \/ (strict /\ suspect)
    BY DEF Verdict, AllClean, Unended
  <2>1. ASSUME pc = "done"
        PROVE  ~Unended /\ (suspect <=> warned) /\ (strict => ~suspect)
    <3>1. Finished = Named /\ ~InScan
      BY <1>1, <2>1 DEF LinksInv, Linked, Finished, InScan, Passed
    <3>2. SuspectSeen <=> suspect
      BY <3>1 DEF SuspectSeen
    <3>. QED
      BY <1>1, <2>1, <3>2 DEF LinksInv, Judged, Linkage
  <2>. QED
    BY <1>1, <2>1 DEF LinksInv, Judged
<1>. QED
  BY LinksInvariance, <1>1, PTL
=============================================================================
