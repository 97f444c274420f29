------------------------------ MODULE DplList ------------------------------
(***************************************************************************)
(* The singly linked list of src/src/list.c and an iterator over it, at    *)
(* the level of struct pointers.  A node of the list is malloc'ed by a     *)
(* push and freed by a remove or by dpl_list_free; the iterator is a bare  *)
(* pointer to the node it hands out next, so nothing but the discipline of *)
(* the callers keeps it from pointing to freed memory.                     *)
(*                                                                         *)
(* Calls without a loop are one action.  dpl_list_remove and dpl_list_free *)
(* walk the nodes, one action per step of the walk.                        *)
(***************************************************************************)
EXTENDS Lists

CONSTANTS Node,        \* the memory a list node can occupy
          Entry,       \* the entries a caller can put in a list
          NULL,        \* the null pointer
          CallOnEmpty  \* TRUE when callers may remove from an empty list

ASSUME NullAssumption == NULL \notin Node /\ NULL \notin Entry
ASSUME CallOnEmptyAssumption == CallOnEmpty \in BOOLEAN

VARIABLES heap,    \* the struct DplListItem in each node
          alloc,   \* the nodes that are malloc'ed
          first,   \* list->first
          last,    \* list->last
          len,     \* list->len
          live,    \* the caller holds an iterator
          cursor,  \* iter->data of that iterator
          held,    \* the entry it handed out last
          pc,      \* where the running call is
          curr,    \* its local variable curr
          arg,     \* its argument entry
          ret,     \* the return code of the last call
          chain    \* history: the nodes of the list, in order

vars == <<heap, alloc, first, last, len, live, cursor, held, pc, curr, arg,
          ret, chain>>

NodeType == [item : Entry \union {NULL}, next : Node \union {NULL}]

Init == /\ heap = [n \in Node |-> [item |-> NULL, next |-> NULL]]
        /\ alloc = {}
        /\ first = NULL
        /\ last = NULL
        /\ len = 0
        /\ live = FALSE
        /\ cursor = NULL
        /\ held = NULL
        /\ pc = "idle"
        /\ curr = NULL
        /\ arg = NULL
        /\ ret = "OK"
        /\ chain = <<>>

OutOfMemory == /\ pc = "idle"
               /\ ret' = "ERR_MEM"
               /\ UNCHANGED <<heap, alloc, first, last, len, live, cursor,
                              held, pc, curr, arg, chain>>

\* dpl_list_new.
New == /\ pc = "gone"
       /\ first' = NULL
       /\ last' = NULL
       /\ len' = 0
       /\ pc' = "idle"
       /\ ret' = "OK"
       /\ UNCHANGED <<heap, alloc, live, cursor, held, curr, arg, chain>>

\* Mutant of PushNode: the next pointer of the new node keeps what the memory
\* held before.
PushNodeStale(n, entry) ==
    LET new == [item |-> entry, next |-> heap[n].next]
    IN  /\ heap' = IF last = NULL
                   THEN [heap EXCEPT ![n] = new]
                   ELSE [heap EXCEPT ![n] = new, ![last].next = n]
        /\ first' = IF last = NULL THEN n ELSE first
        /\ last' = n
        /\ alloc' = alloc \union {n}
        /\ chain' = Append(chain, n)

\* The struct DplListItem in the node n is filled and becomes the last.
PushNode(n, entry) ==
    LET new == [item |-> entry, next |-> NULL]
    IN  /\ heap' = IF last = NULL
                   THEN [heap EXCEPT ![n] = new]
                   ELSE [heap EXCEPT ![n] = new, ![last].next = n]
        /\ first' = IF last = NULL THEN n ELSE first
        /\ last' = n
        /\ alloc' = alloc \union {n}
        /\ chain' = Append(chain, n)

\* dpl_list_push; malloc returns any free node.
Push == /\ pc = "idle"
        /\ \E n \in Node \ alloc, entry \in Entry : PushNode(n, entry)
        /\ len' = len + 1
        /\ ret' = "OK"
        /\ UNCHANGED <<live, cursor, held, pc, curr, arg>>

\* dpl_list_iter.
Iter == /\ pc = "idle"
        /\ ~live
        /\ live' = TRUE
        /\ cursor' = first
        /\ held' = NULL
        /\ ret' = "OK"
        /\ UNCHANGED <<heap, alloc, first, last, len, pc, curr, arg, chain>>

\* Mutant of Advance: an entry is skipped.
AdvanceTwice == IF heap[cursor].next = NULL THEN NULL
                ELSE heap[heap[cursor].next].next

Advance == heap[cursor].next

\* dpl_list_iter_next_: the cursor moves on when the entry is handed out.
IterNext == /\ pc = "idle"
            /\ live
            /\ cursor # NULL
            /\ held' = heap[cursor].item
            /\ cursor' = Advance
            /\ ret' = "OK"
            /\ UNCHANGED <<heap, alloc, first, last, len, live, pc, curr, arg,
                           chain>>

IterEnd == /\ pc = "idle"
           /\ live
           /\ cursor = NULL
           /\ held' = NULL
           /\ ret' = "ITER_END"
           /\ UNCHANGED <<heap, alloc, first, last, len, live, cursor, pc,
                          curr, arg, chain>>

\* dpl_iter_free.
IterFree == /\ pc = "idle"
            /\ live
            /\ live' = FALSE
            /\ cursor' = NULL
            /\ held' = NULL
            /\ ret' = "OK"
            /\ UNCHANGED <<heap, alloc, first, last, len, pc, curr, arg,
                           chain>>

----------------------------------------------------------------------------
(***************************************************************************)
(* dpl_list_remove.  Both callers, dpl_parse_marker_remove and             *)
(* dpl_parse_link_work, remove the entry an iterator over the same list    *)
(* has just handed out; without an iterator any entry may go.              *)
(***************************************************************************)
\* Mutant of MayRemove: any entry is removed at any time.
MayRemoveAny(entry) == first # NULL

MayRemove(entry) == /\ live => held = entry
                    /\ CallOnEmpty \/ first # NULL

\* Mutants of Unlinked: the node is not freed; the length is not decremented,
\* or decremented twice.
UnlinkedNotFreed(k) == /\ alloc' = alloc
                       /\ chain' = Without(chain, k)
                       /\ len' = len - 1
                       /\ held' = NULL
                       /\ ret' = "OK"
                       /\ UNCHANGED <<live, cursor>>

UnlinkedNotCounted(k) == /\ alloc' = alloc \ {chain[k]}
                         /\ chain' = Without(chain, k)
                         /\ held' = NULL
                         /\ ret' = "OK"
                         /\ UNCHANGED <<len, live, cursor>>

UnlinkedCountedTwice(k) == /\ alloc' = alloc \ {chain[k]}
                           /\ chain' = Without(chain, k)
                           /\ len' = len - 2
                           /\ held' = NULL
                           /\ ret' = "OK"
                           /\ UNCHANGED <<live, cursor>>

\* The k-th node of the list is unlinked and freed.
Unlinked(k) == /\ alloc' = alloc \ {chain[k]}
               /\ chain' = Without(chain, k)
               /\ len' = len - 1
               /\ held' = NULL
               /\ ret' = "OK"
               /\ UNCHANGED <<live, cursor>>

\* Mutant of LastWithout: last is left alone.
LastKept(node, before) == last

\* What list->last is when node is unlinked from behind the node before.
LastWithout(node, before) == IF node = last THEN before ELSE last

\* Special case 1: the entry is in the first node.
RemoveFirst == /\ pc = "idle"
               /\ first # NULL
               /\ \E entry \in Entry : /\ MayRemove(entry)
                                       /\ heap[first].item = entry
               /\ first' = heap[first].next
               /\ last' = LastWithout(first, heap[first].next)
               /\ Unlinked(1)
               /\ UNCHANGED <<heap, pc, curr, arg>>

RemoveCall == /\ pc = "idle"
              /\ \E entry \in Entry :
                    /\ MayRemove(entry)
                    /\ first # NULL => heap[first].item # entry
                    /\ arg' = entry
              /\ curr' = first
              /\ pc' = "scan"
              /\ UNCHANGED <<heap, alloc, first, last, len, live, cursor,
                             held, ret, chain>>

\* The loop reads curr->next before anything has looked at curr.
RemoveCrash == /\ pc = "scan"
               /\ curr = NULL
               /\ pc' = "crashed"
               /\ UNCHANGED <<heap, alloc, first, last, len, live, cursor,
                              held, curr, arg, ret, chain>>

ScanNext == heap[curr].next

\* Mutant of RemoveScan: the walk does not move.
RemoveScanStands == /\ pc = "scan"
                    /\ curr # NULL
                    /\ ScanNext # NULL
                    /\ heap[ScanNext].item # arg
                    /\ UNCHANGED vars

RemoveScan == /\ pc = "scan"
              /\ curr # NULL
              /\ ScanNext # NULL
              /\ heap[ScanNext].item # arg
              /\ curr' = ScanNext
              /\ UNCHANGED <<heap, alloc, first, last, len, live, cursor,
                             held, pc, arg, ret, chain>>

RemoveUnlink == /\ pc = "scan"
                /\ curr # NULL
                /\ ScanNext # NULL
                /\ heap[ScanNext].item = arg
                /\ last' = LastWithout(ScanNext, curr)
                /\ heap' = [heap EXCEPT ![curr].next = heap[ScanNext].next]
                /\ \E k \in DOMAIN chain :
                      chain[k] = ScanNext /\ Unlinked(k)
                /\ pc' = "idle"
                /\ curr' = NULL
                /\ arg' = NULL
                /\ UNCHANGED first

RemoveNotFound == /\ pc = "scan"
                  /\ curr # NULL
                  /\ ScanNext = NULL
                  /\ held' = NULL
                  /\ ret' = "ERR_NOTFOUND"
                  /\ pc' = "idle"
                  /\ curr' = NULL
                  /\ arg' = NULL
                  /\ UNCHANGED <<heap, alloc, first, last, len, live, cursor,
                                 chain>>

----------------------------------------------------------------------------
\* dpl_list_free.
FreeCall == /\ pc = "idle"
            /\ ~live
            /\ curr' = first
            /\ pc' = "freeing"
            /\ UNCHANGED <<heap, alloc, first, last, len, live, cursor, held,
                           arg, ret, chain>>

FreeNode == /\ pc = "freeing"
            /\ curr # NULL
            /\ curr' = heap[curr].next
            /\ alloc' = alloc \ {curr}
            /\ chain' = Without(chain, 1)
            /\ UNCHANGED <<heap, first, last, len, live, cursor, held, pc,
                           arg, ret>>

FreeDone == /\ pc = "freeing"
            /\ curr = NULL
            /\ pc' = "gone"
            /\ UNCHANGED <<heap, alloc, first, last, len, live, cursor, held,
                           curr, arg, ret, chain>>

\* The steps of a call that is running.
Step == \/ RemoveCrash
        \/ RemoveScan
        \/ RemoveUnlink
        \/ RemoveNotFound
        \/ FreeNode
        \/ FreeDone

Next == \/ OutOfMemory
        \/ New
        \/ Push
        \/ Iter
        \/ IterNext
        \/ IterEnd
        \/ IterFree
        \/ RemoveFirst
        \/ RemoveCall
        \/ FreeCall
        \/ Step

\* A call, once made, runs to its end.
Fairness == WF_vars(Step)

Spec == Init /\ [][Next]_vars /\ Fairness

----------------------------------------------------------------------------
TypeOK == /\ heap \in [Node -> NodeType]
          /\ alloc \subseteq Node
          /\ first \in Node \union {NULL}
          /\ last \in Node \union {NULL}
          /\ len \in Nat
          /\ live \in BOOLEAN
          /\ cursor \in Node \union {NULL}
          /\ held \in Entry \union {NULL}
          /\ pc \in {"idle", "scan", "crashed", "freeing", "gone"}
          /\ curr \in Node \union {NULL}
          /\ arg \in Entry \union {NULL}
          /\ ret \in {"OK", "ERR_MEM", "ERR_NOTFOUND", "ITER_END"}
          /\ chain \in Seq(Node)

\* The next pointers of the nodes of the list lead from each to the one after
\* it and from the last to NULL, no node twice: list.c never ties a cycle,
\* drops a tail or reaches freed memory through a next pointer.
Linked == /\ \A i \in 1..Len(chain) : chain[i] \in alloc
          /\ \A i, j \in 1..Len(chain) : chain[i] = chain[j] => i = j
          /\ \A i \in 1..Len(chain) :
                heap[chain[i]].next =
                    IF i < Len(chain) THEN chain[i + 1] ELSE NULL

\* first and last are the ends of the chain of nodes and len counts it, after
\* every push and remove, the special case of the first node included.
EndsMatch ==
    pc \in {"idle", "scan", "crashed"} =>
        /\ len = Len(chain)
        /\ first = IF chain = <<>> THEN NULL ELSE chain[1]
        /\ last = IF chain = <<>> THEN NULL ELSE chain[Len(chain)]

\* Every malloc'ed node is in the list: a remove frees the node it unlinks and
\* dpl_list_free leaves none behind.
NoLeak == /\ alloc \subseteq {chain[i] : i \in 1..Len(chain)}
          /\ pc = "gone" => alloc = {}

\* Neither the iterator nor the running call holds a pointer to freed memory,
\* though entries are removed while the iterator is out.
NoDangling == /\ cursor \in alloc \union {NULL}
              /\ curr \in alloc \union {NULL}

\* The entries found by following the next pointers from a node, for one step
\* more than a walk over the list takes.
EntriesFrom(node) ==
    LET Steps == 1..(Len(chain) + 1)
        at[k \in Steps] == IF k = 1 THEN node
                           ELSE IF at[k - 1] = NULL THEN NULL
                           ELSE heap[at[k - 1]].next
    IN  [k \in {k \in Steps : at[k] # NULL} |-> heap[at[k]].item]

ToCome == EntriesFrom(cursor)

\* A step that leaves the iterator alone, in particular a remove of the entry
\* it has just handed out, changes nothing of what it has still to hand out;
\* a push adds at the end unless the iterator is exhausted.
IterationStable ==
    [][live /\ live' =>
        \/ ToCome' = ToCome
        \/ ToCome # <<>> /\ (\/ ToCome' = Tail(ToCome) /\ held' = Head(ToCome)
                             \/ \E entry \in Entry :
                                    ToCome' = Append(ToCome, entry))]_vars

Exists == pc \in {"idle", "scan", "crashed"}
Abstract == INSTANCE ListADT WITH
    NoEntry <- NULL,
    exists  <- Exists,
    list    <- IF Exists THEN EntriesFrom(first) ELSE <<>>,
    pos     <- IF cursor = NULL THEN 0
               ELSE Len(EntriesFrom(first)) - Len(ToCome) + 1

\* What is found by following the pointers behaves as the sequence of entries
\* list.h describes, and the cursor as a position in it.
ImplementsADT == Abstract!Spec

\* Every call of list.c returns, a remove from an empty list aside: the walks
\* of dpl_list_remove and dpl_list_free end.
CallsReturn ==
    pc = "freeing" \/ (pc = "scan" /\ first # NULL) ~> pc \in {"idle", "gone"}

\* list.h:63-72 knows two outcomes of dpl_list_remove, DPL_OK and
\* DPL_ERR_NOT_FOUND, and makes no exception of the empty list.
RemoveReturns == pc # "crashed"
=============================================================================
