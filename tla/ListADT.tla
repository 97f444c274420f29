------------------------------ MODULE ListADT ------------------------------
(***************************************************************************)
(* What src/inc/dpl/list.h promises of a list and of the one iterator a    *)
(* caller holds over it: a sequence of entries, and a position in it.      *)
(* DplList, the pointer structure of src/src/list.c, implements it.        *)
(***************************************************************************)
EXTENDS Lists

CONSTANTS Entry,   \* the entries a caller can put in a list
          NoEntry  \* the null entry pointer

VARIABLES exists,  \* the list is allocated
          list,    \* its entries, in order
          live,    \* the caller holds an iterator
          pos,     \* the position of that iterator
          held,    \* the entry it handed out last
          ret      \* the return code of the last call

vars == <<exists, list, live, pos, held, ret>>

Init == /\ exists = TRUE
        /\ list = <<>>
        /\ live = FALSE
        /\ pos = 0
        /\ held = NoEntry
        /\ ret = "OK"

\* Every call that allocates may fail, and then changes nothing.
OutOfMemory == /\ exists
               /\ ret' = "ERR_MEM"
               /\ UNCHANGED <<exists, list, live, pos, held>>

New == /\ ~exists
       /\ exists' = TRUE
       /\ list' = <<>>
       /\ ret' = "OK"
       /\ UNCHANGED <<live, pos, held>>

Free == /\ exists
        /\ ~live
        /\ exists' = FALSE
        /\ list' = <<>>
        /\ UNCHANGED <<live, pos, held, ret>>

Push == /\ exists
        /\ \E entry \in Entry : list' = Append(list, entry)
        /\ ret' = "OK"
        /\ UNCHANGED <<exists, live, pos, held>>

\* While an iterator is out, only the entry it handed out last is removed.
MayRemove(entry) == live => held = entry

Remove == /\ exists
          /\ \E entry \in Entry, k \in 1..Len(list) :
                /\ MayRemove(entry)
                /\ IsFirstOccurrence(list, entry, k)
                /\ list' = Without(list, k)
                /\ pos' = ShiftPos(pos, k)
          /\ held' = NoEntry
          /\ ret' = "OK"
          /\ UNCHANGED <<exists, live>>

RemoveNotFound == /\ exists
                  /\ \E entry \in Entry :
                        /\ MayRemove(entry)
                        /\ \A i \in 1..Len(list) : list[i] # entry
                  /\ held' = NoEntry
                  /\ ret' = "ERR_NOTFOUND"
                  /\ UNCHANGED <<exists, list, live, pos>>

Iter == /\ exists
        /\ ~live
        /\ live' = TRUE
        /\ pos' = FirstPos(list)
        /\ held' = NoEntry
        /\ ret' = "OK"
        /\ UNCHANGED <<exists, list>>

IterNext == /\ live
            /\ pos # 0
            /\ held' = list[pos]
            /\ pos' = NextPos(list, pos)
            /\ ret' = "OK"
            /\ UNCHANGED <<exists, list, live>>

IterEnd == /\ live
           /\ pos = 0
           /\ held' = NoEntry
           /\ ret' = "ITER_END"
           /\ UNCHANGED <<exists, list, live, pos>>

IterFree == /\ live
            /\ live' = FALSE
            /\ pos' = 0
            /\ held' = NoEntry
            /\ ret' = "OK"
            /\ UNCHANGED <<exists, list>>

Next == \/ OutOfMemory
        \/ New
        \/ Free
        \/ Push
        \/ Remove
        \/ RemoveNotFound
        \/ Iter
        \/ IterNext
        \/ IterEnd
        \/ IterFree

Spec == Init /\ [][Next]_vars
=============================================================================
