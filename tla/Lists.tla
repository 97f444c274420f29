------------------------------- MODULE Lists -------------------------------
(***************************************************************************)
(* What the operations of src/src/list.c mean on a sequence of entries,    *)
(* and what its iterators mean on positions of that sequence.  A position  *)
(* is the index of the entry the iterator hands out next; 0 is the         *)
(* exhausted iterator (iter->data is NULL).                                *)
(***************************************************************************)
EXTENDS Integers, Sequences, FiniteSets

\* dpl_list_iter: a new iterator stands on the first entry, if there is one.
FirstPos(list) == IF list = <<>> THEN 0 ELSE 1

\* Mutant of NextPos: the iterator stays on the last entry.
NextPosStays(list, pos) == IF pos < Len(list) THEN pos + 1 ELSE pos

\* dpl_list_iter_next_: the cursor moves to the next pointer as it was when
\* the entry was fetched.  At the last entry that pointer is NULL for good.
NextPos(list, pos) == IF pos < Len(list) THEN pos + 1 ELSE 0

\* k is the index of the first occurrence of entry.
IsFirstOccurrence(list, entry, k) ==
    /\ k \in 1..Len(list)
    /\ list[k] = entry
    /\ \A i \in 1..(k - 1) : list[i] # entry

\* Mutants of Without: the entry behind the k-th goes; the list is not changed.
WithoutNext(list, k) ==
    [i \in 1..(Len(list) - 1) |-> IF i <= k THEN list[i] ELSE list[i + 1]]
WithoutNothing(list, k) == list

\* The list without its k-th entry.
Without(list, k) ==
    [i \in 1..(Len(list) - 1) |-> IF i < k THEN list[i] ELSE list[i + 1]]

\* Mutant of ShiftPos: the iterator counts on as if nothing had been removed.
ShiftPosNever(pos, k) == pos

\* Where an iterator stands after the entry at k, which it has passed, left
\* the list: on the same entry as before.
ShiftPos(pos, k) == IF pos > k THEN pos - 1 ELSE pos

\* The order of dpl_list_sort: by begin time, and entries that begin together
\* by their names, which are their places in the unsorted list.
Before(begin, e, f) == begin[e] < begin[f] \/ (begin[e] = begin[f] /\ e < f)

\* list holds each of the entries once, in that order.
IsSorted(list, begin, entries) ==
    /\ entries = {list[i] : i \in 1..Len(list)}
    /\ \A i, j \in 1..Len(list) : i < j => Before(begin, list[i], list[j])
=============================================================================
