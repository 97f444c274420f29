------------------------------ MODULE Groups -------------------------------
(***************************************************************************)
(* src/src/group.c: entries are put into groups by name, by day or by      *)
(* category, in a list of groups linked by next pointers and kept in the   *)
(* order of their names.  The search through the list and the search for   *)
(* the place of a new group are recursive calls down the list: one action  *)
(* per call.  At the end, or after an error, the caller frees the groups.  *)
(***************************************************************************)
EXTENDS Integers, Sequences

CONSTANTS Name,   \* the strings entries are grouped by
          Slash,  \* the character '/'
          MaxLen  \* bound: the number of entries

\* A string is a sequence of characters, in the order of strcmp.  An entry
\* without a name or category is grouped by "".
ASSUME NameAssumption == Name \subseteq Seq(Nat)
ASSUME SlashAssumption == Slash \in Nat
ASSUME MaxLenAssumption == MaxLen \in Nat

Kind == {"NAME", "DAY", "CATEGORY"}

\* A group is named by its place in the order of creation; 0 is the null
\* pointer.
GroupType == [name : Seq(Nat), next : Nat, entries : Seq(Nat)]

VARIABLES input,   \* what the iterator returns, each entry as its string
          kind,    \* options.group_by
          groups,  \* the groups ever created
          first,   \* *first
          at,      \* the number of entries read
          name,    \* the argument name of the calls, or catpart
          here,    \* the argument first of the recursive calls
          buffer,  \* catpart is allocated
          lost,    \* history: groups that were created but not linked
          freed,   \* the groups that were freed
          pc,
          ret

vars == <<input, kind, groups, first, at, name, here, buffer, lost, freed, pc,
          ret>>

Group == 1..Len(groups)
Linked == Group \ (lost \union freed)

Init == /\ input \in UNION {[1..n -> Name] : n \in 0..MaxLen}
        /\ kind \in Kind
        /\ groups = <<>>
        /\ first = 0
        /\ at = 0
        /\ name = <<>>
        /\ here = 0
        /\ buffer = FALSE
        /\ lost = {}
        /\ freed = {}
        /\ pc = "loop"
        /\ ret = "OK"

Fail(code) == pc' = "free" /\ ret' = code

\* strcmp (s, t) < 0
Less(s, t) ==
    \E k \in 1..Len(t) : /\ \A i \in 1..(k - 1) : i <= Len(s) /\ s[i] = t[i]
                         /\ k <= Len(s) => s[k] < t[k]

----------------------------------------------------------------------------
(* dpl_group_by_name, dpl_group_by_day, dpl_group_by_category *)

\* A day that strftime does not write as ten characters stands as "".
NextEntry == /\ pc = "loop"
             /\ at < Len(input)
             /\ at' = at + 1
             /\ IF kind = "DAY" /\ input[at'] = <<>>
                THEN Fail("ERR_SYS") /\ UNCHANGED <<name, here>>
                ELSE /\ name' = input[at']
                     /\ here' = first
                     /\ pc' = "find"
                     /\ UNCHANGED ret
             /\ UNCHANGED <<input, kind, groups, first, buffer, lost, freed>>

\* After the last entry the groups go to the caller, who frees them.
LastEntry == /\ pc = "loop"
             /\ at = Len(input)
             /\ buffer' = FALSE
             /\ pc' = "free"
             /\ UNCHANGED <<input, kind, groups, first, at, name, here, lost,
                            freed, ret>>

\* Mutant of IsCut: the string is cut at its first slash.
IsCutFirst(p) == /\ p \in 2..Len(name)
                 /\ name[p] = Slash
                 /\ \A q \in 2..(p - 1) : name[q] # Slash

\* The walk from the end of catpart meets the slash at p next.  It stops in
\* front of the first character, so a leading slash is none.
IsCut(p) == /\ p \in 2..Len(name)
            /\ name[p] = Slash
            /\ \A q \in (p + 1)..Len(name) : name[q] # Slash

\* The next super-category of the entry.
Cut == /\ pc = "cut"
       /\ buffer' = TRUE
       /\ \E p \in 2..Len(name) : IsCut(p) /\ name' = SubSeq(name, 1, p - 1)
       /\ here' = first
       /\ pc' = "find"
       /\ UNCHANGED <<input, kind, groups, first, at, lost, freed, ret>>

NoCut == /\ pc = "cut"
         /\ buffer' = TRUE
         /\ \A p \in 2..Len(name) : ~IsCut(p)
         /\ pc' = "loop"
         /\ UNCHANGED <<input, kind, groups, first, at, name, here, lost,
                        freed, ret>>

\* DPL_STRCPY (catpart, cat, catpart_size), the first time.
CutFails == /\ pc = "cut"
            /\ ~buffer
            /\ Fail("ERR_MEM")
            /\ UNCHANGED <<input, kind, groups, first, at, name, here, buffer,
                           lost, freed>>

----------------------------------------------------------------------------
(* _dpl_group_find: the list is sorted, so the search may stop early. *)

Found == /\ pc = "find"
         /\ here # 0
         /\ name = groups[here].name
         /\ pc' = "push"
         /\ UNCHANGED <<input, kind, groups, first, at, name, here, buffer,
                        lost, freed, ret>>

FindNext == /\ pc = "find"
            /\ here # 0
            /\ Less(groups[here].name, name)
            /\ groups[here].next # 0
            /\ here' = groups[here].next
            /\ UNCHANGED <<input, kind, groups, first, at, name, buffer, lost,
                           freed, pc, ret>>

\* Mutant of NotFound: the caller does not look at what the search returned.
NotFoundIgnored ==
    /\ pc = "find"
    /\ here # 0 => \/ Less(name, groups[here].name)
                   \/ /\ Less(groups[here].name, name)
                      /\ groups[here].next = 0
    /\ here' = 0
    /\ pc' = "push"
    /\ UNCHANGED <<input, kind, groups, first, at, name, buffer, lost, freed,
                   ret>>

NotFound == /\ pc = "find"
            /\ here # 0 => \/ Less(name, groups[here].name)
                           \/ /\ Less(groups[here].name, name)
                              /\ groups[here].next = 0
            /\ here' = 0
            /\ pc' = "add"
            /\ UNCHANGED <<input, kind, groups, first, at, name, buffer, lost,
                           freed, ret>>

----------------------------------------------------------------------------
(* _dpl_group_add: here is the group whose next pointer is the argument, 0 *)
(* when the argument is the pointer to the first group.                    *)

Slot == IF here = 0 THEN first ELSE groups[here].next

Precedes == Slot # 0 => Less(name, groups[Slot].name)

AddNext == /\ pc = "add"
           /\ ~Precedes
           /\ here' = Slot
           /\ UNCHANGED <<input, kind, groups, first, at, name, buffer, lost,
                          freed, pc, ret>>

\* Mutant of Insert: the new group does not take over its successor.
InsertLast(g) ==
    LET created == Append(groups, [name |-> name, next |-> 0,
                                   entries |-> <<>>])
    IN  IF here = 0
        THEN first' = g /\ groups' = created
        ELSE groups' = [created EXCEPT ![here].next = g] /\ UNCHANGED first

Insert(g) ==
    LET created == Append(groups, [name |-> name, next |-> Slot,
                                   entries |-> <<>>])
    IN  IF here = 0
        THEN first' = g /\ groups' = created
        ELSE groups' = [created EXCEPT ![here].next = g] /\ UNCHANGED first

Add == /\ pc = "add"
       /\ Precedes
       /\ Insert(Len(groups) + 1)
       /\ here' = Len(groups) + 1
       /\ pc' = "push"
       /\ UNCHANGED <<input, kind, at, name, buffer, lost, freed, ret>>

\* dpl_group_new fails: with nothing allocated, or with the group allocated
\* but not its list or its name, and then nobody frees it.
AddFails ==
    /\ pc = "add"
    /\ Precedes
    /\ \/ UNCHANGED <<groups, lost>>
       \/ /\ groups' = Append(groups, [name |-> <<>>, next |-> 0,
                                       entries |-> <<>>])
          /\ lost' = lost \union {Len(groups) + 1}
    /\ Fail("ERR_MEM")
    /\ UNCHANGED <<input, kind, first, at, name, here, buffer, freed>>

\* dpl_list_push (found->entries, entry)
Push == /\ pc = "push"
        /\ groups' = [groups EXCEPT ![here].entries = Append(@, at)]
        /\ pc' = IF kind = "CATEGORY" THEN "cut" ELSE "loop"
        /\ UNCHANGED <<input, kind, first, at, name, here, buffer, lost,
                       freed, ret>>

PushFails == /\ pc = "push"
             /\ Fail("ERR_MEM")
             /\ UNCHANGED <<input, kind, groups, first, at, name, here, buffer,
                            lost, freed>>

----------------------------------------------------------------------------
(* dpl_group_free: the call for a group frees it when the call for the     *)
(* group behind it has returned.                                           *)

\* Mutant of Frees: a group is freed without those behind it.
FreesAlone(g) == g = first

Frees(g) == /\ g \in Linked
            /\ groups[g].next = 0 \/ groups[g].next \in freed

FreeGroup == /\ pc = "free"
             /\ \E g \in Group \ freed : Frees(g) /\ freed' = freed \union {g}
             /\ UNCHANGED <<input, kind, groups, first, at, name, here, buffer,
                            lost, pc, ret>>

FreeDone == /\ pc = "free"
            /\ first = 0 \/ first \in freed
            /\ pc' = "done"
            /\ UNCHANGED <<input, kind, groups, first, at, name, here, buffer,
                           lost, freed, ret>>

GroupBy == NextEntry \/ LastEntry \/ Cut \/ NoCut \/ CutFails
Find == Found \/ FindNext \/ NotFound
AddForName == AddNext \/ Add \/ AddFails \/ Push \/ PushFails
Free == FreeGroup \/ FreeDone

Next == GroupBy \/ Find \/ AddForName \/ Free

Spec == Init /\ [][Next]_vars

----------------------------------------------------------------------------
TypeOK == /\ input \in Seq(Name)
          /\ kind \in Kind
          /\ groups \in Seq(GroupType)
          /\ first \in 0..Len(groups)
          /\ at \in 0..Len(input)
          /\ name \in Seq(Nat)
          /\ here \in 0..Len(groups)
          /\ buffer \in BOOLEAN
          /\ lost \subseteq Group
          /\ freed \subseteq Group
          /\ pc \in {"loop", "find", "add", "push", "cut", "free", "done"}
          /\ pc = "push" => here # 0
          /\ ret \in {"OK", "ERR_MEM", "ERR_SYS"}

\* The groups lie on one path from *first, by strictly ascending names: no
\* name has two groups, and the search that stops early and the search for the
\* place of a new group read a list as sorted as they assume.
GroupsSorted ==
    pc \notin {"free", "done"} =>
        /\ first = 0 <=> Linked = {}
        /\ first # 0 => first \in Linked
        /\ \A g \in Linked :
              groups[g].next # 0 =>
                  /\ groups[g].next \in Linked
                  /\ Less(groups[g].name, groups[groups[g].next].name)
        /\ \A g \in Linked \ {first} : \E p \in Linked : groups[p].next = g

\* The names of the groups an entry belongs to: its own string and, for
\* categories, what is in front of each slash but a leading one.
KeysOf(string) ==
    {string} \union
        IF kind = "CATEGORY"
        THEN {SubSeq(string, 1, p - 1) :
                  p \in {q \in 2..Len(string) : string[q] = Slash}}
        ELSE {}

\* Between two entries each group holds, in the order they were read and once
\* each, the entries that belong to it, and every group that has an entry is
\* there.
GroupsExact ==
    pc = "loop" =>
        /\ {groups[g].name : g \in Linked} =
              UNION {KeysOf(input[e]) : e \in 1..at}
        /\ \A g \in Linked :
              LET held == groups[g].entries
              IN  /\ {held[i] : i \in 1..Len(held)} =
                        {e \in 1..at : groups[g].name \in KeysOf(input[e])}
                  /\ \A i, j \in 1..Len(held) : i < j => held[i] < held[j]

\* Freeing the first group frees them all, whatever failed before; what is
\* left behind is what the failed allocation itself left.
GroupsFreed ==
    pc = "done" =>
        /\ Linked = {}
        /\ ret = "OK" => lost = {} /\ ~buffer
=============================================================================
