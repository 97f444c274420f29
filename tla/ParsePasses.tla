---------------------------- MODULE ParsePasses ----------------------------
(***************************************************************************)
(* What dpl_parse in src/src/parser.y does once the grammar has turned a   *)
(* file into the list ctx.entries: set the end times of work entries,      *)
(* remove the end markers, link work entries to the tasks their text       *)
(* refers to, sort.  Each pass is a loop over an iterator, one action per  *)
(* turn of the loop; two of the passes remove entries from the list they   *)
(* iterate over.  An entry is named by its place in the file.              *)
(***************************************************************************)
EXTENDS Lists

CONSTANTS Shape,    \* the entries the grammar can produce
          MaxLen,   \* bound: the number of entries of a file
          Garbage,  \* what an uninitialized task id may hold
          NULL      \* the null pointer, and an uninitialized variable

ASSUME MaxLenAssumption == MaxLen \in Nat
ASSUME GarbageAssumption == Garbage \subseteq Nat
ASSUME NullAssumption == NULL \notin Nat

(***************************************************************************)
(* A text (the name or the description of an entry) is kept as its         *)
(* sequence of '#' characters: what sscanf ("#%u") makes of each, and the  *)
(* string of fixstrs, if any, that ends the text in front of it.           *)
(***************************************************************************)
FixStrings == {"Fixes", "fixes", "Fix", "fix", "Closes", "closes"}

Hash == [kind : {"number", "word", "end"}, num : Nat, word : STRING]

\* The entries of the grammar.  A work entry without a name is an end marker;
\* a task always has a name and an id other than 0.
EntryType == [type : {"WORK", "TASK"}, named : BOOLEAN, id : Nat,
              begin : Int, name : Seq(Hash), desc : Seq(Hash)]

ASSUME ShapeAssumption ==
    \A shape \in Shape :
        /\ shape \in EntryType
        /\ shape.type = "TASK" => shape.named /\ shape.id # 0
        /\ ~shape.named => shape.name = <<>> /\ shape.desc = <<>>

VARIABLES doc,      \* the entries as the grammar left them, never changed
          strict,   \* ctx->strict
          entries,  \* ctx->entries
          end,      \* ext.work.end of each entry
          link,     \* ext.work.task of each entry
          done,     \* ext.task.done of each entry
          freed,    \* the entries that were freed
          pc,       \* where dpl_parse is
          pos,      \* the iterator over ctx->entries
          curr,     \* the local variable curr, or entry
          open,     \* tasks_open
          inDesc,   \* the description is being scanned, not the name
          hash,     \* hashpos, as an index of the text's '#' characters
          id,       \* the local variable id of dpl_parse_find_task_refstr
          taskid,   \* *taskid
          fix,      \* *done
          warned,   \* history: a warning was issued
          ret       \* what dpl_parse returns

fields == <<end, link, done, freed>>
scan == <<inDesc, hash, id, taskid, fix>>
vars == <<doc, strict, entries, fields, pc, pos, curr, open, scan, warned,
          ret>>

Entry == DOMAIN doc
IsWork(e) == doc[e].type = "WORK"
IsTask(e) == doc[e].type = "TASK"

Init == /\ doc \in UNION {[1..n -> Shape] : n \in 0..MaxLen}
        /\ strict \in BOOLEAN
        /\ entries = [e \in Entry |-> e]
        /\ end = [e \in Entry |-> 0]
        /\ link = [e \in Entry |-> NULL]
        /\ done = [e \in Entry |-> FALSE]
        /\ freed = {}
        /\ pc = "end_set"
        /\ pos = 0
        /\ curr = NULL
        /\ open = <<>>
        /\ inDesc = FALSE
        /\ hash = 1
        /\ id = NULL
        /\ taskid = 0
        /\ fix = FALSE
        /\ warned = FALSE
        /\ ret = "OK"

Fail(code) == pc' = "error" /\ ret' = code

\* DPL_WARN: a message, and in strict mode the end of the parse.
Warn == /\ warned' = TRUE
        /\ IF strict THEN Fail("ERR_INPUT") ELSE UNCHANGED <<pc, ret>>

----------------------------------------------------------------------------
(* dpl_parse_end_set *)

EndSetEmpty == /\ pc = "end_set"
               /\ entries = <<>>
               /\ pc' = "marker_remove"
               /\ UNCHANGED <<doc, strict, entries, fields, pos, curr, open,
                              scan, warned, ret>>

EndSetFirst == /\ pc = "end_set"
               /\ entries # <<>>
               /\ curr' = entries[1]
               /\ pos' = NextPos(entries, 1)
               /\ pc' = "end_loop"
               /\ UNCHANGED <<doc, strict, entries, fields, open, scan,
                              warned, ret>>

\* Mutant of EndTime: the entry's own begin time.
EndTimeOwn(e, next) == doc[e].begin

EndTime(e, next) == doc[next].begin

EndSetNext == /\ pc = "end_loop"
              /\ pos # 0
              /\ end' = IF IsWork(curr)
                        THEN [end EXCEPT ![curr] = EndTime(curr, entries[pos])]
                        ELSE end
              /\ curr' = entries[pos]
              /\ pos' = NextPos(entries, pos)
              /\ UNCHANGED <<doc, strict, entries, link, done, freed, pc,
                             open, scan, warned, ret>>

\* The last entry has to be an end marker.
EndSetLast == /\ pc = "end_loop"
              /\ pos = 0
              /\ IF doc[curr].named
                 THEN Fail("ERR_INPUT")
                 ELSE pc' = "marker_remove" /\ UNCHANGED ret
              /\ UNCHANGED <<doc, strict, entries, fields, pos, curr, open,
                             scan, warned>>

----------------------------------------------------------------------------
(* dpl_parse_marker_remove *)

MarkerFirst == /\ pc = "marker_remove"
               /\ pos' = FirstPos(entries)
               /\ pc' = "marker_loop"
               /\ UNCHANGED <<doc, strict, entries, fields, curr, open, scan,
                              warned, ret>>

\* The entry under the iterator is taken out of the list, once the iterator
\* has moved past it, and freed.
MarkerRemove == /\ pc = "marker_loop"
                /\ pos # 0
                /\ ~doc[entries[pos]].named
                /\ curr' = entries[pos]
                /\ entries' = Without(entries, pos)
                /\ pos' = ShiftPos(NextPos(entries, pos), pos)
                /\ freed' = freed \union {curr'}
                /\ UNCHANGED <<doc, strict, end, link, done, pc, open, scan,
                               warned, ret>>

MarkerSkip == /\ pc = "marker_loop"
              /\ pos # 0
              /\ doc[entries[pos]].named
              /\ curr' = entries[pos]
              /\ pos' = NextPos(entries, pos)
              /\ UNCHANGED <<doc, strict, entries, fields, pc, open, scan,
                             warned, ret>>

MarkerEnd == /\ pc = "marker_loop"
             /\ pos = 0
             /\ curr' = NULL
             /\ pc' = "link_entries"
             /\ UNCHANGED <<doc, strict, entries, fields, pos, open, scan,
                            warned, ret>>

----------------------------------------------------------------------------
(* dpl_parse_link_entries *)

LinkFirst == /\ pc = "link_entries"
             /\ open' = <<>>
             /\ pos' = FirstPos(entries)
             /\ pc' = "link_loop"
             /\ UNCHANGED <<doc, strict, entries, fields, curr, scan, warned,
                            ret>>

\* Mutant of HasOpenDuplicate: only the task declared last is compared.
LastIsDuplicate(task) ==
    open # <<>> /\ doc[open[Len(open)]].id = doc[task].id

HasOpenDuplicate(task) ==
    \E i \in 1..Len(open) : doc[open[i]].id = doc[task].id

\* dpl_parse_link_check_duptask: the task joins tasks_open, duplicate or not,
\* unless strict mode returned before the push.
LinkTask == /\ pc = "link_loop"
            /\ pos # 0
            /\ IsTask(entries[pos])
            /\ curr' = entries[pos]
            /\ pos' = NextPos(entries, pos)
            /\ \/ /\ ~HasOpenDuplicate(entries[pos])
                  /\ open' = Append(open, entries[pos])
                  /\ UNCHANGED <<pc, warned, ret>>
               \/ /\ HasOpenDuplicate(entries[pos])
                  /\ Warn
                  /\ open' = IF strict THEN open
                             ELSE Append(open, entries[pos])
            /\ UNCHANGED <<doc, strict, entries, fields, scan>>

\* dpl_parse_link_work calls dpl_parse_link_parse_work, which scans the name.
LinkWork == /\ pc = "link_loop"
            /\ pos # 0
            /\ IsWork(entries[pos])
            /\ curr' = entries[pos]
            /\ pos' = NextPos(entries, pos)
            /\ inDesc' = FALSE
            /\ hash' = 1
            /\ id' = NULL
            /\ taskid' = 0
            /\ fix' = FALSE
            /\ pc' = "scan"
            /\ UNCHANGED <<doc, strict, entries, fields, open, warned, ret>>

LinkEnd == /\ pc = "link_loop"
           /\ pos = 0
           /\ open' = <<>>
           /\ pc' = "sort"
           /\ UNCHANGED <<doc, strict, entries, fields, pos, curr, scan,
                          warned, ret>>

Text == IF inDesc THEN doc[curr].desc ELSE doc[curr].name

\* What is in id after sscanf.  At the end of the text sscanf returns EOF, as
\* true as a match, and stores nothing: id is that of the '#' before, or was
\* never set.
Scanned(h) == CASE h.kind = "number"           -> {h.num}
                [] h.kind = "end" /\ id # NULL -> {id}
                [] h.kind = "end" /\ id = NULL -> Garbage

\* Mutant of Closing: a closing word counts for the references behind it.
ClosingSticky(h) == fix \/ h.word \in FixStrings

Closing(h) == h.word \in FixStrings

\* One turn of the loop of dpl_parse_find_task_refstr, at a '#' that sscanf
\* takes for an id.
ScanId == /\ pc = "scan"
          /\ hash <= Len(Text)
          /\ Text[hash].kind # "word"
          /\ \E found \in Scanned(Text[hash]) :
                LET conflict == taskid # 0 /\ taskid # found
                IN  /\ id' = found
                    /\ IF conflict THEN Warn ELSE UNCHANGED <<pc, warned, ret>>
                    /\ IF conflict /\ strict
                       THEN UNCHANGED <<taskid, fix, hash>>
                       ELSE /\ taskid' = found
                            /\ fix' = Closing(Text[hash])
                            /\ hash' = hash + 1
          /\ UNCHANGED <<doc, strict, entries, fields, pos, curr, open,
                         inDesc>>

\* A '#' with something else behind it.
ScanSkip == /\ pc = "scan"
            /\ hash <= Len(Text)
            /\ Text[hash].kind = "word"
            /\ hash' = hash + 1
            /\ UNCHANGED <<doc, strict, entries, fields, pc, pos, curr, open,
                           inDesc, id, taskid, fix, warned, ret>>

\* The description is scanned by a call of its own, with an id of its own but
\* with *taskid and *done as the name left them.
ScanDesc == /\ pc = "scan"
            /\ hash > Len(Text)
            /\ ~inDesc
            /\ inDesc' = TRUE
            /\ hash' = 1
            /\ id' = NULL
            /\ UNCHANGED <<doc, strict, entries, fields, pc, pos, curr, open,
                           taskid, fix, warned, ret>>

ScanEnd == /\ pc = "scan"
           /\ hash > Len(Text)
           /\ inDesc
           /\ pc' = IF taskid = 0 THEN "link_loop" ELSE "link_work"
           /\ UNCHANGED <<doc, strict, entries, fields, pos, curr, open, scan,
                          warned, ret>>

\* Mutant of Referenced: the last of the open tasks with that id.
ReferencedLast(k) == /\ k \in 1..Len(open)
                     /\ doc[open[k]].id = taskid
                     /\ \A i \in (k + 1)..Len(open) : doc[open[i]].id # taskid

\* The k-th open task is the first with the id the work refers to.
Referenced(k) == /\ k \in 1..Len(open)
                 /\ doc[open[k]].id = taskid
                 /\ \A i \in 1..(k - 1) : doc[open[i]].id # taskid

\* Mutant of Close: the task stays in tasks_open.
CloseKeeps(k) == /\ done' = [done EXCEPT ![open[k]] = TRUE]
                 /\ UNCHANGED open

Close(k) == /\ done' = [done EXCEPT ![open[k]] = TRUE]
            /\ open' = Without(open, k)

\* The loop of dpl_parse_link_work over the open tasks, up to its break.
LinkFound == /\ pc = "link_work"
             /\ \E k \in 1..Len(open) :
                    /\ Referenced(k)
                    /\ link' = [link EXCEPT ![curr] = open[k]]
                    /\ IF fix THEN Close(k) ELSE UNCHANGED <<done, open>>
             /\ pc' = "link_loop"
             /\ UNCHANGED <<doc, strict, entries, end, freed, pos, curr, scan,
                            warned, ret>>

LinkNotFound == /\ pc = "link_work"
                /\ \A k \in 1..Len(open) : ~Referenced(k)
                /\ pc' = "link_loop"
                /\ UNCHANGED <<doc, strict, entries, fields, pos, curr, open,
                               scan, warned, ret>>

----------------------------------------------------------------------------
(***************************************************************************)
(* dpl_list_sort, a stable sort by begin time.  DplSort models the         *)
(* quicksort itself and shows it to compute the same list.                 *)
(***************************************************************************)
Begin == [e \in Entry |-> doc[e].begin]

Listed == {entries[i] : i \in 1..Len(entries)}

Sort == /\ pc = "sort"
        /\ \E sorted \in [1..Len(entries) -> Listed] :
               IsSorted(sorted, Begin, Listed) /\ entries' = sorted
        /\ pc' = "done"
        /\ UNCHANGED <<doc, strict, fields, pos, curr, open, scan, warned,
                       ret>>

\* An iterator, tasks_open or one of its nodes cannot be allocated.
OutOfMemory ==
    /\ \/ pc \in {"end_set", "marker_remove", "link_entries", "link_work"}
       \/ pc = "link_loop" /\ pos # 0 /\ IsTask(entries[pos])
    /\ Fail("ERR_MEM")
    /\ UNCHANGED <<doc, strict, entries, fields, pos, curr, open, scan,
                   warned>>

EndSet == EndSetEmpty \/ EndSetFirst \/ EndSetNext \/ EndSetLast
MarkerPass == MarkerFirst \/ MarkerRemove \/ MarkerSkip \/ MarkerEnd
Scan == ScanId \/ ScanSkip \/ ScanDesc \/ ScanEnd
LinkPass == \/ LinkFirst \/ LinkTask \/ LinkWork \/ LinkEnd
            \/ Scan \/ LinkFound \/ LinkNotFound

Next == EndSet \/ MarkerPass \/ LinkPass \/ Sort \/ OutOfMemory

\* The program is sequential: it takes its next step as long as there is one.
Spec == Init /\ [][Next]_vars /\ WF_vars(Next)

----------------------------------------------------------------------------
Phase == {"end_set", "end_loop", "marker_remove", "marker_loop",
          "link_entries", "link_loop", "scan", "link_work", "sort", "done",
          "error"}

LinkPhase == {"link_loop", "scan", "link_work"}

TypeOK == /\ doc \in Seq(EntryType)
          /\ strict \in BOOLEAN
          /\ entries \in Seq(Entry)
          /\ end \in [Entry -> Int]
          /\ link \in [Entry -> Entry \union {NULL}]
          /\ done \in [Entry -> BOOLEAN]
          /\ freed \subseteq Entry
          /\ pc \in Phase
          /\ pos \in 0..Len(entries)
          /\ curr \in Entry \union {NULL}
          /\ open \in Seq(Entry)
          /\ inDesc \in BOOLEAN
          /\ hash \in Nat \ {0}
          /\ id \in Nat \union {NULL}
          /\ taskid \in Nat
          /\ fix \in BOOLEAN
          /\ warned \in BOOLEAN
          /\ ret \in {"OK", "ERR_INPUT", "ERR_MEM"}

Named == {e \in Entry : doc[e].named}

\* A work entry ends when the next entry of the file begins, whatever that
\* entry is and however the list is later thinned out and reordered.
EndsFollow ==
    pc \in Phase \ {"end_set", "end_loop", "error"} =>
        \A e \in Entry :
            IsWork(e) /\ e < Len(doc) => end[e] = doc[e + 1].begin

\* The markers, and only they, are taken out of the list and freed although
\* the list is shortened under the iterator: no entry is skipped, none is
\* visited twice.  What is left is every other entry of the file, up to the
\* sorted list: a duplicate task as well, which lenient mode only warns about,
\* although parser.y:493 says of dpl_parse_link_entries that it "removes
\* duplicate tasks".
MarkersGone ==
    pc \in LinkPhase \union {"link_entries", "sort", "done"} =>
        /\ Listed = Named
        /\ \A i, j \in 1..Len(entries) : entries[i] = entries[j] => i = j
        /\ freed = Entry \ Named

\* No pointer the later passes follow leads to a freed entry.
NoUseAfterFree ==
    /\ Listed \intersect freed = {}
    /\ \A i \in 1..Len(open) : open[i] \notin freed
    /\ \A e \in Entry : link[e] \notin freed

\* While work entries are linked, tasks_open holds, in the order of the file,
\* the tasks the iterator has passed that no work entry closed.
Passed == IF pos = 0 THEN Named
          ELSE {e \in Named : e < entries[pos]}

OpenExact ==
    pc \in LinkPhase =>
        /\ {open[i] : i \in 1..Len(open)} =
              {t \in Passed : IsTask(t) /\ ~done[t]}
        /\ \A i, j \in 1..Len(open) : i < j => open[i] < open[j]

----------------------------------------------------------------------------
(* What the text of a work entry says, read off without a scan. *)

Hashes(w) == doc[w].name \o doc[w].desc

\* The i-th '#' is the last of the first n with a number behind it.
LastNumber(w, n, i) ==
    /\ i \in 1..n
    /\ Hashes(w)[i].kind = "number"
    /\ \A j \in (i + 1)..n : Hashes(w)[j].kind # "number"

IsReference(w, i) == LastNumber(w, Len(Hashes(w)), i)

\* No '#' ends a text of the work entry.
Clean(w) == \A i \in 1..Len(Hashes(w)) : Hashes(w)[i].kind # "end"

RefersTo(w) == IF \E i \in 1..Len(Hashes(w)) : IsReference(w, i)
               THEN Hashes(w)[CHOOSE i \in 1..Len(Hashes(w)) :
                                  IsReference(w, i)].num
               ELSE 0

Closes(w) == \E i \in 1..Len(Hashes(w)) :
                 IsReference(w, i) /\ Hashes(w)[i].word \in FixStrings

\* The j-th '#' names another task than the number in front of it.
Contradicts(w, j) ==
    /\ Hashes(w)[j].kind = "number"
    /\ \E i \in 1..(j - 1) :
          /\ LastNumber(w, j - 1, i)
          /\ Hashes(w)[i].num \notin {0, Hashes(w)[j].num}

Conflict(w) == \E j \in 1..Len(Hashes(w)) : Contradicts(w, j)

\* The tasks with that id declared above e in the file that no work entry
\* above e is linked to and closes.
OpenAbove(e, taskId) ==
    {t \in Named : /\ IsTask(t)
                   /\ doc[t].id = taskId
                   /\ t < e
                   /\ \A v \in Named : v < e /\ link[v] = t => ~Closes(v)}

Duplicate(t) == OpenAbove(t, doc[t].id) # {}

Suspect(e) == \/ IsTask(e) /\ Duplicate(e)
              \/ IsWork(e) /\ Conflict(e)

\* The scan of name and description, a conflict in strict mode apart, ends
\* with the id and the closing word of the last reference in either.
ScanExact ==
    pc = "link_work" /\ Clean(curr) =>
        taskid = RefersTo(curr) /\ fix = Closes(curr)

\* The entry is linked to the earliest of the tasks it refers to that are open
\* where it stands in the file, and to nothing when there is none.
LinkRight(w) ==
    LET tasks == OpenAbove(w, RefersTo(w))
    IN  IF IsTask(w) \/ RefersTo(w) = 0 \/ tasks = {}
        THEN link[w] = NULL
        ELSE link[w] \in tasks /\ \A t \in tasks : link[w] <= t

\* A task is done when a work entry linked to it closes it.
DoneRight(t) == done[t] <=> \E w \in Named : link[w] = t /\ Closes(w)

\* When the entries are linked, every link and every done task is what the
\* texts and the order of the file say.
LinksExact ==
    pc \in {"sort", "done"} /\ (\A w \in Named : Clean(w)) =>
        \A e \in Named : LinkRight(e) /\ DoneRight(e)

\* No work entry is linked to a task that is already done, whatever the text
\* says, and no link is ever replaced.
NoLinkToDone ==
    [][\A w \in Entry :
          link'[w] # link[w] => link[w] = NULL /\ ~done[link'[w]]]_vars

\* Strict mode refuses the files with a duplicate or a conflicting reference,
\* lenient mode warns about these and no others; both refuse a file that does
\* not end with a marker.
Verdict ==
    LET suspect == \E e \in Named : Suspect(e)
        unended == doc # <<>> /\ doc[Len(doc)].named
    IN  (\A w \in Named : Clean(w)) =>
            /\ pc = "done" => ~unended /\ (suspect <=> warned)
            /\ pc = "done" /\ strict => ~suspect
            /\ ret = "ERR_INPUT" => unended \/ (strict /\ suspect)

\* dpl_parse comes to an end: no pass loops for ever on the list it changes.
Terminates == <>(pc \in {"done", "error"})

----------------------------------------------------------------------------
(* What the comments and the documentation say the program does. *)

\* README.rst:49-66 closes task #2 with a work log named "Close #2".
ReadmeCloses ==
    pc = "done" =>
        \A w \in Listed :
            IsWork(w) /\ link[w] # NULL /\ doc[w].desc = <<>>
            /\ Len(doc[w].name) = 1 /\ doc[w].name[1].word = "Close"
                => done[link[w]]

\* parser.y:346 says that a text without a task id leaves *taskid alone.
NoIdNoLink ==
    pc = "done" =>
        \A w \in Listed :
            (\A i \in 1..Len(Hashes(w)) : Hashes(w)[i].kind # "number") =>
                link[w] = NULL
=============================================================================
