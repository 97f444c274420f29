------------------------------ MODULE Reports ------------------------------
(***************************************************************************)
(* The commands of src/src/main.c and the filters of src/src/list.c.  A    *)
(* report stacks iterators on an iterator over the list, each one a filter *)
(* that pulls from the one below it, pulls from the top one until there is *)
(* no more, and frees what it made.  Each allocation may fail.             *)
(***************************************************************************)
EXTENDS Integers, Sequences, FiniteSets

D == INSTANCE Durances

CONSTANTS EntryLists,  \* the lists of entries dpl_parse may return
          Commands     \* the sequences of commands on the command line

\* keys are the names of the groups the entry belongs to (see Groups), task is
\* the place in the list of the task a work entry is linked to, or 0.
EntryType == [type : {"WORK", "TASK"}, begin : Int, end : Int, task : Nat,
              done : BOOLEAN, keys : SUBSET Nat]

ASSUME EntryListsAssumption ==
    \A l \in EntryLists :
        /\ l \in Seq(EntryType)
        /\ \A e \in 1..Len(l) :
              /\ IsFiniteSet(l[e].keys) /\ l[e].keys # {}
              /\ l[e].task # 0 => /\ l[e].type = "WORK"
                                  /\ l[e].task \in 1..Len(l)
                                  /\ l[l[e].task].type = "TASK"

Report == {"work", "done", "open", "sum"}
ASSUME CommandsAssumption ==
    Commands \subseteq Seq({"work", "tasks", "sum", "unknown"})

\* An iterator is named by its place in the order of creation; 0 is the null
\* pointer.  arg is what its data tells, source the iterator it pulls from.
IterType == [op : {"list", "type", "period", "task", "done", "unique"},
             arg : {"none", "WORK", "TASK"} \union BOOLEAN \union Int,
             source : Nat]

\* The local variables of the three functions.
Local == {"full", "work", "time", "task", "done", "dest"}

VARIABLES list,      \* the list of entries
          period,    \* options.tm_from and options.tm_to, 0 when not set
          commands,  \* argv from optind
          report,    \* the report that is made
          stage,     \* how many of its iterators are made
          iters,     \* the iterators ever created
          freed,     \* those that were freed
          local,     \* the local variables
          cursor,    \* the place in the list of the iterator over it
          returned,  \* the list in the data of the unique filter
          keys,      \* the names of the groups whose sum is to be printed
          summed,    \* the entries in the groups
          printed,   \* what the report has printed
          leaked,    \* history: the data of a period filter was lost
          twice,     \* history: an iterator was freed twice
          failed,    \* history: an allocation or a conversion failed
          pc,
          ret

heap == <<iters, freed, local, leaked, twice>>
output == <<cursor, returned, keys, summed, printed>>
vars == <<list, period, commands, report, stage, heap, output, failed, pc,
          ret>>

Entry == DOMAIN list

Init == /\ list \in EntryLists
        /\ period \in [from : Int, to : Int]
        /\ commands \in Commands
        /\ report = "work"
        /\ stage = 0
        /\ iters = <<>>
        /\ freed = {}
        /\ local = [v \in Local |-> 0]
        /\ cursor = 0
        /\ returned = <<>>
        /\ keys = {}
        /\ summed = {}
        /\ printed = <<>>
        /\ leaked = FALSE
        /\ twice = FALSE
        /\ failed = FALSE
        /\ pc = "command"
        /\ ret = "OK"

----------------------------------------------------------------------------
(* dpl_process_commands *)

StartReport(r) == /\ report' = r
                  /\ stage' = 0
                  /\ cursor' = 0
                  /\ returned' = <<>>
                  /\ keys' = {}
                  /\ summed' = {}
                  /\ printed' = <<>>
                  /\ local' = [v \in Local |-> 0]
                  /\ pc' = "build"

Command == /\ pc = "command"
           /\ commands # <<>>
           /\ IF commands[1] = "unknown"
              THEN /\ pc' = "exit"
                   /\ ret' = "ERR_INPUT"
                   /\ UNCHANGED <<report, stage, local, output>>
              ELSE /\ StartReport(IF commands[1] = "tasks" THEN "done"
                                  ELSE commands[1])
                   /\ UNCHANGED ret
           /\ UNCHANGED <<list, period, commands, iters, freed, leaked, twice,
                          failed>>

NoCommand == /\ pc = "command"
             /\ commands = <<>>
             /\ pc' = "exit"
             /\ UNCHANGED <<list, period, commands, report, stage, heap,
                            output, failed, ret>>

----------------------------------------------------------------------------
(* dpl_print_work, dpl_print_task_list, dpl_print_sums: the iterators. *)

\* A call that makes the iterator out, which pulls from in.
Call(op, arg, in, out) == [op |-> op, arg |-> arg, in |-> in, out |-> out]

\* dpl_print_task_list ignores tm_from for the tasks that are open.
Calls ==
    CASE report = "work" ->
            << Call("list", "none", "none", "full"),
               Call("type", "WORK", "full", "work"),
               Call("period", period.from, "work", "time") >>
      [] report = "done" ->
            << Call("list", "none", "none", "full"),
               Call("period", period.from, "full", "time"),
               Call("type", "WORK", "time", "work"),
               Call("task", "none", "work", "task"),
               Call("done", TRUE, "task", "done"),
               Call("unique", "none", "done", "dest") >>
      [] report = "open" ->
            << Call("list", "none", "none", "full"),
               Call("period", 0, "full", "time"),
               Call("type", "TASK", "time", "task"),
               Call("done", FALSE, "task", "dest") >>
      [] report = "sum" ->
            << Call("list", "none", "none", "full"),
               Call("type", "WORK", "full", "task"),
               Call("period", period.from, "task", "dest") >>

Top == local[Calls[Len(Calls)].out]

NoPeriod == period.from = 0 /\ period.to = 0

\* Mutant of NewIter: a filter pulls from itself.
NewIterLoops(call) ==
    /\ iters' = Append(iters, [op |-> call.op, arg |-> call.arg,
                               source |-> Len(iters) + 1])
    /\ local' = [local EXCEPT ![call.out] = Len(iters) + 1]

NewIter(call) ==
    /\ iters' = Append(iters, [op |-> call.op, arg |-> call.arg,
                               source |-> IF call.op = "list" THEN 0
                                          ELSE local[call.in]])
    /\ local' = [local EXCEPT ![call.out] = Len(iters) + 1]

\* Mutant of PassThrough: the iterator stays in the variable it was in.
PassThroughBoth(call) ==
    /\ local' = [local EXCEPT ![call.out] = local[call.in]]
    /\ UNCHANGED iters

\* dpl_period_filter_apply without a period: the iterator changes hands.
PassThrough(call) ==
    /\ local' = [local EXCEPT ![call.out] = local[call.in], ![call.in] = 0]
    /\ UNCHANGED iters

Build == /\ pc = "build"
         /\ stage < Len(Calls)
         /\ LET call == Calls[stage + 1]
            IN  IF call.op = "period" /\ NoPeriod
                THEN PassThrough(call)
                ELSE NewIter(call)
         /\ stage' = stage + 1
         /\ UNCHANGED <<list, period, commands, report, freed, leaked, twice,
                        output, failed, pc, ret>>

\* An iterator, or its data, cannot be allocated.  dpl_filter_period does not
\* free its data when the iterator fails.
BuildFails == /\ pc = "build"
              /\ stage < Len(Calls)
              /\ LET op == Calls[stage + 1].op
                 IN  /\ ~(op = "period" /\ NoPeriod)
                     /\ leaked' \in IF op = "period" THEN {leaked, TRUE}
                                    ELSE {leaked}
              /\ failed' = TRUE
              /\ ret' = "ERR_MEM"
              /\ pc' = "free"
              /\ UNCHANGED <<list, period, commands, report, stage, iters,
                             freed, local, twice, output>>

Built == /\ pc = "build"
         /\ stage = Len(Calls)
         /\ cursor' = 1
         /\ pc' = "pull"
         /\ UNCHANGED <<list, period, commands, report, stage, heap, returned,
                        keys, summed, printed, failed, ret>>

----------------------------------------------------------------------------
(* dpl_iter_next *)

EndOf(e) == IF list[e].type = "WORK" THEN list[e].end ELSE list[e].begin

InPeriod(e, from) == from <= list[e].begin /\ EndOf(e) <= period.to

\* What a filter hands up when e comes from its source, 0 for nothing.
Filter(iter, e) ==
    CASE iter.op = "list"   -> e
      [] iter.op = "type"   -> IF list[e].type = iter.arg THEN e ELSE 0
      [] iter.op = "period" -> IF InPeriod(e, iter.arg) THEN e ELSE 0
      [] iter.op = "task"   -> list[e].task
      [] iter.op = "done"   ->
            LET ref == IF list[e].type = "WORK" THEN list[e].task ELSE e
            IN  IF ref # 0 /\ list[ref].done = iter.arg THEN e ELSE 0
      [] iter.op = "unique" ->
            IF \E i \in 1..Len(returned) : returned[i] = e THEN 0 ELSE e

\* What the iterators hand up when the one over the list returns e: each
\* filter skips what it does not pass by pulling again.
Result(e) ==
    LET up[i \in 0..Len(iters)] ==
            IF i = 0 \/ iters[i].op = "list" THEN e
            ELSE IF up[iters[i].source] = 0 THEN 0
                 ELSE Filter(iters[i], up[iters[i].source])
    IN  up[Top]

\* The iterator over the list moves on and nothing comes up.
PullSkip == /\ pc = "pull"
            /\ cursor \in Entry
            /\ Result(cursor) = 0
            /\ cursor' = cursor + 1
            /\ UNCHANGED <<list, period, commands, report, stage, heap,
                           returned, keys, summed, printed, failed, pc, ret>>

\* An entry comes up and is printed, or put into its groups.
Pull == /\ pc = "pull"
        /\ cursor \in Entry
        /\ Result(cursor) # 0
        /\ cursor' = cursor + 1
        /\ IF report = "done"
           THEN returned' = Append(returned, Result(cursor))
           ELSE UNCHANGED returned
        /\ IF report = "sum"
           THEN /\ summed' = summed \union {Result(cursor)}
                /\ keys' = keys \union list[Result(cursor)].keys
                /\ UNCHANGED printed
           ELSE /\ printed' = Append(printed, Result(cursor))
                /\ UNCHANGED <<summed, keys>>
        /\ UNCHANGED <<list, period, commands, report, stage, heap, failed, pc,
                       ret>>

\* The list of the unique filter cannot grow, or a time cannot be converted:
\* the report ends where it is, and its function returns DPL_OK.  A sum that
\* cannot be grouped is an error.
PullFails == /\ pc = "pull"
             /\ cursor \in Entry
             /\ Result(cursor) # 0
             /\ failed' = TRUE
             /\ ret' \in IF report = "sum" THEN {"ERR_MEM", "ERR_SYS"}
                        ELSE {"OK"}
             /\ pc' = "free"
             /\ UNCHANGED <<list, period, commands, report, stage, heap,
                            output>>

PullEnd == /\ pc = "pull"
           /\ cursor \notin Entry
           /\ pc' = IF report = "sum" THEN "sums" ELSE "free"
           /\ UNCHANGED <<list, period, commands, report, stage, heap, output,
                          failed, ret>>

----------------------------------------------------------------------------
(* The groups of dpl_print_sums, in ascending order of their names. *)

IsNextKey(k) == k \in keys /\ \A other \in keys : k <= other

\* dpl_acc_durance, over the entries of a group in the order of the list.
Durance(entries) ==
    LET sum[e \in 0..Len(list)] ==
            IF e = 0 THEN 0
            ELSE sum[e - 1] + IF e \in entries
                              THEN list[e].end - list[e].begin ELSE 0
    IN  sum[Len(list)]

\* Mutant of HoursMinutes: the hours of whole days are missing.
HoursMinutesOfDay(durance) ==
    <<D!Written("h", durance), D!Written("m", durance)>>

\* "%Hh %mm"
HoursMinutes(durance) == <<D!Written("H", durance), D!Written("m", durance)>>

\* The iterator over the group lives for the time of the sum.
Sum == /\ pc = "sums"
       /\ \E k \in keys :
              /\ IsNextKey(k)
              /\ printed' = Append(printed,
                    <<k, HoursMinutes(Durance({e \in summed :
                                                  k \in list[e].keys}))>>)
              /\ keys' = keys \ {k}
       /\ iters' = Append(iters, [op |-> "list", arg |-> "none", source |-> 0])
       /\ freed' = freed \union {Len(iters) + 1}
       /\ UNCHANGED <<list, period, commands, report, stage, local, leaked,
                      twice, cursor, returned, summed, failed, pc, ret>>

\* The iterator over the group is not made.  No durance is too long for the
\* buffer it is written to.
SumFails == /\ pc = "sums"
            /\ keys # {}
            /\ ret' = "ERR_MEM"
            /\ failed' = TRUE
            /\ pc' = "free"
            /\ UNCHANGED <<list, period, commands, report, stage, heap, output>>

SumEnd == /\ pc = "sums"
          /\ keys = {}
          /\ pc' = "free"
          /\ UNCHANGED <<list, period, commands, report, stage, heap, output,
                         failed, ret>>

----------------------------------------------------------------------------
\* The end of the three functions: every variable that holds an iterator is
\* freed.  dpl_print_tasks goes on to the tasks that are open.
FreeIters ==
    LET held == {v \in Local : local[v] # 0}
    IN  /\ pc = "free"
        /\ freed' = freed \union {local[v] : v \in held}
        /\ twice' = (twice \/ \/ \E v \in held : local[v] \in freed
                              \/ \E v, w \in held :
                                    v # w /\ local[v] = local[w])
        /\ IF ret # "OK"
           THEN /\ pc' = "exit"
                /\ UNCHANGED <<commands, report, stage, local, output>>
           ELSE IF report = "done"
                THEN StartReport("open") /\ UNCHANGED commands
                ELSE /\ commands' = Tail(commands)
                     /\ pc' = "command"
                     /\ UNCHANGED <<report, stage, local, output>>
        /\ UNCHANGED <<list, period, iters, leaked, failed, ret>>

Construct == Build \/ BuildFails \/ Built
Output == PullSkip \/ Pull \/ PullFails \/ PullEnd \/ Sum \/ SumFails \/ SumEnd

Next == Command \/ NoCommand \/ Construct \/ Output \/ FreeIters

Spec == Init /\ [][Next]_vars

----------------------------------------------------------------------------
TypeOK == /\ list \in EntryLists
          /\ period \in [from : Int, to : Int]
          /\ commands \in Seq({"work", "tasks", "sum", "unknown"})
          /\ report \in Report
          /\ stage \in 0..Len(Calls)
          /\ \A i \in 1..Len(iters) : iters[i].source \in 0..(i - 1)
          /\ freed \subseteq 1..Len(iters)
          /\ local \in [Local -> 0..Len(iters)]
          /\ cursor \in 0..(Len(list) + 1)
          /\ returned \in Seq(Entry)
          /\ keys \subseteq UNION {list[e].keys : e \in Entry}
          /\ summed \subseteq Entry
          /\ pc \in {"command", "build", "pull", "sums", "free", "exit"}
          /\ ret \in {"OK", "ERR_MEM", "ERR_SYS", "ERR_INPUT"}

\* Whatever allocation fails, each iterator that was made is in one variable
\* of the report until it is freed, it is freed once, and none outlives its
\* report.
OwnedOnce ==
    /\ ~twice
    /\ pc \in {"build", "pull", "sums", "free"} =>
          /\ \A i \in (1..Len(iters)) \ freed : \E v \in Local : local[v] = i
          /\ \A v, w \in Local : local[v] = local[w] /\ local[v] # 0 => v = w
    /\ pc \in {"command", "exit"} => freed = 1..Len(iters)

\* The usage text: after and including --from, before and including --to.  A
\* work entry lies in the period as a whole.
Within(e, from) == NoPeriod \/ (from <= list[e].begin /\ EndOf(e) <= period.to)

Worked == {e \in Entry : list[e].type = "WORK" /\ Within(e, period.from)}

Ascending(s) == \A i, j \in 1..Len(s) : i < j => s[i] < s[j]
Elements(s) == {s[i] : i \in 1..Len(s)}

\* The first work entry of the period that is linked to the task.
IsFirstWork(e, t) == /\ e \in Worked /\ list[e].task = t
                     /\ \A f \in Worked : list[f].task = t => e <= f

\* A report in which nothing fails prints what it is for, each entry once:
\* the work entries of the period; the tasks that are done and worked on in
\* the period, in the order of that work; the tasks that are open at its end;
\* for each group of work entries the sum of their durances, in hours and
\* minutes that make up its whole minutes.
ReportExact ==
    pc = "free" /\ ~failed =>
        CASE report = "work" ->
                Elements(printed) = Worked /\ Ascending(printed)
          [] report = "done" ->
                /\ Elements(printed) =
                      {t \in Entry : /\ list[t].done
                                     /\ \E e \in Worked : list[e].task = t}
                /\ \A i, j \in 1..Len(printed) : i < j =>
                      \E e, f \in Worked : /\ IsFirstWork(e, printed[i])
                                           /\ IsFirstWork(f, printed[j])
                                           /\ e < f
          [] report = "open" ->
                /\ Elements(printed) =
                      {t \in Entry : /\ list[t].type = "TASK"
                                     /\ ~list[t].done
                                     /\ Within(t, 0)}
                /\ Ascending(printed)
          [] report = "sum" ->
                /\ {p[1] : p \in Elements(printed)} =
                      UNION {list[e].keys : e \in Worked}
                /\ \A p \in Elements(printed) :
                      60 * p[2][1] + p[2][2] =
                          D!Quot(Durance({e \in Worked : p[1] \in list[e].keys}), 60)
                /\ \A i, j \in 1..Len(printed) :
                      i < j => printed[i][1] < printed[j][1]
=============================================================================
