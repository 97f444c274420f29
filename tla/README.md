# A verification of dayplan

dayplan reads a text file of days, tasks and work logs, links the work logs to
the tasks their text refers to, and prints reports.  It is one sequential C
program.  What is hard about it is not concurrency but order and sharing:
singly linked lists that are changed while a bare pointer iterates over them,
passes over one list whose results depend on what the passes before them did,
a lexer that answers one line with several tokens over several calls, a parser
whose string cache and broken-down time carry over from one line to the next,
options that overwrite one another, and an allocation that may fail in the
middle of most of these.

All paths below are relative to the repository; the sources are in `src/`, the
headers in `inc/dpl/`.  (`PROJECT.json` writes them as `src/src/...` and
`src/inc/...`.)

## The system

| Component | Source | State it keeps | Operations |
|---|---|---|---|
| list, iterator | `list.c:10-250` | nodes, `first`, `last`, `len`; the iterator's next node | new, free, push, remove, iter, next |
| sort | `list.c:463-579` | the next pointers of the same nodes | `dpl_list_sort` |
| filters | `list.c:253-460` | an iterator over an iterator; period, flag, or the list of entries already returned | done, type, period, task_for_work, unique |
| lexer | `parser.y:812-958` | stream, `indent1`, `indent2`, `cache_deindent`, `cache_parseindent`, `lineno` | `yylex` |
| grammar | `parser.y:661-791, 541-649`, `utils.c` | `ctx->entries`, `current`, `tm`, the string cache | `yyparse` and its semantic actions |
| passes | `parser.y:186-539, 978-1028` | `ctx->entries`, fields of the entries, `tasks_open` | end_set, marker_remove, link_entries, sort |
| entries | `entry.c` | type, name, desc, category, begin, end, task, done, id | typed getters and setters |
| groups | `group.c` | a list of groups sorted by name | by name, by day, by category |
| reports | `main.c:185-423`, `acc.c` | iterators and groups they own | work, tasks, sum |
| options, main | `main.c:426-641` | the period, group, strict, file; `daylight` of the C library | `dpl_parse_arguments`, `main` |
| time | `time.c` | none | format a durance, parse a date |
| messages, version | `error.c`, `version.c` | none | write a message, return a constant |

`main` parses the options, then the file (`dpl_parse`: grammar, which pulls
tokens from the lexer and pushes entries; then the passes), then runs the
commands, each of which stacks filters on an iterator over the list and, for
`sum`, groups what comes out.  Components interact by calls, by the list they
share and by the entries' fields: a work entry points at the task it is linked
to, and nobody but the list owns either.

What makes each of them correct:

- *List*: the nodes form a chain from `first` to `last`, `len` long; nothing
  leaks; the iterator survives the removal of the entry it has just returned.
- *Sort*: the stable sort by begin time, no entry lost, `last` set again.
- *Lexer*: INDENT and DEINDENT balance and nest; no character of the text is
  lost.
- *Passes*: a work entry ends when the next entry of the file begins; exactly
  the end markers go; a work entry is linked to the first open task with the id
  of the last reference in its text; strict mode refuses just what lenient mode
  warns about.
- *Grammar*: a file that is written in the documented form comes back as its
  entries, and any other is refused; the string cache never carries text from
  one entry to another; the levels of the productions are those of the lexer.
- *Groups*: an entry is in the group of its category and of each
  super-category once; groups stay sorted and unique.
- *Reports*: each report is the list its description says, and every iterator
  is freed once whatever allocation fails.
- *Options*: the period follows from the last options that set it, whatever
  their order, and the reports show the days that were asked for.
- *Time*: the numbers a durance is written with add up to it.

## The modules

| Module | What it is |
|---|---|
| `Lists` | list operations and iterator positions on sequences, shared by the modules below |
| `ListADT` | abstract specification: a list is a sequence, an iterator a position in it |
| `DplList` | `list.c` at the level of pointers; implements `ListADT` |
| `DplListProofs` | theorems about `DplList` |
| `DplSort` | the quicksort of `list.c` |
| `DplSortProofs` | theorems about `DplSort`, that its result satisfies `IsSorted` of `Lists` among them |
| `ParsePasses` | `dpl_parse` behind the grammar; uses the operations of `Lists` and `IsSorted` |
| `ParsePassesProofs` | theorems about `ParsePasses` |
| `Lexer` | `yylex` |
| `LexerProofs` | theorems about `Lexer` |
| `Grammar` | `yyparse`: productions and semantic actions, on the tokens of an instance of `Lexer` |
| `GrammarProofs` | theorems about `Grammar`, and facts about documents; uses an instance of `LexerProofs` |
| `Documents` | abstract specification of a file: what its lines mean; composed with `Grammar` |
| `DocumentsProofs` | theorems about `Documents` |
| `Groups` | `group.c`: search, insertion, super-categories, free |
| `GroupsProofs` | theorems about `Groups` |
| `Durances` | the arithmetic of `dpl_time_fmt_durance` |
| `Reports` | the commands of `main.c` and the filters of `list.c`; sums are written with `Durances` |
| `Options` | `dpl_parse_arguments` and `dpl_time_parse_date` |
| `Dayplan` | `main`: composes `Options` and `Reports` |
| `DayplanProofs` | theorems about `Dayplan` and about the `Options`, `Reports` and `Durances` in it |
| `MCDplList`, `MCDplSort`, `MCParsePasses`, `MCLexer`, `MCGrammar`, `MCGroups`, `MCDayplan` | the instances TLC checks |

The list is modelled three times, each time as finely as the question needs.
`DplList` has `malloc`, `free` and next pointers, and the walk of
`dpl_list_remove` one step at a time.  It is shown to implement `ListADT`, in
which a remove takes an entry out of a sequence and shifts the position of the
iterator.  `ParsePasses` then works with exactly these sequence operators
(`Without`, `ShiftPos`, `NextPos`), and takes as the result of the quicksort the
list for which `IsSorted` holds: the theorem `SortsAsOneStep` of `DplSortProofs`
says that the relinking code ends in just that list.

**DplList.**  `heap` is the contents of each `struct DplListItem`, `alloc` the
nodes that are malloc'ed (a push takes any other node, so freed memory is
reused), `first`, `last`, `len` the `struct DplList_`, `cursor` the iterator's
`data`.  Calls without a loop are one action (`Push`, `Iter`, `IterNext`,
`RemoveFirst`); the loops of remove and free are one action per turn
(`RemoveScan`, `RemoveUnlink`, `FreeNode`), with the local `curr` and the
argument in variables.  `chain` is a history variable: the nodes in order.
While an iterator is out, `MayRemove` allows only the entry it has just
returned to be removed, which is what both callers do (`parser.y:271-277`
and `471-482`); with no iterator any entry may go.  `CallOnEmpty` says whether
callers may remove from an empty list; no caller of the program does.
`OutOfMemory` stands for each of the calls that allocate.

**DplSort.**  The recursion is a stack of frames (`part1`, `part2`, and which
of the two the frame waits for); one action per turn of the divide loop, the
join loop and the loop that finds the last node.  A node is named by its place
in the unsorted list, which is what stability is stated with.  `SortedStably`
says of each node which node its pointer leads to; `NoneLost` says what can be
reached from the pointers a call holds (`Reached`), and that no two calls share
a node.

**ParsePasses.**  `doc` is the list the grammar hands over; an entry is named
by its place in it.  A text is kept as its sequence of `#` characters, each
with what `sscanf` makes of it (a number, nothing, or the end of the text) and
with the closing word in front of it.  One action per turn of each loop:
`EndSet*`, `Marker*`, `Link*`, and inside a work entry `Scan*`, with the
uninitialized `id` of `dpl_parse_find_task_refstr` a choice from `Garbage`.
`DPL_WARN` returns from the middle of a loop in strict mode; `OutOfMemory` is
enabled wherever an iterator, a list or a node is allocated.

**Grammar.**  `pstate` says which tokens the parser has read of the production
it is in, and stands for bison's state; `pending` says that a token is its
lookahead.  `Read` is a call of `yylex` (`Lex!yylex`, on the classes of the
characters of `source`); every other action takes the token, or ends a
production in front of it, as bison does where it needs no lookahead: an item is
made at its newline (`Item`, `Ref`, `ItemWithoutText`), before it is known
whether a description follows (`Body`) or not (`NoBody`).  `text`, `textpos` and
`textlen` are the string cache, with `Chunk` for the 80 characters of
`DPL_ADD_CHAR`; `text` keeps everything that was ever written, because
`dpl_parse_name_category` reads behind the terminator when no parenthesis closes
a category: what it gets there is the rest of an older text, or one of
`Garbage`.  `dpl_skip_whitespaces` writes into the cache, and so does
`Stripped`.
`tm` is normalised in place whenever an entry is made; `mktime` is external and
has months of 31 days.  `SyntaxError` is every token for which no production has
a place, `OutOfMemory` every allocation.

**Documents.**  A document is a sequence of lines, the last of which may be cut
off at any character.  `Written` is the text of a line and `MeaningAfter` what
it adds: a place where the next line may stand, the time, an entry, a verdict.
`meaning` is a history variable, fixed when the file is.  `Faithful` and
`Verdict` say that the parser, which sees one character after the other, comes
to the entries and the verdict of the lines.  The two exceptions the code makes
are part of the meaning and named there: a date below a description loses its
first digit (`Year`), and the name of an item whose category no parenthesis
closes may be anything (`Settled`).  `DocumentAssumption` says what lines there
are: numbers have the digits `DigitsOf` gives them, levels are spaces, a text
begins and ends in a character that is no blank, and a description begins with
neither a digit nor `#`.  Any line may stand anywhere, and the last one may end
anywhere.

**Lexer.**  A character is a blank, a newline or anything else.  One call of
`yylex` is one action: `ReturnCached`, `BlankLine`, the six outcomes of
`dpl_lex_change_indent` and the five of `dpl_lex_char_to_token`.  A step that
returns an INDENT or a DEINDENT leaves the stream where `ungetc` puts it.
`depth` and `extra` are history variables: the levels the grammar was told of,
and that an end of file within a description announced one DEINDENT too many.

**Groups.**  A group is named by its place in the order of creation, with 0 as
the null pointer; `groups` is what each `struct DplGroup` holds, `first` is
`*first`.  `_dpl_group_find` and `_dpl_group_add` call themselves down the list:
one action per call (`FindNext`, `AddNext`), with the argument in `here`.  The
walk from the end of `catpart` to the next slash is `Cut`.  A string is a
sequence of characters and `Less` is `strcmp`, because whether the list stays
sorted depends on it; one that fits the first buffer of `catpart` (1024
characters) is assumed.  Each allocation may fail, and what a failed one leaves
behind is kept in the history variable `lost` and in `buffer`.

**Durances.**  `Quot` and `Rem` are `/` and `%` of C, which round towards 0; the
other operators follow the assignments of the function.

**Options.**  One action per option, in the order given (`argv`); `given` is a
history variable with all of them.  An option that needs a date has a day, an
argument that is an ISO date or a word for a day, or an invalid one.  `mktime`
is external: days have 24 hours, `Summer` are the days on which the clock is an
hour ahead, and the function believes the `tm_isdst` it is given.  The code sets
it from `daylight`, which the C library sets when it first reads the zone
(`ZoneRead`): that happens in `localtime_r` for a relative date, and in `mktime`
for the others, so the first ISO date of a command line sees 0.  `PeriodSettled`
allows for the hour.

**Dayplan.**  `main`: `ParseArguments` is a step of `Options`, which writes the
period the reports read; `ParseMain` takes any list of entries for the file;
`ProcessCommands` is a step of `Reports`.  `AskedDays` relates the first part to
the last: the list of work shows the days the options ask for.

**Reports.**  `iters` holds every iterator ever made with the iterator it pulls
from, `local` the pointers the running function holds, and `freed` what was
freed.  `Calls` is the sequence of calls by which a report stacks its filters;
`Build` makes one, or passes an iterator on when no period is set
(`PassThrough`).  A pull from the top iterator calls down the stack and up again
until an entry of the list comes up or not: one action per entry of the list
(`PullSkip`, `Pull`), with `Result` following the `source` pointers.  `FreeIters`
is the end of the three functions.  For `sum` an entry carries the set of names
of its groups, which `GroupsExact` of `Groups` justifies, and a name is its rank
in the order of names.  A sum is printed as its hours and minutes
(`HoursMinutes`, by `Durances`).

## The runs

| Run | Instance | Shows |
|---|---|---|
| `list` | 3 nodes, 2 entries | the pointer structure is a list, leaks nothing, dangles nowhere, implements the ADT; calls return |
| `sort` | lists of up to 6 entries, 3 begin times | stable sort, `last` set, nothing lost or shared between two parts; the sort ends |
| `passes` | files of up to 5 entries of 7 shapes, strict and lenient, garbage 0 or 2 | ends, markers, links, verdict |
| `lexer` | files of up to 10 characters | levels, text |
| `grammar` | files of up to 4 lines of 8 shapes, the last one cut off anywhere | entries and verdict are those of the lines; levels agree with the lexer's; the parser returns |
| `groups` | up to 3 entries, 8 strings over three characters | each entry in each of its groups once, sorted, all freed |
| `dayplan` | 14 command lines, lists of up to 4 entries, 3 sequences of commands | the period is settled, each report exact, each iterator freed once, the days asked for are shown |
| `lexer_drop` | files that close both levels in one line | violates `IndentConsumesBlanks` |
| `passes_close` | a task, "Close #1" | violates `ReadmeCloses` |
| `passes_tail` | a task, a text that ends in `#` | violates `NoIdNoLink` |
| `options_date` | `--from` and then `--date` | violates `DateIgnored` |
| `options_dst` | `--from` a day of summer | violates `FromIncludesDate` |

*Bounds.*  Three nodes are the smallest list with a first, an inner and a last
node; with two entries one of them is in the list twice, and with all nodes in
use a push fails.  Six entries give the quicksort parts of three on both sides,
and three times give it equal, rising and falling neighbours in each.  Five
entries hold two tasks of one id, two work entries that refer to it and the
marker, or a run of markers between two entries.  Ten characters hold a line in
each level and the start of a line back in none; files start with a newline
because indentation is only looked at behind one, and all files of half that
length are checked as well.  Three strings with up to three groups each insert
in front of, between and behind groups that exist, find groups a super-category
made, and include categories that differ only in a slash or in a character that
sorts below it.  Four lines hold a date, an item, its description and the item
or date behind it; the eight shapes are a date, a work without text, one whose
hour is beyond the day, one with a category and blanks around it, a task whose
category is not closed, a task with the id 0, a description and an empty line.
A `Chunk` of 3 makes the cache grow twice within such a file, and fill exactly.
Only the last line of these files may be out of place, because the parser does
not read on behind it.
Four entries hold two tasks and the work on them in either order, so that the
unique filter sees a task twice and the order of tasks differs from that of
their work.  The fourteen command lines leave the period unset, open at either
end and closed, by one option or by two that overwrite one another in either
order, before and after the zone is read, and end in each of the ways the
function ends; the days on either side of the change to summer time are among
the dates.  The commands run a report after another one and after an error.
`MaxLen` and `MaxLines` are the bounds in each instance of lists, files and
groups.

*Deadlock.*  The passes, the sort, the lexer, the parser, the grouping and
`main` come to an end, and `RemoveCrash` ends the program: these runs allow a
state without a successor.

*Fairness.*  `WF_vars(Next)` in `ParsePasses`, `DplSort`, `Lexer` and `Grammar`
(in `DocumentSpec` with the history variable): a sequential program that is not
blocked takes its next step, and the bison parser asks for tokens until the
end.  In `DplList` only the steps of a call that was made are fair (`Fairness`):
a caller need not call again.

*What the violated properties say.*

1. `IndentConsumesBlanks` (`parser.y:919-924` against the comment at
   `949-950`): the character put back in front of two DEINDENTs is read, and
   dropped, by the call that returns the second.  The day behind a description
   loses the first digit of its year.
2. `ReadmeCloses` (`parser.y:360-361` against `README.rst:49-66`): "Close #2"
   does not close task 2.
3. `NoIdNoLink` (`parser.y:366` against `346`): a `#` at the end of a text
   counts as a reference to whatever `id` holds.
4. `DateIgnored` (`main.c:497` against the usage at `43-45`): `--date` behind
   `--from`, `--to` or `--today` is not ignored but replaces the period.
5. `FromIncludesDate` (`time.c:134` against the usage at `main.c:46`): the first
   ISO date of the command line, in summer time, begins an hour late.

One more disagreement needs no counterexample, because a property that holds
says it.  The comment on `dpl_parse_link_entries` (`parser.y:491-494`) has it
that the function "removes duplicate tasks".  It removes no entry: in strict
mode `dpl_parse_link_check_duptask` refuses a file with a task that has the id
of an open one, and in lenient mode it warns and pushes the task to `tasks_open`
like any other.
`MarkersGone` of the run `passes`, whose files have tasks with the same id, says
that the sorted list holds every entry of the file that is no marker
(`Listed = Named`), duplicates included; it is proved for every file.

## The proofs

Every theorem is of the specification and for every value of the constants the
assumptions allow: any files, lists, sets of nodes, command lines.  The proof
modules go along one pattern.  An inductive invariant is the conjunction of
`TypeOK`, the properties and what they need of each other; one lemma per action
shows that it is kept, one conjunct at a time; the theorems follow from it.

**DplListProofs** proves, for any sets of nodes and entries, the invariants
`TypeOK`, `Linked`, `EndsMatch`, `NoLeak` and `NoDangling`, and that
`dpl_list_remove` never dereferences NULL as long as `CallOnEmpty` is FALSE
(`RemoveSafe`).  None of them is inductive alone: that the cursor stays in
allocated memory depends on where it stands relative to the entry it returned
last, which is the entry that may go.  The inductive invariant `IInv` adds
`IteratorInside` (the cursor is the node behind the one whose entry `held` is,
or NULL behind the last), `ScanInside` and `FreeInside` (the walks are inside of
the chain) and `NoCrash`.

`Refinement` proves that `DplList` implements `ListADT` (`ImplementsADT`), and
`IterationSteady` that an iterator neither skips nor repeats an entry
(`IterationStable`).  Both are stated with `EntriesFrom`, which follows pointers
from a node; `Mapped` says what it finds from each node of the chain, by
induction over the distance to its end.  With that a remove takes the k-th
element out of the sequence and shifts a position behind it, and every other
step of a walk changes nothing `ListADT` sees.

**DplSortProofs** proves `TypeOK`, `SortedStably` and `NoneLost` for lists of
any length and any begin times.  The invariant `SortInv` divides the nodes: each
frame of the stack has the nodes of its first part, of its second part and those
still to be divided, and a frame's nodes are those of one part of the frame
below (`Nested`).  What makes the sort stable is that there are two orders, the
one of the unsorted list (`Less`) and the one by begin time, then by `Less`
(`Order`).  `Dividing` is the loop invariant of the divide loop: both parts and
the rest are lists in the order `Less`, the rest is behind both parts, and the
pivot separates them.  `Kept` says that the part a frame waits with is a list in
one of the two orders, so that the join, in `Running`, has two sorted lists to
connect.  That a set of nodes is a list in an order (`IsList`) is said node by
node, by what each next pointer is, and needs no induction; that it can be
reached from its first node does (`NoneLost`).  `SortsAsOneStep` says that there
is a sequence for which `IsSorted` of `Lists` holds, and that from `first` the
pointers lead through it.

**ParsePassesProofs** proves, for files of any length whose entries are any the
grammar can produce, `TypeOK`, `EndsFollow`, `MarkersGone`, `NoUseAfterFree`,
`OpenExact` and the action property `NoLinkToDone`.  What makes them inductive:

- `InOrder`: until the sort the list is in the order of the file and holds no
  entry twice.  Without it a removal could leave a second copy of a freed
  entry, and an entry's position would say nothing about what was passed.
- `Kept`: what left the list was freed and was a marker; the markers still in
  it are those the iterator has yet to reach.  This is the loop invariant of
  `dpl_parse_marker_remove`, and the only place where `ShiftPos` matters.
- `EndsSet`: the loop invariant of `dpl_parse_end_set`.
- `Linking`: nothing is linked to, linked or done before the iterator has
  passed it, so the task an iteration pushes is not done and the work entry it
  links has no link.

`PassedNext` says what one step of the iterator adds to the entries passed; the
steps that push on or take from `tasks_open` rest on it.

On these rest `ScanExact`, `LinksExact` and `Verdict`, with the invariant
`LinksInv`.  `Scanning` is the loop invariant of the scan of one text: the id
and the closing word are those of the last reference in front of it (`Settled`).
`Linked` says of each entry passed that its link, or being done, is what the
file asks for.  That this stays so needs that no later link changes which tasks
were open at an earlier entry (`SameAbove`).  `Judged` is the same of the
warnings: lenient mode has warned exactly if an entry passed is suspect, and
strict mode has not gone on behind one.  The three speak of texts in which a
number follows each `#`: of others the code reads an uninitialized `id`.

`ListIsReady` is about the list that is handed over: what `EntryListsAssumption`
of `Reports` says of every list is true of the lists the passes return.  That a
link leads to a task still in the list needs `LinksTyped` (only works are linked,
and only to tasks), because a task is no marker and so is never removed.

**LexerProofs** proves `TypeOK`, `DepthExact`, `LevelsNest` and `Balanced` for
every set of files.  (`LevelsNest` is no run's property: that the second level
lies in the first is what the others rest on.)  `DepthExact` and `LevelsNest`
support each other: a DEINDENT is cached only when both widths are reset, and
the account of the levels is right only because of it.  `Balanced` needs in
addition that an unterminated description is the only way to a DEINDENT too
many.  The action property `TextDelivered` needs to know where in a line the
stream stands: `AtLine` says that it is right behind a newline when the lexer is
about to measure blanks, and also, unless the file has ended, when a DEINDENT is
cached, because two levels only end at a line without indentation.

**GrammarProofs** proves `LevelsAgree` for every file: the levels of the
productions the parser is in are the levels the lexer measures in blanks, a
DEINDENT in the lexer's cache and one on its way to the parser included.  The
lexer inside of `Grammar` is an instance, and so are its theorems: each `Read`
keeps the invariant of `LexerProofs` (`LexStep`), which says what the two widths
are when a token is returned; each other action changes the level by what it
takes from `pending`.  There is one lemma per action, and they rest on three: a
step that takes the token (`Taken`), one that ends a production in front of it
(`Left`), and one with which the parser gives up (`GivenUp`).

`TypeOK` of `Grammar` is about the string cache, and `CacheInv` is the invariant
for it: `textpos` is inside of what was written, what was written is inside of
the buffer, and, unless a string is just being written (`Terminated`), the last
character in it is a terminator.  Without the last of these the walks of
`dpl_skip_whitespaces` and `dpl_parse_name_category` could leave what was
written, and nothing could be said of the cache behind them; the lemmas
`StringEnds`, `SkipEnds`, `KeptFound`, `StrippedEnds` and `NameTyped` say of
each walk where it ends.  `Counted` says how many numbers have been read in
which production, and `Made` that a description has an entry to go to.

`EntriesFitPasses` closes the other seam: the entries the grammar makes are those
`ShapeAssumption` of `ParsePasses` allows.  Its invariant `NamedFirst` says that
a description is only read for an entry that has a name.

**DocumentsProofs** proves `Faithful` and `Verdict` for every document: any number
of lines, in any order, with any names, categories and descriptions, cut off
anywhere.  `Meaning` is a recursion over the lines and the parser a loop over
characters, so the two are brought together in three steps:

- `IsFile(f, src, mng)` describes a document without recursion: `f` has for each
  line where it starts in the file (`start`), what it says and what the lines
  above it mean (`mean`).  `FileFound` proves that there is such an `f` for each
  document, by induction over its lines; nothing behind it needs to know of
  `Written` or `Meaning` as recursive functions.
- `Sound(f)` says where the parser is in `f`: at the start of a line
  (`AtStart`), with the INDENT or DEINDENT the line begins with (`Leading`),
  inside of line `i` behind `k` of its characters (`Reading`, with one predicate
  for each kind of line and what is collected of it: `InDate`, `InWork`,
  `InTask`, `InDesc`, `InItem`, `InEmpty`), or at the end of the file
  (`Ending`).  Each of them says that `ctx->entries` is what `mean[i]` says
  (`Matches`), that `tm` is its time (`Clock`), and what is in the string cache:
  the part of the name, category or description that was read, behind it what
  the cache had before (`Cached`).
- A token that has no place in the production at hand leads to a refusal
  (`Doomed`), and the file is then one `Meaning` refuses.

`DocumentInv` is: there is an `f` with `IsFile` and one of the two.  Its proof
follows the two halves of a step: `LiveRead` says what a call of `yylex` returns
in each of these places (`CharRead` and what is built on it: at which line
beginnings levels are opened and closed), and `LiveTurn` what the production
does with the token, one lemma per place and token.  The exceptions of the
code come up where they belong: the lost digit in the lemma for a date behind
two levels, and `Settled` where the walk for a parenthesis leaves the text.

**GroupsProofs** proves `TypeOK`, `GroupsSorted`, `GroupsFreed` and
`GroupsExact` for every list of entries and every alphabet.  `Less`, the
`strcmp` of `group.c`, is a strict total order of strings (`LessTransitive`,
`LessTotal`, `LessAsymmetric`).  `OrderInv` says that the next pointer of a
group leads to the group whose name comes next (`Ordered`), and where a running
search or insertion stands: the groups it has passed are less than the name, and
nothing is inserted that has a group (`Placed`); and that a group is freed after
all groups behind it (`FreedBehind`).  `ExactInv` adds what the groups hold: the
entries worked off so far, each in the groups of its names, once and in order;
for the entry at hand this is said of the names already done, which are the
longer ones (`Entered`).

**DayplanProofs** proves of `Reports` and `Options`, and of the program
`Dayplan` composes of them:

- `SplitExact`, for every integer: days, hours, minutes and seconds are the
  durance again and each less than one of the next unit, with the signs C gives
  to rests; `WrittenExact`: `%H`, `%M` and `%S` write the whole of it.
- `OwnedOnce` for every list, period and sequence of commands, with every
  allocation failing anywhere.  The invariant `OwnInv` adds that the variable a
  call writes to is still unused (`Unused`; `Apart` says that no two calls of a
  report share one), and that no variable of a running report holds a freed
  iterator, which is why nothing is freed twice.
- `ReportExact`.  `Stacked` says which filters a report has stacked when it
  begins to pull, and each report's loop invariant (`ToldWork`, `ToldOpen`,
  `ToldDone`, `ToldSum`) what it has printed when the iterator over the list is
  at `cursor`: the unique filter of the done tasks lists each at its first work.
  The sum of a set of entries is a recursion over the list (`Durance`), and that
  an entry adds its own durance to it is proved by induction over the entries
  that remain.
- `PeriodSettled` for every sequence of options.  The invariant `OptInv` states
  it of the options taken so far.  The last option of a kind is a `CHOOSE` over
  what was given; the invariant says instead that there is none or that some
  option is the last (`Decided`), which one more option preserves.  A `--from`
  behind a `--to` is right because no period ends at 0, the value the code takes
  for "not set": an end is a second short of a full hour (`EndNear`).
- the same of `main` (`MainInv`): `MainOwnsOnce`, `MainReportsExact`,
  `MainTypeCorrect`, for which it has to be shown that the options no longer
  change the period once a report is made of it.
- `AskedDays`, from `PeriodSettled` and `ReportExact`, under the hypothesis
  `Timely`: no entry begins before 1970, none ends behind `LONG_MAX`, and
  `LONG_MAX` is not 0.  The proof shows where it is needed: to the code a period
  with a `--to` alone begins at 0, one with a `--from` alone ends at `LONG_MAX`,
  so that `--to` leaves out a work of 1969.

Two facts about numbers take the place of induction, which is stated with an
operator parameter in the library and cannot be used: a set of numbers has a
least one (`Least`), and a set with 0 and each successor has all of them
(`Induction`).  A proof module that needs one derives it from the library's
`WFMin` at its beginning.

*Assumptions.*  `NullAssumption` (NULL is no node, no entry, no number),
`CallOnEmptyAssumption`, `InputAssumption`, `EOFAssumption`, `ShapeAssumption`
(the entries of the grammar), `MaxLenAssumption`, `TimeAssumption` (begin times
are integers), `GarbageAssumption` (of `ParsePasses`: numbers; of `Grammar`:
strings), `CharacterAssumption` (NUL is a character), `ChunkAssumption` (the cache
grows), `NameAssumption` and `SlashAssumption` (characters of names are
numbers), `EntryListsAssumption`, `EmptyFileAssumption`, `CommandsAssumption`,
`ArgumentsAssumption`, `DaysAssumption` and `LimitAssumption` (days and
`LONG_MAX` are integers), and for documents `WidthAssumption` (there is an
indentation), `WrittenAssumption` (digits, separators, the blank and the newline
are characters) and `DocumentAssumption`.  Each is an ASSUME of the
module that declares the constant, those of `Options` of `Dayplan`.  Only
`DaysAreAsked` has a hypothesis of its own, `Timely`.

*Only model-checked.*  The liveness properties (`CallsReturn`, `Terminates`,
`Returns`), because liveness under fairness is out of the prover's reach.  Every
invariant and every action property of a run that passes is a theorem.

## Not modelled

Strings are modelled by what the code tells apart.  Left out are:

- the contents of messages (`error.c`) and the version: they keep no state;
- the layout of the output other than the hours and minutes of a sum, and the
  text of a group of a day;
- `getopt_long`: options come as records, with their arguments;
- the zone file, `mktime` and `localtime_r` but for what is said above;
- the tables and the stack of the parser bison generates, and what it does when
  the stack is full; a number with too many digits for an `int`;
- the buffer of `dpl_time_fmt_durance`: its one caller in `src/` gives it more
  than any number needs;
- the type checks of the setters of `entry.c`, which no caller fails, and the
  copies of strings they make;
- `dpl_list_len` and `dpl_iter_list`, which only the tests call;
- the list of entries once it is parsed: `FreeEntries` stands for
  `dpl_list_free (list, 1)`, and that a failing parse leaves the list to nobody
  is no property.

Some leaks on failing allocations are in the models but no property is about
them, since nothing promises otherwise: the data of a period filter (`leaked`),
a half-made group and `catpart` (`lost`, `buffer`).  A report that fails while
it prints exits with success (`PullFails`).

## Plan

What could be added, in this order:

1. `Dayplan` with `ParsePasses` in the place of the choice of a list, so that
   the reports are of a file.  That the lists fit is proved (`ListIsReady`,
   `EntriesFitPasses`).
2. The keys of `Reports` as those `Groups` makes of a category.
