------------------------------ MODULE Options ------------------------------
(***************************************************************************)
(* dpl_parse_arguments of src/src/main.c and dpl_time_parse_date of        *)
(* src/src/time.c: the options are taken in the order given, and those for *)
(* the period overwrite one another.  Times are seconds, days are numbers. *)
(***************************************************************************)
EXTENDS Integers, Sequences

CONSTANTS Arguments,  \* the sequences of options on the command line
          Summer,     \* the days of summer time, none in a zone without it
          Today,      \* the day time (0) is in
          LONG_MAX

Hour == 3600
DayLength == 24 * Hour

\* word is what the argument is; day, for the options that have a date.
OptionType == [opt : {"t", "b", "c", "d", "h", "v", "o", "f", "g", "s", "r",
                      "?"},
               word : {"none", "iso", "relative", "invalid", "day", "category",
                       "name"},
               day : Int]

VARIABLES argv,      \* the options still to be taken
          given,     \* history: all of them
          options,   \* the struct of that name
          daylight,  \* that of time.h: 0 until the zone is read
          verdict    \* what dpl_parse_arguments returns, "none" before

optvars == <<argv, given, options, daylight, verdict>>

Group == {"name", "day", "category"}

OptInit == /\ argv \in Arguments
           /\ given = argv
           /\ options = [tm_from |-> 0, tm_to |-> 0, oneline |-> FALSE,
                         group_by |-> "name", strict |-> FALSE,
                         input |-> FALSE]
           /\ daylight = 0
           /\ verdict = "none"

----------------------------------------------------------------------------
(* The C library, external: the first use of the zone sets daylight, and   *)
(* mktime believes the tm_isdst it is given, which makes a midnight of     *)
(* standard time with tm_isdst = 1 an hour early, and one of summer time   *)
(* with tm_isdst = 0 an hour late.                                         *)

ZoneRead == IF Summer = {} THEN 0 ELSE 1

mktime(day, isdst) == day * DayLength - isdst * Hour

Midnight(day) == mktime(day, IF day \in Summer THEN 1 ELSE 0)

----------------------------------------------------------------------------
Takes(opts) == /\ verdict = "none"
               /\ argv # <<>>
               /\ argv[1].opt \in opts
               /\ argv' = Tail(argv)
               /\ UNCHANGED given

\* dpl_time_parse_date: the second of the day's begin.  tm_isdst is daylight
\* as it is when the function has it; for a relative day localtime_r has read
\* the zone by then.
DateBegin(arg) ==
    mktime(arg.day, IF arg.word = "relative" THEN ZoneRead ELSE daylight)

\* Mutant of EndOf: the day ends when it begins.
EndAtBegin(begin) == begin

EndOf(begin) == begin + DayLength - 1

\* An option with a date that sets the fields of options to those of new.
TakesDate(opt, new) == /\ Takes({opt})
                       /\ argv[1].word # "invalid"
                       /\ options' = new
                       /\ daylight' = ZoneRead
                       /\ UNCHANGED verdict

OptToday == LET begin == mktime(Today, ZoneRead)
            IN  TakesDate("t", [options EXCEPT !.tm_from = begin,
                                               !.tm_to = EndOf(begin)])

\* Mutant of OpenEnd: the end that was given is lost.
OpenEndAlways == LONG_MAX

\* --from alone leaves the period open.
OpenEnd == IF options.tm_to = 0 THEN LONG_MAX ELSE options.tm_to

OptFrom == TakesDate("b", [options EXCEPT !.tm_from = DateBegin(argv[1]),
                                          !.tm_to = OpenEnd])

OptTo == TakesDate("c", [options EXCEPT !.tm_to = EndOf(DateBegin(argv[1]))])

OptDate == LET begin == DateBegin(argv[1])
           IN  TakesDate("d", [options EXCEPT !.tm_from = begin,
                                              !.tm_to = EndOf(begin)])

\* --group-by with an argument; -g never has one, and strcmp is given NULL.
OptGroup == /\ Takes({"g"})
            /\ argv[1].word \in Group
            /\ options' = [options EXCEPT !.group_by = argv[1].word]
            /\ UNCHANGED <<daylight, verdict>>

OptFlag == /\ Takes({"o", "s", "f", "r"})
           /\ options' = CASE argv[1].opt = "o" ->
                                [options EXCEPT !.oneline = TRUE]
                           [] argv[1].opt = "s" ->
                                [options EXCEPT !.strict = TRUE]
                           [] argv[1].opt = "f" ->
                                [options EXCEPT !.input = TRUE]
                           [] OTHER -> options
           /\ UNCHANGED <<daylight, verdict>>

\* The options that end the function: help and version, what getopt does not
\* know, and arguments that are no date or no group.
OptEnds == /\ \/ Takes({"h", "v"}) /\ verdict' = "EXIT"
              \/ Takes({"?"}) /\ verdict' = "ERR_INPUT"
              \/ /\ Takes({"b", "c", "d"})
                 /\ argv[1].word = "invalid"
                 /\ verdict' = "ERR_INPUT"
              \/ /\ Takes({"g"})
                 /\ argv[1].word \notin Group
                 /\ verdict' = IF argv[1].word = "none" THEN "crash"
                               ELSE "ERR_INPUT"
           /\ UNCHANGED <<options, daylight>>

OptDone == /\ verdict = "none"
           /\ argv = <<>>
           /\ verdict' = "OK"
           /\ UNCHANGED <<argv, given, options, daylight>>

OptNext == \/ OptToday \/ OptFrom \/ OptTo \/ OptDate
           \/ OptGroup \/ OptFlag \/ OptEnds \/ OptDone

OptSpec == OptInit /\ [][OptNext]_optvars

----------------------------------------------------------------------------
\* The last of the given options that is one of opts, 0 for none.
LastOf(opts) ==
    IF \E i \in 1..Len(given) : given[i].opt \in opts
    THEN CHOOSE i \in 1..Len(given) :
            /\ given[i].opt \in opts
            /\ \A j \in (i + 1)..Len(given) : given[j].opt \notin opts
    ELSE 0

DayOf(i) == IF given[i].opt = "t" THEN Today ELSE given[i].day

NearTo(time, exact) == time \in (exact - Hour)..(exact + Hour)

\* Whatever the order and the number of the options, the period begins with
\* the day of the last --today, --date or --from, if there is one, and ends
\* with the day of the last --today, --date or --to, or never if only --from
\* is given; an hour more or less is the change of the clock.
PeriodSettled ==
    verdict = "OK" =>
        LET from == LastOf({"t", "d", "b"})
            to == LastOf({"t", "d", "c"})
        IN  /\ IF from = 0 THEN options.tm_from = 0
               ELSE NearTo(options.tm_from, Midnight(DayOf(from)))
            /\ IF to # 0
               THEN NearTo(options.tm_to, Midnight(DayOf(to)) + DayLength - 1)
               ELSE options.tm_to = IF from # 0 THEN LONG_MAX ELSE 0

\* main.c:43-45: --date "is ignored when used in conjunction with --to, --from
\* or --today".
DateIgnored ==
    verdict = "OK" /\ LastOf({"t", "b"}) # 0 =>
        NearTo(options.tm_from, Midnight(DayOf(LastOf({"t", "b"}))))

\* main.c:46: --from "Only process entries after and including the given
\* date": the period begins with the midnight of the date.
FromIncludesDate ==
    LET from == LastOf({"t", "d", "b"})
    IN  verdict = "OK" /\ from # 0 =>
            options.tm_from <= Midnight(DayOf(from))
=============================================================================
