------------------------------ MODULE Dayplan ------------------------------
(***************************************************************************)
(* main of src/src/main.c: the options, the file, the commands.  The       *)
(* options set the period the reports filter by; the file is parsed as     *)
(* Grammar and ParsePasses have it, which here is a choice of its entries. *)
(***************************************************************************)
EXTENDS Reports

CONSTANTS Arguments, Summer, Today, LONG_MAX  \* of Options

VARIABLES argv, given, options, daylight, verdict,  \* of Options
          status,   \* what main returns, "none" before
          parsed,   \* the file was parsed
          released  \* the list and its entries were freed

Opt == INSTANCE Options

optvars == <<argv, given, options, daylight, verdict>>
mainvars == <<status, parsed, released>>

ASSUME EmptyFileAssumption == <<>> \in EntryLists
ASSUME ArgumentsAssumption == Arguments \subseteq Seq(Opt!OptionType)
ASSUME DaysAssumption == Summer \subseteq Int /\ Today \in Int
ASSUME LimitAssumption == LONG_MAX \in Int

MainInit == /\ list = <<>>
            /\ period = [from |-> 0, to |-> 0]
            /\ Init
            /\ Opt!OptInit
            /\ status = "none"
            /\ parsed = FALSE
            /\ released = FALSE

\* dpl_parse_arguments.  The struct options is what the reports read.
ParseArguments == /\ Opt!OptNext
                  /\ period' = [from |-> options'.tm_from,
                                to |-> options'.tm_to]
                  /\ UNCHANGED <<list, commands, report, stage, heap, output,
                                 failed, pc, ret, mainvars>>

\* Help, the version and wrong options end main.
ArgumentsEnd == /\ status = "none"
                /\ verdict \in {"EXIT", "ERR_INPUT", "crash"}
                /\ status' = CASE verdict = "EXIT"      -> "0"
                               [] verdict = "ERR_INPUT" -> "1"
                               [] verdict = "crash"     -> "SIGSEGV"
                /\ UNCHANGED <<vars, optvars, parsed, released>>

\* dpl_parse_main.
ParseMain == /\ status = "none"
             /\ verdict = "OK"
             /\ ~parsed
             /\ parsed' = TRUE
             /\ list' \in EntryLists
             /\ UNCHANGED <<period, commands, report, stage, heap, output,
                            failed, pc, ret, optvars, status, released>>

\* The file is not found, or not accepted: what was made of it is not freed.
ParseMainFails == /\ status = "none"
                  /\ verdict = "OK"
                  /\ ~parsed
                  /\ status' = "1"
                  /\ UNCHANGED <<vars, optvars, parsed, released>>

ProcessCommands == /\ parsed
                   /\ pc # "exit"
                   /\ Next
                   /\ UNCHANGED <<optvars, mainvars>>

\* The entries are freed whatever the commands returned.
FreeEntries == /\ status = "none"
               /\ pc = "exit"
               /\ released' = TRUE
               /\ status' = IF ret = "OK" THEN "0" ELSE "1"
               /\ UNCHANGED <<vars, optvars, parsed>>

MainNext == \/ ParseArguments \/ ArgumentsEnd
            \/ ParseMain \/ ParseMainFails
            \/ ProcessCommands \/ FreeEntries

MainSpec == MainInit /\ [][MainNext]_<<vars, optvars, mainvars>>

----------------------------------------------------------------------------
PeriodSettled == Opt!PeriodSettled
DateIgnored == Opt!DateIgnored
FromIncludesDate == Opt!FromIncludesDate

\* main.c:43-48, from the command line to the report: with a margin of the
\* hour the clock may be changed by, the list of work holds every work entry
\* that lies in the days the options ask for, and no other.
AskedDays ==
    LET from == Opt!LastOf({"t", "d", "b"})
        to == Opt!LastOf({"t", "d", "c"})
        In(e, margin) ==
            /\ from # 0 =>
                  list[e].begin >= Opt!Midnight(Opt!DayOf(from)) + margin
            /\ to # 0 =>
                  list[e].end < Opt!Midnight(Opt!DayOf(to) + 1) - margin
    IN  report = "work" /\ pc = "free" /\ ~failed =>
            \A e \in Entry :
                list[e].type = "WORK" =>
                    /\ In(e, Opt!Hour) => e \in Elements(printed)
                    /\ e \in Elements(printed) => In(e, -Opt!Hour)
=============================================================================
