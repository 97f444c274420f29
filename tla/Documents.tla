----------------------------- MODULE Documents -----------------------------
(***************************************************************************)
(* What a file of dayplan means, line by line, and that yyparse gets it    *)
(* from the characters.  A document is a sequence of lines: dates, works,  *)
(* tasks, lines of a description and empty ones, in any order, the last    *)
(* one possibly cut off in the middle.                                     *)
(***************************************************************************)
EXTENDS Grammar

CONSTANTS Documents,  \* records of the lines and the width of the last one
          Width1,     \* the indentation of works and tasks
          Width2      \* that of descriptions behind it

ASSUME WidthAssumption == {Width1, Width2} \subseteq Nat \ {0}

\* The characters lines are written with, names and descriptions aside.
ASSUME WrittenAssumption ==
    Digit \union {" ", "\n", "#", "(", ")", "-", ":"} \subseteq Character

\* history: what the lines mean that the file is written from
VARIABLE meaning

Blanks(n) == [i \in 1..n |-> " "]

DigitsOf(n) == LET d == CHOOSE x \in Digit : Value[x] = n % 10
               IN  IF n < 10 THEN <<d>>
                   ELSE <<CHOOSE x \in Digit : Value[x] = n \div 10, d>>

\* The text of a line: an optional category in parentheses and a name.
Text(t) == (IF t.cat = {} THEN Blanks(t.lead)
            ELSE Blanks(t.lead) \o <<"(">> \o Blanks(t.lead)
                     \o (CHOOSE s \in t.cat : TRUE)
                     \o (IF t.closed THEN <<")">> ELSE <<>>) \o Blanks(t.lead))
               \o t.name \o Blanks(t.trail)

Written(line) ==
    CASE line.kind = "date" ->
            DigitsOf(line.year) \o <<"-">> \o DigitsOf(line.month) \o <<"-">>
                \o DigitsOf(line.mday) \o Blanks(line.trail)
      [] line.kind = "work" ->
            Blanks(Width1) \o DigitsOf(line.hour) \o <<":">>
                \o DigitsOf(line.min) \o Blanks(line.gap)
                \o (IF line.text = {} THEN <<>>
                    ELSE Text(CHOOSE t \in line.text : TRUE))
      [] line.kind = "task" ->
            Blanks(Width1) \o <<"#">> \o DigitsOf(line.id) \o <<" ">>
                \o Text(CHOOSE t \in line.text : TRUE)
      [] line.kind = "desc" -> Blanks(Width1 + Width2) \o line.desc
                                \o Blanks(line.trail)
      [] line.kind = "empty" -> <<>>

\* The characters of the lines, and of the last one without its newline as
\* many as it is cut to.
Characters(doc) ==
    LET n == Len(doc.lines)
        above[i \in 0..n] ==
            IF i = 0 THEN <<>>
            ELSE above[i - 1] \o Append(Written(doc.lines[i]), "\n")
    IN  SubSeq(above[n], 1, Len(above[n - 1]) + doc.cut)

LastLine(doc) == doc.lines[Len(doc.lines)]

Cut(doc) == doc.cut <= Len(Written(LastLine(doc)))

----------------------------------------------------------------------------
(* What a document is made of. *)

Plain == Character \ {"NUL", "\n"}

BeginsInText(s) == s # <<>> => s[1] \notin White
EndsInText(s) == s # <<>> => s[Len(s)] \notin White

\* Blanks around names are those counted by lead and trail, and the first
\* parenthesis that closes is the one of the category.
IsText(t) ==
    /\ {t.lead, t.trail} \subseteq Nat
    /\ t.name \in Seq(Plain)
    /\ \/ /\ t.cat = {}
          /\ t.name # <<>> /\ t.name[1] # "("
          /\ BeginsInText(t.name) /\ EndsInText(t.name)
       \/ \E s \in t.cat :
             /\ t.cat = {s}
             /\ s \in Seq(Plain \ {")"}) /\ BeginsInText(s)
             /\ IF t.closed THEN BeginsInText(t.name) /\ EndsInText(t.name)
                ELSE /\ s # <<>> /\ t.name \in Seq(Plain \ {")"})
                     /\ EndsInText(s \o Blanks(t.lead) \o t.name)

\* Numbers have the digits DigitsOf gives them.  A description begins with
\* nothing that would make it an item if it stood below a date.
IsLine(line) ==
    \/ /\ line.kind = "date"
       /\ line.year \in 10..99 /\ {line.month, line.mday} \subseteq 0..99
       /\ line.trail \in Nat
    \/ /\ line.kind = "work"
       /\ {line.hour, line.min} \subseteq 0..99
       /\ \/ line.text = {} /\ line.gap \in {0, 1}
          \/ /\ \E t \in line.text : line.text = {t} /\ IsText(t)
             /\ line.gap \in Nat \ {0}
    \/ /\ line.kind = "task"
       /\ line.id \in 0..99
       /\ \E t \in line.text : line.text = {t} /\ IsText(t)
    \/ /\ line.kind = "desc"
       /\ line.desc \in Seq(Plain) \ {<<>>} /\ line.trail \in Nat
       /\ BeginsInText(line.desc) /\ EndsInText(line.desc)
       /\ line.desc[1] \notin Digit \union {"#"}
    \/ line.kind = "empty"

ASSUME DocumentAssumption ==
    \A doc \in Documents :
        /\ doc.lines \in Seq({doc.lines[i] : i \in DOMAIN doc.lines}) \ {<<>>}
        /\ \A i \in DOMAIN doc.lines : IsLine(doc.lines[i])
        /\ doc.cut \in 0..(Len(Written(LastLine(doc))) + 1)

----------------------------------------------------------------------------
(* The meaning of the lines. *)

\* Where a line may stand: place is what the lines above it leave.
PlaceAfter(place, line) ==
    CASE line.kind = "date" /\ place \in {"top", "items", "body", "desc"} ->
            "dated"
      [] line.kind = "work" /\ place \in {"dated", "items", "body", "desc"} ->
            IF line.text = {} THEN "items" ELSE "body"
      [] line.kind = "task" /\ place \in {"dated", "items", "body", "desc"} ->
            "body"
      [] line.kind = "desc" /\ place \in {"body", "desc"} -> "desc"
      [] line.kind = "empty" /\ place \in {"dated", "items", "desc"} -> place
      [] line.kind = "empty" /\ place = "body" -> "items"
      [] OTHER -> "misplaced"

Settled(t) == t.cat = {} \/ t.closed
Category(t) == IF Settled(t) THEN t.cat
               ELSE {s \o Blanks(t.lead) \o t.name : s \in t.cat}

\* The entry of a work or a task.  Its name may be anything when no parenthesis
\* closes the category.
Promised(line, begin) ==
    [type |-> IF line.kind = "work" THEN "WORK" ELSE "TASK",
     begin |-> begin,
     id |-> IF line.kind = "work" THEN 0 ELSE line.id,
     name |-> {t.name : t \in line.text},
     settled |-> \A t \in line.text : Settled(t),
     cat |-> UNION {Category(t) : t \in line.text},
     desc |-> {}]

\* The first digit of a date below a description is lost.
Year(m, line) == IF m.place = "desc" THEN line.year % 10 ELSE line.year

\* A work begins at its time, 24 hours of which are a day for the lines below
\* it as well; a task begins with the work above it, or with the day.
Begin(m, line) == IF line.kind = "task" THEN m.time
                  ELSE (m.time \div 1440) * 1440 + line.hour * 60 + line.min

\* White space counts only where another line of the description follows.
Continued(d, m, line) == IF d = {} THEN {line.desc}
                         ELSE {s \o m.white \o line.desc : s \in d}

MeaningAfter(m, line) ==
    IF m.verdict # "OK" THEN m
    ELSE IF PlaceAfter(m.place, line) = "misplaced"
    THEN [m EXCEPT !.verdict = "ERR_SYNTAX"]
    ELSE IF line.kind = "task" /\ line.id = 0
    THEN [m EXCEPT !.verdict = "ERR_INPUT"]
    ELSE LET n == [m EXCEPT !.place = PlaceAfter(m.place, line)]
         IN CASE line.kind = "date" ->
                   [n EXCEPT !.time = 1440 * DayNumber(Year(m, line), line.month,
                                                       line.mday)]
              [] line.kind \in {"work", "task"} ->
                   [n EXCEPT !.time = Begin(m, line),
                             !.entries = Append(@, Promised(line, Begin(m, line)))]
              [] line.kind = "desc" ->
                   [n EXCEPT !.white = Append(Blanks(line.trail), "\n"),
                             !.entries[Len(m.entries)].desc =
                                 Continued(@, m, line)]
              [] line.kind = "empty" -> [n EXCEPT !.white = Append(@, "\n")]

Nothing == [place |-> "top", time |-> 0, white |-> <<>>, entries |-> <<>>,
            verdict |-> "OK"]

Meaning(lines) ==
    LET m[i \in 0..Len(lines)] ==
            IF i = 0 THEN Nothing ELSE MeaningAfter(m[i - 1], lines[i])
    IN  m[Len(lines)]

\* The part of a line a file may end with: no character, or the indentation
\* of the items; any indentation below a date; below a description the one
\* character that is lost.
MayEndIn(place, line, cut) ==
    LET rest == SubSeq(Written(line), 1, cut)
        blank == rest = Blanks(cut)
    IN  CASE place = "top"   -> cut = 0
          [] place = "dated" -> blank /\ cut > 0
          [] place = "desc"  -> \/ blank /\ cut \in {0, Width1}
                                \/ cut = 1 /\ line.kind = "date"
          [] OTHER           -> blank /\ cut \in {0, Width1}

MeaningOf(doc) ==
    IF ~Cut(doc) THEN
        LET m == Meaning(doc.lines)
        IN  IF m.verdict = "OK" /\ m.place = "dated"
            THEN [m EXCEPT !.verdict = "ERR_SYNTAX"] ELSE m
    ELSE
        LET m == Meaning(SubSeq(doc.lines, 1, Len(doc.lines) - 1))
        IN  IF m.verdict = "OK" /\ ~MayEndIn(m.place, LastLine(doc), doc.cut)
            THEN [m EXCEPT !.verdict = "ERR_SYNTAX"] ELSE m

----------------------------------------------------------------------------
DocumentInit == \E doc \in Documents : /\ source = Characters(doc)
                                       /\ meaning = MeaningOf(doc)
                                       /\ Init

DocumentNext == Next /\ UNCHANGED meaning

DocumentSpec == /\ DocumentInit
                /\ [][DocumentNext]_<<vars, meaning>>
                /\ WF_<<vars, meaning>>(DocumentNext)

Keeps(entry, promised) ==
    /\ entry.type = promised.type
    /\ entry.begin = promised.begin
    /\ entry.id = promised.id
    /\ promised.settled => entry.name = promised.name
    /\ entry.cat = promised.cat

\* The entries are those of the lines, from the first on, each with the time,
\* id, name, category and description of its own lines, whatever was in the
\* string cache before.  The last description is settled when the file ends.
Faithful ==
    LET promised == meaning.entries
    IN  /\ Len(entries) <= Len(promised)
        /\ \A i \in 1..Len(entries) : Keeps(entries[i], promised[i])
        /\ \A i \in 1..Len(entries) :
              i < Len(entries) \/ ret = "OK" =>
                  entries[i].desc = promised[i].desc
        /\ ret = "OK" => Len(entries) = Len(promised)

\* A file is accepted when its lines stand where they may and it does not end
\* inside of one, and refused otherwise.
Verdict == ret \in {"none", "ERR_MEM", meaning.verdict}
=============================================================================
