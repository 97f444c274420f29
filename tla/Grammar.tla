------------------------------ MODULE Grammar ------------------------------
(***************************************************************************)
(* The grammar of src/src/parser.y: yyparse takes one token at a time from *)
(* yylex and runs the semantic actions of the productions it completes,    *)
(* which keep a string cache and a broken-down time and append entries to  *)
(* a list.  Bison takes a token only where a production does not end       *)
(* anyway, so that an entry is made before the token behind its line is    *)
(* known.                                                                  *)
(***************************************************************************)
EXTENDS Integers, Sequences, FiniteSets

CONSTANTS Character, \* the characters, in files and in memory
          Chunk,     \* the 80 of DPL_ADD_CHAR
          Garbage    \* the strings in memory that was never written

ASSUME CharacterAssumption == "NUL" \in Character
ASSUME ChunkAssumption == Chunk \in Nat \ {0}
ASSUME GarbageAssumption == Garbage \subseteq Seq(Character) /\ Garbage # {}

VARIABLES source,    \* the characters of ctx->file
          file, at, c, indent1, indent2, cacheDeindent, cacheParseindent,
          lineno, token, depth, extra,  \* the lexer, see there
          pending,   \* the token is the lookahead of the parser
          pstate,    \* what the parser has read of the production it is in
          numbers,   \* the numbers of a date, a time or a task id
          text,      \* ctx->text as far as it was ever written
          textpos,   \* ctx->textpos
          textlen,   \* ctx->textlen
          tm,        \* ctx->tm
          entries,   \* ctx->entries
          ret        \* what yyparse returns, "none" at first

lexer == <<file, at, c, indent1, indent2, cacheDeindent, cacheParseindent,
           lineno, token, depth, extra>>
cache == <<text, textpos, textlen>>
parser == <<pstate, numbers, cache, tm, entries, ret>>
vars == <<source, lexer, pending, parser>>

Digit == {"0", "1", "2", "3", "4", "5", "6", "7", "8", "9"}
Value == [d \in Digit |->
             CHOOSE n \in 0..9 :
                 <<"0", "1", "2", "3", "4", "5", "6", "7", "8", "9">>[n + 1] = d]

\* What yylex tells apart before it knows where in a line a character stands.
Class(ch) == CASE ch = "\n"          -> "newline"
               [] ch \in {" ", "\t"} -> "blank"
               [] OTHER              -> "text"

Classes(s) == [i \in DOMAIN s |-> Class(s[i])]

Lex == INSTANCE Lexer WITH Input <- Seq({"blank", "newline", "text"})

\* The token, and ctx->c for the productions that look at it.
Ch == source[at]
Kind == CASE token = "TEXT" ->
               (CASE Ch \in Digit -> "DIGIT"
                  [] Ch = ":"     -> "COLON"
                  [] Ch = "-"     -> "HYPHEN"
                  [] Ch = "#"     -> "HASH"
                  [] OTHER        -> "LETTER")
          [] token = "BLANK" -> "SPACE"
          [] OTHER           -> token

TextChar == {"LETTER", "DIGIT", "COLON", "HASH", "HYPHEN", "SPACE"}

Init == /\ source \in Seq(Character)
        /\ file = Classes(source)
        /\ Lex!Init
        /\ pending = FALSE
        /\ pstate = "days"
        /\ numbers = <<>>
        /\ text = <<"NUL">>
        /\ textpos = 0
        /\ textlen = Chunk
        /\ tm = [day |-> 0, hour |-> 0, min |-> 0]
        /\ entries = <<>>
        /\ ret = "none"

Read == /\ ret = "none"
        /\ ~pending
        /\ Lex!yylex
        /\ pending' = TRUE
        /\ UNCHANGED <<source, parser>>

\* The parser has a token, and takes it.
Sees(states, kinds) == /\ ret = "none"
                       /\ pending
                       /\ pstate \in states
                       /\ Kind \in kinds

Consume == pending' = FALSE /\ UNCHANGED <<source, lexer>>

Enter(state) == pstate' = state

----------------------------------------------------------------------------
(* Tokens that change nothing but what is expected next. *)

\* Where the DEINDENT behind the items of a day leads.
\* Mutant of DayEnd: the day goes on.
DayEndNever == "items"
DayEnd == "days"

Shifts == {<<"year", "HYPHEN", "month0">>,
           <<"month", "HYPHEN", "mday0">>,
           <<"padding", "SPACE", "padding">>,
           <<"padding", "NEWLINE", "emptylines">>,
           <<"emptylines", "NEWLINE", "emptylines">>,
           <<"emptylines", "INDENT", "items">>,
           <<"items", "DEINDENT", DayEnd>>,
           <<"items", "NEWLINE", "items">>,
           <<"items", "HASH", "id0">>,
           <<"hour", "COLON", "minute0">>,
           <<"timed", "SPACE", "work">>,
           <<"id", "SPACE", "task">>,
           <<"body", "INDENT", "desc0">>}

Shift == \E s \in Shifts : /\ Sees({s[1]}, {s[2]})
                           /\ Consume
                           /\ Enter(s[3])
                           /\ UNCHANGED <<numbers, cache, tm, entries, ret>>

\* Where a number may begin, and where the parser is when it has.
Number == [days |-> "year", month0 |-> "month", mday0 |-> "mday",
           items |-> "hour", minute0 |-> "minute", id0 |-> "id"]
Numbers == {Number[s] : s \in DOMAIN Number}

FirstDigit == /\ Sees(DOMAIN Number, {"DIGIT"})
              /\ Consume
              /\ Enter(Number[pstate])
              /\ numbers' = Append(IF pstate \in {"days", "items", "id0"}
                                   THEN <<>> ELSE numbers, Value[Ch])
              /\ UNCHANGED <<cache, tm, entries, ret>>

NextDigit == /\ Sees(Numbers, {"DIGIT"})
             /\ Consume
             /\ numbers' = [numbers EXCEPT ![Len(numbers)] = @ * 10 + Value[Ch]]
             /\ UNCHANGED <<pstate, cache, tm, entries, ret>>

----------------------------------------------------------------------------
(* The time.  mktime is external: days are counted through months of 31    *)
(* days, times in minutes.                                                 *)

DayNumber(year, month, mday) == (year * 12 + month - 1) * 31 + mday

Minutes(t) == (t.day * 24 + t.hour) * 60 + t.min

Normal(t) == [day |-> Minutes(t) \div 1440,
              hour |-> (Minutes(t) \div 60) % 24,
              min |-> Minutes(t) % 60]

\* A date and a time end at whatever is not a digit.
EndOfNumber(state) == /\ ret = "none"
                      /\ pending
                      /\ pstate = state
                      /\ Kind # "DIGIT"
                      /\ UNCHANGED <<source, lexer, pending>>

Date == /\ EndOfNumber("mday")
        /\ Enter("padding")
        /\ tm' = [day |-> DayNumber(numbers[1], numbers[2], numbers[3]),
                  hour |-> 0, min |-> 0]
        /\ UNCHANGED <<numbers, cache, entries, ret>>

Time == /\ EndOfNumber("minute")
        /\ Enter("timed")
        /\ tm' = [tm EXCEPT !.hour = numbers[1], !.min = numbers[2]]
        /\ UNCHANGED <<numbers, cache, entries, ret>>

----------------------------------------------------------------------------
(* The string cache, a C string that begins at position 0. *)

\* Mutant of Grown: room is made when the string is longer than the buffer.
GrownLate(p) == IF p > textlen THEN Chunk + textlen * 2 ELSE textlen

\* The size of the buffer when DPL_ADD_CHAR has made room at position p.
Grown(p) == IF p >= textlen THEN Chunk + textlen * 2 ELSE textlen

Put(t, p, ch) == IF p < Len(t) THEN [t EXCEPT ![p + 1] = ch] ELSE Append(t, ch)

AddChar(p, ch) == /\ text' = Put(text, p, ch)
                  /\ textpos' = p + 1
                  /\ textlen' = Grown(p)

White == {" ", "\t", "\n"}
Chars(t) == {t[i] : i \in DOMAIN t}

\* The first position from p on with a character of S.
First(t, p, S) == CHOOSE q \in p..(Len(t) - 1) :
                     /\ t[q + 1] \in S
                     /\ \A r \in p..(q - 1) : t[r + 1] \notin S

StringEnd(t, p) == First(t, p, {"NUL"})
String(t, p) == SubSeq(t, p + 1, StringEnd(t, p))

\* dpl_skip_whitespaces: where the string begins behind its blanks, where it
\* ends in front of them, and the buffer when these are overwritten.
Skip(t, p) == First(t, p, Chars(t) \ White)
Kept(t, p) == CHOOSE q \in Skip(t, p)..StringEnd(t, p) :
                 /\ q = Skip(t, p) \/ t[q] \notin White
                 /\ \A i \in (q + 1)..StringEnd(t, p) : t[i] \in White
Stripped(t, p) == SubSeq(t, 1, Kept(t, p))
                      \o [i \in 1..(StringEnd(t, p) - Kept(t, p)) |-> "NUL"]
                      \o SubSeq(t, StringEnd(t, p) + 1, Len(t))

\* dpl_parse_name_category: the buffer, the names the entry may get and its
\* category.  Where no parenthesis closes, the name is what stands behind the
\* terminator, in a buffer that may never have been written there.
NameAndCategory(s) ==
    LET t == Stripped(s, 0)
        open == Skip(t, 0)
        cat == Skip(t, open + 1)
        close == First(t, cat, {")", "NUL"})
        cut == [t EXCEPT ![close + 1] = "NUL"]
    IN  IF t[open + 1] # "("
        THEN [text |-> t, names |-> {String(t, open)}, cat |-> {}]
        ELSE IF close + 1 < Len(t)
        THEN LET u == Stripped(cut, close + 1)
             IN  [text |-> u, names |-> {String(u, Skip(u, close + 1))},
                  cat |-> {String(u, cat)}]
        ELSE [text |-> cut, names |-> Garbage, cat |-> {String(cut, cat)}]

----------------------------------------------------------------------------
(* Entries. A string an entry does not have is {}, one it has is in a set. *)

NewEntry(type, id, name, cat) ==
    [type |-> type, begin |-> Minutes(tm), id |-> id, name |-> name,
     cat |-> cat, desc |-> {}]

\* dpl_parse_entry_new, for a line without text and for one with it.
EntryNew(type, id) ==
    /\ tm' = Normal(tm)
    /\ IF textpos' = 0
       THEN /\ entries' = Append(entries, NewEntry(type, id, {}, {}))
            /\ UNCHANGED <<text, textlen>>
       ELSE LET s == NameAndCategory(Put(text, textpos, "NUL"))
            IN  /\ text' = s.text
                /\ textlen' = Grown(textpos)
                /\ \E name \in s.names :
                      entries' = Append(entries,
                                        NewEntry(type, id, {name}, s.cat))

\* A time and nothing, or nothing but a blank.
ItemWithoutText == /\ Sees({"timed", "work"}, {"NEWLINE"})
                   /\ Consume
                   /\ Enter("items")
                   /\ textpos' = 0
                   /\ EntryNew("WORK", 0)
                   /\ UNCHANGED <<numbers, ret>>

\* The first character of a name or of a description, and the others.
FirstChar == /\ \/ /\ Sees({"work", "task"}, TextChar)
                   /\ Enter(IF pstate = "work" THEN "worktext" ELSE "tasktext")
                   /\ AddChar(0, Ch)
                \/ /\ Sees({"desc0"}, TextChar \union {"NEWLINE"})
                   /\ Enter("desc")
                   /\ AddChar(0, Ch)
             /\ Consume
             /\ UNCHANGED <<numbers, tm, entries, ret>>

NextChar == /\ \/ Sees({"worktext", "tasktext"}, TextChar)
               \/ Sees({"desc"}, TextChar \union {"NEWLINE"})
            /\ AddChar(textpos, Ch)
            /\ Consume
            /\ UNCHANGED <<pstate, numbers, tm, entries, ret>>

\* The end of the line: the entry is made.
EndOfText(state, type, id) == /\ Sees({state}, {"NEWLINE"})
                              /\ Consume
                              /\ Enter("body")
                              /\ textpos' = textpos + 1
                              /\ EntryNew(type, id)
                              /\ UNCHANGED <<numbers, ret>>

Item == EndOfText("worktext", "WORK", 0)

\* Mutant of IdAllowed: 0 is an id.
AnyIdAllowed == TRUE

IdAllowed == numbers[1] # 0

Ref == EndOfText("tasktext", "TASK", numbers[1]) /\ IdAllowed

RefError == /\ Sees({"tasktext"}, {"NEWLINE"})
            /\ ~IdAllowed
            /\ Consume
            /\ ret' = "ERR_INPUT"
            /\ UNCHANGED <<pstate, numbers, cache, tm, entries>>

\* dpl_parse_desc_set, with the cache as far as position p.
DescSet(p) ==
    IF p = 0
    THEN /\ textpos' = 0
         /\ UNCHANGED <<text, textlen, entries>>
    ELSE LET t == Stripped(Put(text, p, "NUL"), 0)
         IN  /\ text' = t
             /\ textpos' = p + 1
             /\ textlen' = Grown(p)
             /\ entries' = [entries EXCEPT ![Len(entries)].desc =
                                               {String(t, Skip(t, 0))}]

\* Mutant of EmptyBody: the name is still in the cache.
EmptyBodyKeeps == textpos

\* The cache an entry without a description leaves to dpl_parse_desc_set.
EmptyBody == 0

NoBody == /\ ret = "none"
          /\ pending
          /\ pstate = "body"
          /\ Kind # "INDENT"
          /\ Enter("items")
          /\ DescSet(EmptyBody)
          /\ UNCHANGED <<source, lexer, pending, numbers, tm, ret>>

Body == /\ Sees({"desc"}, {"DEINDENT"})
        /\ Consume
        /\ Enter("items")
        /\ DescSet(textpos)
        /\ UNCHANGED <<numbers, tm, ret>>

----------------------------------------------------------------------------
(* The end. *)

Accept == /\ Sees({"days"}, {"END"})
          /\ Consume
          /\ ret' = "OK"
          /\ UNCHANGED <<pstate, numbers, cache, tm, entries>>

\* Whether a production goes on with the token, or ends without it.
Expected ==
    \/ \E s \in Shifts : s[1] = pstate /\ s[2] = Kind
    \/ pstate \in DOMAIN Number \union Numbers /\ Kind = "DIGIT"
    \/ pstate \in {"mday", "minute", "body"}
    \/ pstate \in {"timed", "work", "worktext", "tasktext"} /\ Kind = "NEWLINE"
    \/ pstate \in {"work", "task", "worktext", "tasktext"} /\ Kind \in TextChar
    \/ pstate \in {"desc0", "desc"} /\ Kind \in TextChar \union {"NEWLINE"}
    \/ pstate = "desc" /\ Kind = "DEINDENT"
    \/ pstate = "days" /\ Kind = "END"

\* Mutant of SyntaxError: the token is skipped and the parser goes on.
SyntaxErrorSkips == /\ ret = "none"
                    /\ pending
                    /\ ~Expected
                    /\ Consume
                    /\ UNCHANGED parser

SyntaxError == /\ ret = "none"
               /\ pending
               /\ ~Expected
               /\ Consume
               /\ ret' = "ERR_SYNTAX"
               /\ UNCHANGED <<pstate, numbers, cache, tm, entries>>

\* An entry or a string cannot be allocated, or the cache cannot grow.
OutOfMemory == /\ \/ Sees({"timed", "work", "worktext"}, {"NEWLINE"})
                  \/ Sees({"tasktext"}, {"NEWLINE"}) /\ IdAllowed
                  \/ Sees({"desc"}, {"DEINDENT"})
                  \/ /\ Sees({"worktext", "tasktext"}, TextChar)
                     /\ textpos >= textlen
                  \/ /\ Sees({"desc"}, TextChar \union {"NEWLINE"})
                     /\ textpos >= textlen
               /\ Consume
               /\ ret' = "ERR_MEM"
               /\ UNCHANGED <<pstate, numbers, cache, tm, entries>>

Next == \/ Read \/ OutOfMemory
        \/ Shift \/ FirstDigit \/ NextDigit
        \/ Date \/ Time
        \/ ItemWithoutText \/ FirstChar \/ NextChar
        \/ Item \/ Ref \/ RefError \/ NoBody \/ Body
        \/ Accept \/ SyntaxError

\* dpl_parse returns when yyparse does, which no caller interrupts.
Spec == Init /\ [][Next]_vars /\ WF_vars(Next)

----------------------------------------------------------------------------
State == {"days", "year", "month0", "month", "mday0", "mday", "padding",
          "emptylines", "items", "hour", "minute0", "minute", "timed", "work",
          "worktext", "id0", "id", "task", "tasktext", "body", "desc0", "desc"}

TypeOK ==
    /\ pending \in BOOLEAN
    /\ pstate \in State
    /\ numbers \in Seq(Nat)
    /\ text \in Seq(Character)
    /\ textlen \in Nat /\ Len(text) <= textlen
    /\ textpos \in 0..Len(text)
    /\ tm \in [day : Int, hour : Nat, min : Nat]
    /\ \A i \in 1..Len(entries) :
          /\ entries[i].type \in {"WORK", "TASK"}
          /\ entries[i].begin \in Int
          /\ entries[i].id \in Nat
    /\ ret \in {"none", "OK", "ERR_SYNTAX", "ERR_INPUT", "ERR_MEM"}

\* The levels the parser is in, from the productions it has begun.
Nesting == CASE pstate \in {"desc0", "desc"} -> 2
             [] pstate \in {"items", "hour", "minute0", "minute", "timed",
                            "work", "worktext", "id0", "id", "task",
                            "tasktext", "body"} -> 1
             [] OTHER -> 0

\* What the lookahead is about to add to them.
Ahead == CASE pending /\ token = "INDENT"   -> 1
           [] pending /\ token = "DEINDENT" -> -1
           [] OTHER                         -> 0

\* Until the parser gives up, the levels of the productions
\* are the levels the lexer measures in blanks, a DEINDENT that it holds back
\* included: two counts of one thing that no code compares.
LevelsAgree ==
    ret \in {"none", "OK"} =>
        Nesting + Ahead = Lex!One(indent1 # 0) + Lex!One(indent2 # 0)
                              + Lex!One(cacheDeindent) - Lex!One(extra)

\* The parser comes to a verdict on every file.
Returns == <>(ret # "none")
=============================================================================
