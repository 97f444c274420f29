--------------------------- MODULE GrammarProofs ---------------------------
(***************************************************************************)
(* Proofs about the grammar composed with the lexer and about the string   *)
(* cache its actions keep, for every file; and, for every document, facts  *)
(* about what its lines mean, where they stand in the file and what the    *)
(* lexer makes of their characters, which DocumentsProofs rests on.        *)
(***************************************************************************)
EXTENDS Documents, SequenceTheorems,
        WellFoundedInduction, TLAPS

\* A set of natural numbers that is not empty has a least one.
LEMMA Least ==
    ASSUME NEW S \in SUBSET Nat, S # {}
    PROVE  \E m \in S : \A k \in S : m <= k
<1>1. PICK m \in S : \A k \in S : <<k, m>> \notin OpToRel(<, Nat)
  BY NatLessThanWellFounded, WFMin
<1>2. \A k \in S : ~(k < m)
  BY <1>1 DEF OpToRel
<1>. QED
  BY <1>2

\* A set of numbers that has 0, and each number's successor, has all of them.
LEMMA Induction ==
    ASSUME NEW S \in SUBSET Nat, 0 \in S, \A n \in S : n + 1 \in S
    PROVE  S = Nat
<1>. SUFFICES ASSUME Nat \ S # {}
              PROVE  FALSE
  OBVIOUS
<1>1. PICK m \in Nat \ S : \A k \in Nat \ S : <<k, m>> \notin OpToRel(<, Nat)
  BY NatLessThanWellFounded, WFMin
<1>2. \A k \in Nat \ S : ~(k < m)
  BY <1>1 DEF OpToRel
<1>3. m \in Nat /\ m \notin S /\ m # 0
  OBVIOUS
<1>4. m - 1 \in S
  BY <1>2, <1>3
<1>. QED
  BY <1>3, <1>4

\* What is proved of the lexer alone holds of the lexer that yyparse calls.
LP == INSTANCE LexerProofs WITH Input <- Seq({"blank", "newline", "text"})

LEMMA SameLexer == Lex!yylex => LP!yylex
BY DEF Lex!yylex, LP!yylex, Lex!ReturnCached, LP!ReturnCached,
       Lex!BlankLine, LP!BlankLine, Lex!IndentLine, LP!IndentLine,
       Lex!Indent1, LP!Indent1, Lex!Deindent1, LP!Deindent1,
       Lex!Indent2, LP!Indent2, Lex!DeindentBoth, LP!DeindentBoth,
       Lex!Deindent2, LP!Deindent2, Lex!IndentError, LP!IndentError,
       Lex!CharToToken, LP!CharToToken, Lex!NewLine, LP!NewLine,
       Lex!Other, LP!Other, Lex!EOFLevel2, LP!EOFLevel2,
       Lex!EOFLevel1, LP!EOFLevel1, Lex!EOFLevel0, LP!EOFLevel0,
       Lex!AtEOF, LP!AtEOF, Lex!ReadsChar, LP!ReadsChar,
       Lex!ChangeIndent, LP!ChangeIndent, Lex!AtIndent, LP!AtIndent,
       Lex!ReadsIndent, LP!ReadsIndent, Lex!Return, LP!Return,
       Lex!Running, LP!Running, Lex!CharAt, LP!CharAt,
       Lex!PastChar, LP!PastChar, Lex!EOF, LP!EOF

LEMMA LexerAssumptions ==
    /\ Seq({"blank", "newline", "text"}) \subseteq Seq(LP!Char)
    /\ LP!EOF \notin LP!Char
BY DEF LP!Char, LP!EOF

LEMMA LexStep ==
    ASSUME LP!IInv, Lex!yylex
    PROVE  LP!IInv'
<1>1. LP!yylex
  BY SameLexer
<1>2. LP!IInv /\ [LP!yylex]_LP!vars => LP!IInv'
  BY LP!NextInv, LexerAssumptions
<1>. QED
  BY <1>1, <1>2

\* The parser is told of the levels by tokens alone.
LEMMA Told ==
    ASSUME Lex!yylex
    PROVE  /\ token' = "INDENT" => depth' = depth + 1
           /\ token' = "DEINDENT" => depth' = depth - 1
           /\ token' \notin {"INDENT", "DEINDENT"} => depth' = depth
<1>1. \E tok \in {"INDENT", "DEINDENT", "NEWLINE", "BLANK", "TEXT", "END"} :
         Lex!Return(tok)
  BY DEF Lex!yylex, Lex!ReturnCached, Lex!BlankLine, Lex!IndentLine,
         Lex!Indent1, Lex!Deindent1, Lex!Indent2, Lex!DeindentBoth,
         Lex!Deindent2, Lex!IndentError, Lex!CharToToken, Lex!NewLine,
         Lex!Other, Lex!EOFLevel2, Lex!EOFLevel1, Lex!EOFLevel0
<1>. QED
  BY <1>1 DEF Lex!Return

\* The kinds of tokens that are neither INDENT nor DEINDENT change no level.
LEMMA Kinds ==
    /\ Kind = "INDENT" <=> token = "INDENT"
    /\ Kind = "DEINDENT" <=> token = "DEINDENT"
BY DEF Kind

LEMMA AheadValue ==
    /\ pending /\ token = "INDENT" => Ahead = 1
    /\ pending /\ token = "DEINDENT" => Ahead = -1
    /\ ~pending \/ token \notin {"INDENT", "DEINDENT"} => Ahead = 0
    /\ Ahead \in {-1, 0, 1}
BY DEF Ahead

LEMMA AheadNext ==
    /\ pending' /\ token' = "INDENT" => Ahead' = 1
    /\ pending' /\ token' = "DEINDENT" => Ahead' = -1
    /\ ~pending' \/ token' \notin {"INDENT", "DEINDENT"} => Ahead' = 0
    /\ Ahead' \in {-1, 0, 1}
BY DEF Ahead

LEMMA NestingValue == Nesting \in {0, 1, 2}
BY DEF Nesting

LEMMA NestingNext == Nesting' \in {0, 1, 2}
BY DEF Nesting

----------------------------------------------------------------------------
\* The levels of the productions are those the tokens tell of, the lookahead
\* included.
ToldLevels == ret \in {"none", "OK"} => Nesting + Ahead = depth

IInv == /\ LP!IInv
        /\ pending \in BOOLEAN
        /\ pstate \in State
        /\ ToldLevels

LEMMA InitInv == Init => IInv
<1>. SUFFICES ASSUME Init
              PROVE  IInv
  OBVIOUS
<1>1. LP!Init
  BY DEF Init, Lex!Init, LP!Init, Lex!EOF, LP!EOF
<1>2. LP!IInv
  BY <1>1, LP!InitInv, LexerAssumptions
<1>3. /\ ~pending /\ pending \in BOOLEAN
      /\ pstate = "days" /\ depth = 0 /\ ret = "none"
  BY DEF Init, Lex!Init
<1>4. Nesting = 0 /\ Ahead = 0
  BY <1>3, AheadValue DEF Nesting
<1>5. pstate \in State
  BY <1>3 DEF State
<1>6. ToldLevels
  BY <1>3, <1>4 DEF ToldLevels
<1>. QED
  BY <1>2, <1>3, <1>5, <1>6 DEF IInv

\* A step that takes the lookahead and enters a state that is as deep as the
\* token says.
LEMMA Taken ==
    ASSUME IInv, pending, ret = "none", Consume, pstate' \in State,
           Nesting' = Nesting + Ahead
    PROVE  IInv'
<1>1. LP!IInv'
  <2>1. UNCHANGED LP!vars
    BY DEF Consume, lexer, LP!vars
  <2>2. LP!IInv /\ [LP!yylex]_LP!vars => LP!IInv'
    BY LP!NextInv, LexerAssumptions
  <2>. QED
    BY <2>1, <2>2 DEF IInv
<1>2. ~pending' /\ pending' \in BOOLEAN /\ depth' = depth /\ depth \in Int
  BY DEF Consume, lexer, IInv, LP!IInv, LP!TypeOK
<1>3. Nesting + Ahead = depth
  BY DEF IInv, ToldLevels
<1>4. Ahead' = 0
  BY <1>2, AheadNext
<1>5. ToldLevels'
  BY <1>2, <1>3, <1>4, NestingNext DEF ToldLevels
<1>. QED
  BY <1>1, <1>2, <1>5 DEF IInv

\* A production that ends in front of the lookahead.
LEMMA Left ==
    ASSUME IInv, ret = "none", UNCHANGED <<lexer, pending>>, pstate' \in State,
           Nesting' = Nesting
    PROVE  IInv'
<1>1. LP!IInv'
  <2>1. UNCHANGED LP!vars
    BY DEF lexer, LP!vars
  <2>2. LP!IInv /\ [LP!yylex]_LP!vars => LP!IInv'
    BY LP!NextInv, LexerAssumptions
  <2>. QED
    BY <2>1, <2>2 DEF IInv
<1>2. Ahead' = Ahead /\ depth' = depth /\ pending' \in BOOLEAN
  BY DEF Ahead, lexer, IInv
<1>3. Nesting + Ahead = depth
  BY DEF IInv, ToldLevels
<1>4. ToldLevels'
  BY <1>2, <1>3 DEF ToldLevels
<1>. QED
  BY <1>1, <1>2, <1>4 DEF IInv

\* Where the parser gives up nothing is claimed of the levels.
LEMMA GivenUp ==
    ASSUME IInv, Consume, UNCHANGED pstate, ret' \notin {"none", "OK"}
    PROVE  IInv'
<1>1. LP!IInv'
  <2>1. UNCHANGED LP!vars
    BY DEF Consume, lexer, LP!vars
  <2>2. LP!IInv /\ [LP!yylex]_LP!vars => LP!IInv'
    BY LP!NextInv, LexerAssumptions
  <2>. QED
    BY <2>1, <2>2 DEF IInv
<1>2. pending' \in BOOLEAN
  BY DEF Consume
<1>. QED
  BY <1>1, <1>2 DEF IInv, ToldLevels

LEMMA ReadInv == IInv /\ Read => IInv'
<1>. SUFFICES ASSUME IInv, Read
              PROVE  IInv'
  OBVIOUS
<1>1. LP!IInv'
  BY LexStep DEF IInv, Read
<1>2. /\ ~pending /\ pending' /\ pending' \in BOOLEAN
      /\ ret = "none" /\ ret' = "none"
      /\ pstate' = pstate /\ depth \in Int
  BY DEF Read, parser, IInv, LP!IInv, LP!TypeOK
<1>3. Nesting \in {0, 1, 2} /\ Nesting' = Nesting
  BY <1>2 DEF Nesting
<1>4. Nesting = depth
  <2>1. Ahead = 0
    BY <1>2, AheadValue
  <2>. QED
    BY <1>2, <1>3, <2>1 DEF IInv, ToldLevels
<1>5. Nesting' + Ahead' = depth'
  <2>1. CASE token' = "INDENT"
    BY <1>2, <1>3, <1>4, <2>1, Told, AheadNext DEF Read
  <2>2. CASE token' = "DEINDENT"
    BY <1>2, <1>3, <1>4, <2>2, Told, AheadNext DEF Read
  <2>3. CASE token' \notin {"INDENT", "DEINDENT"}
    BY <1>2, <1>3, <1>4, <2>3, Told, AheadNext DEF Read
  <2>. QED
    BY <2>1, <2>2, <2>3
<1>. QED
  BY <1>1, <1>2, <1>5 DEF IInv, ToldLevels

\* The levels of a state.
Level(state) == CASE state \in {"desc0", "desc"} -> 2
                  [] state \in {"items", "hour", "minute0", "minute", "timed",
                                "work", "worktext", "id0", "id", "task",
                                "tasktext", "body"} -> 1
                  [] OTHER -> 0

LEMMA ShiftLevels ==
    ASSUME NEW s \in Shifts
    PROVE  /\ s[3] \in State
           /\ s[2] = "INDENT" => Level(s[3]) = Level(s[1]) + 1
           /\ s[2] = "DEINDENT" => Level(s[3]) = Level(s[1]) - 1
           /\ s[2] \notin {"INDENT", "DEINDENT"} => Level(s[3]) = Level(s[1])
BY DEF Shifts, DayEnd, State, Level

LEMMA ShiftInv == IInv /\ Shift => IInv'
<1>. SUFFICES ASSUME IInv, NEW s \in Shifts, Sees({s[1]}, {s[2]}), Consume,
                     Enter(s[3])
              PROVE  IInv'
  BY DEF Shift
<1>1. ret = "none" /\ pending /\ pstate = s[1] /\ Kind = s[2] /\ pstate' = s[3]
  BY DEF Sees, Enter
<1>2. /\ token = "INDENT" <=> s[2] = "INDENT"
      /\ token = "DEINDENT" <=> s[2] = "DEINDENT"
  BY <1>1, Kinds
<1>3. Nesting = Level(s[1]) /\ Nesting' = Level(s[3])
  BY <1>1 DEF Nesting, Level
<1>4. Nesting' = Nesting + Ahead
  BY <1>1, <1>2, <1>3, ShiftLevels, NestingValue, AheadValue
<1>5. pstate' \in State
  BY <1>1, ShiftLevels
<1>. QED
  BY <1>1, <1>4, <1>5, Taken

\* The productions between an INDENT and its DEINDENT.
LEMMA TakenInside ==
    ASSUME IInv, NEW states \in SUBSET State, NEW kinds, Sees(states, kinds),
           Consume, {"INDENT", "DEINDENT"} \intersect kinds = {},
           pstate' \in State, Level(pstate') = Level(pstate)
    PROVE  IInv'
<1>1. ret = "none" /\ pending /\ Kind \in kinds
  BY DEF Sees
<1>2. token \notin {"INDENT", "DEINDENT"}
  BY <1>1, Kinds
<1>3. Nesting = Level(pstate) /\ Nesting' = Level(pstate')
  BY DEF Nesting, Level
<1>4. Nesting' = Nesting + Ahead
  BY <1>2, <1>3, NestingValue, AheadValue
<1>. QED
  BY <1>1, <1>4, Taken

LEMMA DigitInv == IInv /\ (FirstDigit \/ NextDigit) => IInv'
<1>1. ASSUME IInv, FirstDigit
      PROVE  IInv'
  <2>1. /\ Sees({"days", "month0", "mday0", "items", "minute0", "id0"},
                {"DIGIT"})
        /\ pstate' = Number[pstate]
        /\ Consume
    BY <1>1 DEF FirstDigit, Enter, Number
  <2>2. pstate \in {"days", "month0", "mday0", "items", "minute0", "id0"}
    BY <2>1 DEF Sees
  <2>3. pstate' \in State /\ Level(pstate') = Level(pstate)
    BY <2>1, <2>2 DEF Number, State, Level
  <2>4. {"days", "month0", "mday0", "items", "minute0", "id0"} \in SUBSET State
    BY DEF State
  <2>. QED
    BY <1>1, <2>1, <2>3, <2>4, TakenInside
<1>2. ASSUME IInv, NextDigit
      PROVE  IInv'
  <2>1. Sees(Numbers, {"DIGIT"}) /\ Consume /\ pstate' = pstate
    BY <1>2 DEF NextDigit
  <2>2. pstate' \in State /\ Level(pstate') = Level(pstate)
    BY <1>2, <2>1 DEF IInv
  <2>3. Numbers \in SUBSET State
    BY DEF Numbers, Number, State
  <2>. QED
    BY <1>2, <2>1, <2>2, <2>3, TakenInside
<1>. QED
  BY <1>1, <1>2

LEMMA TimeInv == IInv /\ (Date \/ Time \/ NoBody) => IInv'
<1>. SUFFICES ASSUME IInv, Date \/ Time \/ NoBody
              PROVE  IInv'
  OBVIOUS
<1>1. /\ ret = "none"
      /\ UNCHANGED <<lexer, pending>>
      /\ \/ pstate = "mday" /\ pstate' = "padding"
         \/ pstate = "minute" /\ pstate' = "timed"
         \/ pstate = "body" /\ pstate' = "items"
  BY DEF Date, Time, NoBody, EndOfNumber, Enter
<1>2. pstate' \in State /\ Nesting' = Nesting
  BY <1>1 DEF State, Nesting
<1>. QED
  BY <1>1, <1>2, Left

LEMMA TextInv ==
    IInv /\ (ItemWithoutText \/ FirstChar \/ NextChar \/ Item \/ Ref) => IInv'
<1>. DEFINE states == {"timed", "work", "worktext", "task", "tasktext",
                       "desc0", "desc"}
            kinds == TextChar \union {"NEWLINE"}
<1>. SUFFICES ASSUME IInv, ItemWithoutText \/ FirstChar \/ NextChar
                           \/ Item \/ Ref
              PROVE  IInv'
  OBVIOUS
<1>1. /\ Sees(states, kinds)
      /\ Consume
      /\ \/ pstate \in {"timed", "work", "worktext", "task", "tasktext"}
            /\ pstate' \in {"items", "worktext", "tasktext", "body"}
         \/ pstate \in {"desc0", "desc"} /\ pstate' = "desc"
         \/ pstate' = pstate
  BY DEF ItemWithoutText, FirstChar, NextChar, Item, Ref, EndOfText, Sees,
         Enter
<1>2. pstate' \in State /\ Level(pstate') = Level(pstate)
  BY <1>1 DEF State, Level, Sees
<1>3. states \in SUBSET State /\ {"INDENT", "DEINDENT"} \intersect kinds = {}
  BY DEF State, TextChar
<1>. QED
  BY <1>1, <1>2, <1>3, TakenInside

LEMMA BodyInv == IInv /\ Body => IInv'
<1>. SUFFICES ASSUME IInv, Body
              PROVE  IInv'
  OBVIOUS
<1>1. /\ ret = "none" /\ pending /\ Kind = "DEINDENT"
      /\ Consume /\ pstate = "desc" /\ pstate' = "items"
  BY DEF Body, Sees, Enter
<1>2. pstate' \in State /\ Nesting = 2 /\ Nesting' = 1
  BY <1>1 DEF State, Nesting
<1>3. Ahead = -1
  BY <1>1, Kinds, AheadValue
<1>4. Nesting' = Nesting + Ahead
  BY <1>2, <1>3
<1>. QED
  BY <1>1, <1>2, <1>4, Taken

LEMMA EndInv ==
    IInv /\ (RefError \/ Accept \/ SyntaxError \/ OutOfMemory) => IInv'
<1>1. ASSUME IInv, Accept
      PROVE  IInv'
  <2>1. Sees({"days"}, {"END"}) /\ Consume /\ pstate' = pstate
    BY <1>1 DEF Accept
  <2>2. pstate' \in State /\ Level(pstate') = Level(pstate)
    BY <1>1, <2>1 DEF IInv
  <2>3. {"days"} \in SUBSET State
    BY DEF State
  <2>. QED
    BY <1>1, <2>1, <2>2, <2>3, TakenInside
<1>2. ASSUME IInv, RefError \/ SyntaxError \/ OutOfMemory
      PROVE  IInv'
  <2>1. /\ Consume
        /\ UNCHANGED pstate
        /\ ret' \in {"ERR_INPUT", "ERR_SYNTAX", "ERR_MEM"}
    BY <1>2 DEF RefError, SyntaxError, OutOfMemory
  <2>. QED
    BY <1>2, <2>1, GivenUp
<1>. QED
  BY <1>1, <1>2

LEMMA StutterInv == IInv /\ UNCHANGED vars => IInv'
<1>. SUFFICES ASSUME IInv, UNCHANGED vars
              PROVE  IInv'
  OBVIOUS
<1>1. LP!IInv'
  <2>1. UNCHANGED LP!vars
    BY DEF vars, lexer, LP!vars
  <2>2. LP!IInv /\ [LP!yylex]_LP!vars => LP!IInv'
    BY LP!NextInv, LexerAssumptions
  <2>. QED
    BY <2>1, <2>2 DEF IInv
<1>2. /\ pending' = pending /\ pstate' = pstate /\ ret' = ret
      /\ token' = token /\ depth' = depth
  BY DEF vars, lexer, parser
<1>3. Nesting' = Nesting /\ Ahead' = Ahead
  BY <1>2 DEF Nesting, Ahead
<1>. QED
  BY <1>1, <1>2, <1>3 DEF IInv, ToldLevels

LEMMA NextInv == IInv /\ [Next]_vars => IInv'
<1>1. IInv /\ Next => IInv'
  BY ReadInv, ShiftInv, DigitInv, TimeInv, TextInv, BodyInv, EndInv DEF Next
<1>. QED
  BY <1>1, StutterInv

\* On every file, and at every token of it, the productions the parser has
\* begun are as deep as the blanks the lexer has measured: the parser never
\* takes a line for one of another level, until it reports an error.
THEOREM LevelsAreOne == Spec => []LevelsAgree
<1>1. IInv => LevelsAgree
  BY DEF IInv, LP!IInv, LP!DepthExact, ToldLevels, LevelsAgree, Lex!One, LP!One
<1>2. Spec => []IInv
  BY InitInv, NextInv, PTL DEF Spec
<1>. QED
  BY <1>1, <1>2, PTL
----------------------------------------------------------------------------
(* The string cache.                                                        *)

\* A buffer whose last character is a terminator, so that every string in it
\* has an end.
Ends(t) == t \in Seq(Character) /\ Len(t) > 0 /\ t[Len(t)] = "NUL"

\* The first character of a kind from p on, when there is one at n.
LEMMA FirstFound ==
    ASSUME NEW t \in Seq(Character), NEW p \in Nat, NEW S,
           NEW n \in p..(Len(t) - 1), t[n + 1] \in S
    PROVE  /\ First(t, p, S) \in p..n
           /\ t[First(t, p, S) + 1] \in S
           /\ \A r \in p..(First(t, p, S) - 1) : t[r + 1] \notin S
<1>. DEFINE Q == {q \in Nat : q \in p..(Len(t) - 1) /\ t[q + 1] \in S}
<1>1. Len(t) \in Nat /\ n \in Nat /\ n \in Q
  BY LenProperties
<1>2. PICK m \in Q : \A k \in Q : m <= k
  <2>1. Q \in SUBSET Nat /\ Q # {}
    BY <1>1
  <2>. QED
    BY <2>1, Least
<1>3. /\ m \in p..(Len(t) - 1)
      /\ t[m + 1] \in S
      /\ \A r \in p..(m - 1) : t[r + 1] \notin S
  <2>1. m \in p..(Len(t) - 1) /\ t[m + 1] \in S
    OBVIOUS
  <2>2. ASSUME NEW r \in p..(m - 1), t[r + 1] \in S
        PROVE  FALSE
    <3>1. r \in Q /\ r < m
      BY <1>1, <2>1, <2>2
    <3>. QED
      BY <1>1, <1>2, <3>1
  <2>. QED
    BY <2>1, <2>2
<1>. HIDE DEF Q
<1>4. PICK f : f = First(t, p, S)
  OBVIOUS
<1>5. /\ f \in p..(Len(t) - 1)
      /\ t[f + 1] \in S
      /\ \A r \in p..(f - 1) : t[r + 1] \notin S
  BY <1>3, <1>4 DEF First
<1>6. f <= n
  BY <1>1, <1>5
<1>. QED
  BY <1>1, <1>4, <1>5, <1>6

LEMMA StringEnds ==
    ASSUME NEW t, Ends(t), NEW p \in 0..(Len(t) - 1)
    PROVE  /\ StringEnd(t, p) \in p..(Len(t) - 1)
           /\ t[StringEnd(t, p) + 1] = "NUL"
           /\ String(t, p) \in Seq(Character)
<1>1. t \in Seq(Character) /\ Len(t) \in Nat /\ t[(Len(t) - 1) + 1] \in {"NUL"}
  BY LenProperties DEF Ends
<1>2. Len(t) - 1 \in p..(Len(t) - 1) /\ p \in Nat
  BY <1>1
<1>3. /\ StringEnd(t, p) \in p..(Len(t) - 1)
      /\ t[StringEnd(t, p) + 1] \in {"NUL"}
  BY <1>1, <1>2, FirstFound DEF StringEnd
<1>4. /\ p + 1 \in 1..(Len(t) + 1) /\ StringEnd(t, p) \in 0..Len(t)
  BY <1>1, <1>2, <1>3
<1>5. SubSeq(t, p + 1, StringEnd(t, p)) \in Seq(Character)
  BY <1>1, <1>4, SubSeqProperties
<1>. QED
  BY <1>3, <1>5 DEF String

\* Blanks are skipped as far as the end of the string at most.
LEMMA SkipEnds ==
    ASSUME NEW t, Ends(t), NEW p \in 0..(Len(t) - 1)
    PROVE  Skip(t, p) \in p..StringEnd(t, p)
<1>1. t \in Seq(Character) /\ Len(t) \in Nat /\ p \in Nat
  BY LenProperties DEF Ends
<1>2. PICK e : e = StringEnd(t, p)
  OBVIOUS
<1>3. e \in p..(Len(t) - 1) /\ t[e + 1] = "NUL"
  BY <1>2, StringEnds
<1>4. t[e + 1] \in Chars(t) \ White
  <2>1. e + 1 \in DOMAIN t
    BY <1>1, <1>3
  <2>. QED
    BY <1>3, <2>1 DEF Chars, White
<1>. QED
  BY <1>1, <1>2, <1>3, <1>4, FirstFound DEF Skip

\* There is a last character that is not blank, or none but blanks.
LEMMA KeptFound ==
    ASSUME NEW t, Ends(t), NEW p \in 0..(Len(t) - 1)
    PROVE  Kept(t, p) \in Skip(t, p)..StringEnd(t, p)
<1>1. PICK a, e : a = Skip(t, p) /\ e = StringEnd(t, p)
  OBVIOUS
<1>2. a \in Nat /\ e \in Nat /\ a <= e
  <2>1. Len(t) \in Nat
    BY LenProperties DEF Ends
  <2>. QED
    BY <1>1, <2>1, SkipEnds, StringEnds
<1>. DEFINE Q == {q \in Nat : /\ q \in a..e
                              /\ \A i \in (q + 1)..e : t[i] \in White}
<1>3. PICK m \in Q : \A k \in Q : m <= k
  <2>1. e \in Q
    BY <1>2
  <2>2. Q \in SUBSET Nat /\ Q # {}
    BY <2>1
  <2>. QED
    BY <2>2, Least
<1>4. m \in a..e /\ \A i \in (m + 1)..e : t[i] \in White
  OBVIOUS
<1>5. m = a \/ t[m] \notin White
  <2>. SUFFICES ASSUME m # a, t[m] \in White
                PROVE  FALSE
    OBVIOUS
  <2>1. m - 1 \in Nat /\ m - 1 \in a..e
    BY <1>2, <1>4
  <2>2. \A i \in ((m - 1) + 1)..e : t[i] \in White
    BY <1>2, <1>4
  <2>3. m - 1 \in Q
    BY <2>1, <2>2
  <2>. QED
    BY <1>2, <1>3, <1>4, <2>3
<1>. HIDE DEF Q
<1>6. Kept(t, p) = CHOOSE q \in a..e : /\ q = a \/ t[q] \notin White
                                       /\ \A i \in (q + 1)..e : t[i] \in White
  BY <1>1 DEF Kept
<1>7. Kept(t, p) \in a..e
  BY <1>4, <1>5, <1>6
<1>. QED
  BY <1>1, <1>7

\* dpl_skip_whitespaces writes terminators alone, and none behind the string.
LEMMA StrippedEnds ==
    ASSUME NEW t, Ends(t), NEW p \in 0..(Len(t) - 1)
    PROVE  Ends(Stripped(t, p)) /\ Len(Stripped(t, p)) = Len(t)
<1>1. PICK k, e, n : k = Kept(t, p) /\ e = StringEnd(t, p) /\ n = Len(t)
  OBVIOUS
<1>2. /\ t \in Seq(Character) /\ n \in Nat /\ k \in Nat /\ e \in Nat
      /\ k <= e /\ e < n /\ t[n] = "NUL"
  <2>1. t \in Seq(Character) /\ Len(t) \in Nat /\ t[Len(t)] = "NUL"
    BY LenProperties DEF Ends
  <2>2. /\ Kept(t, p) \in Skip(t, p)..StringEnd(t, p)
        /\ Skip(t, p) \in p..StringEnd(t, p)
        /\ StringEnd(t, p) \in p..(Len(t) - 1)
    BY KeptFound, SkipEnds, StringEnds
  <2>. QED
    BY <1>1, <2>1, <2>2
<1>. DEFINE front == SubSeq(t, 1, k)
            nuls == [i \in 1..(e - k) |-> "NUL"]
            back == SubSeq(t, e + 1, n)
<1>3. front \in Seq(Character) /\ Len(front) = k
  <2>1. 1 \in 1..(Len(t) + 1) /\ k \in 0..Len(t)
    BY <1>1, <1>2
  <2>2. front \in Seq(Character)
    BY <1>2, <2>1, SubSeqProperties
  <2>3. Len(front) = IF 1 <= k THEN k - 1 + 1 ELSE 0
    BY <1>2, <2>1, SubSeqProperties
  <2>. QED
    BY <1>2, <2>2, <2>3
<1>4. nuls \in Seq(Character) /\ Len(nuls) = e - k
  <2>1. "NUL" \in Character
    BY CharacterAssumption
  <2>2. nuls \in [1..(e - k) -> Character] /\ e - k \in Nat
    BY <1>2, <2>1
  <2>. QED
    BY <2>2, SeqDef, LenProperties
<1>5. /\ back \in Seq(Character) /\ Len(back) = n - e
      /\ back[n - e] = "NUL"
  <2>1. e + 1 \in 1..(Len(t) + 1) /\ n \in 0..Len(t) /\ e + 1 <= n
    BY <1>1, <1>2
  <2>2. back \in Seq(Character)
    BY <1>2, <2>1, SubSeqProperties
  <2>3. Len(back) = n - (e + 1) + 1
    BY <1>2, <2>1, SubSeqProperties
  <2>4. \A i \in 1..(n - (e + 1) + 1) : back[i] = t[e + 1 + i - 1]
    BY <1>2, <2>1, SubSeqProperties
  <2>5. n - e \in 1..(n - (e + 1) + 1) /\ e + 1 + (n - e) - 1 = n
    BY <1>2
  <2>6. back[n - e] = t[n]
    BY <2>4, <2>5
  <2>. QED
    BY <1>2, <2>2, <2>3, <2>6
<1>6. Stripped(t, p) = front \o nuls \o back
  BY <1>1 DEF Stripped
<1>. HIDE DEF front, nuls, back
<1>. DEFINE head == front \o nuls
<1>7. head \in Seq(Character) /\ Len(head) = e
  <2>1. front \in Seq(Character) /\ nuls \in Seq(Character)
    BY <1>3, <1>4
  <2>2. head \in Seq(Character) /\ Len(head) = Len(front) + Len(nuls)
    BY <2>1, ConcatProperties
  <2>3. Len(front) + Len(nuls) = e
    BY <1>2, <1>3, <1>4
  <2>. QED
    BY <2>2, <2>3
<1>. HIDE DEF head
<1>8. /\ head \o back \in Seq(Character) /\ Len(head \o back) = n
      /\ (head \o back)[n] = "NUL"
  <2>1. head \o back \in Seq(Character) /\ Len(head \o back) = e + (n - e)
    BY <1>5, <1>7, ConcatProperties
  <2>2. n \in 1..(Len(head) + Len(back)) /\ ~(n <= Len(head))
    BY <1>2, <1>5, <1>7
  <2>3. (head \o back)[n] = back[n - Len(head)]
    BY <1>5, <1>7, <2>2, ConcatProperties
  <2>. QED
    BY <1>2, <1>5, <1>7, <2>1, <2>3
<1>. QED
  BY <1>1, <1>2, <1>6, <1>8 DEF Ends, head

\* A character is put where the string ends.
LEMMA PutTyped ==
    ASSUME NEW t \in Seq(Character), NEW p \in 0..Len(t), NEW ch \in Character
    PROVE  /\ Put(t, p, ch) \in Seq(Character)
           /\ Len(Put(t, p, ch)) = IF p < Len(t) THEN Len(t) ELSE p + 1
           /\ Put(t, p, ch)[p + 1] = ch
           /\ \A i \in 1..Len(t) : i # p + 1 => Put(t, p, ch)[i] = t[i]
<1>1. Len(t) \in Nat /\ p \in Nat
  BY LenProperties
<1>2. CASE p < Len(t)
  <2>1. p + 1 \in 1..Len(t) /\ Put(t, p, ch) = [t EXCEPT ![p + 1] = ch]
    BY <1>1, <1>2 DEF Put
  <2>. QED
    BY <1>1, <1>2, <2>1, ExceptSeq
<1>3. CASE p = Len(t)
  <2>1. Put(t, p, ch) = Append(t, ch)
    BY <1>1, <1>3 DEF Put
  <2>. QED
    BY <1>1, <1>3, <2>1, AppendProperties
<1>. QED
  BY <1>1, <1>2, <1>3

\* A terminator at the end of the string being written ends the buffer too.
LEMMA PutNul ==
    ASSUME NEW t \in Seq(Character), NEW p \in 0..Len(t), Ends(t) \/ p = Len(t)
    PROVE  /\ Ends(Put(t, p, "NUL"))
           /\ Len(Put(t, p, "NUL")) = IF p < Len(t) THEN Len(t) ELSE p + 1
<1>1. PICK u : u = Put(t, p, "NUL")
  OBVIOUS
<1>2. /\ u \in Seq(Character)
      /\ Len(u) = IF p < Len(t) THEN Len(t) ELSE p + 1
      /\ u[p + 1] = "NUL"
      /\ \A i \in 1..Len(t) : i # p + 1 => u[i] = t[i]
  BY <1>1, PutTyped, CharacterAssumption
<1>3. Len(t) \in Nat /\ p \in Nat
  BY LenProperties
<1>4. u[Len(u)] = "NUL" /\ Len(u) > 0
  <2>1. CASE Len(u) = p + 1
    BY <1>2, <1>3, <2>1
  <2>2. CASE Len(u) # p + 1
    <3>1. Ends(t) /\ Len(u) = Len(t) /\ Len(t) \in 1..Len(t)
      BY <1>2, <1>3, <2>2
    <3>. QED
      BY <1>2, <2>2, <3>1 DEF Ends
  <2>. QED
    BY <2>1, <2>2
<1>. QED
  BY <1>1, <1>2, <1>4 DEF Ends

\* dpl_parse_name_category never leaves what was written, and leaves a
\* terminator at its end.
LEMMA NameTyped ==
    ASSUME NEW s, Ends(s)
    PROVE  /\ Ends(NameAndCategory(s).text)
           /\ Len(NameAndCategory(s).text) = Len(s)
           /\ NameAndCategory(s).names \subseteq Seq(Character)
           /\ NameAndCategory(s).cat \subseteq Seq(Character)
<1>1. Len(s) \in Nat /\ 0 \in 0..(Len(s) - 1)
  BY LenProperties DEF Ends
<1>2. PICK t, n : t = Stripped(s, 0) /\ n = Len(s)
  OBVIOUS
<1>3. Ends(t) /\ Len(t) = n /\ n \in Nat \ {0}
  BY <1>1, <1>2, StrippedEnds DEF Ends
<1>4. PICK open : open = Skip(t, 0)
  OBVIOUS
<1>5. open \in 0..(n - 1)
  BY <1>3, <1>4, SkipEnds, StringEnds
<1>6. CASE t[open + 1] # "("
  <2>1. NameAndCategory(s) =
            [text |-> t, names |-> {String(t, open)}, cat |-> {}]
    BY <1>2, <1>4, <1>6 DEF NameAndCategory
  <2>2. String(t, open) \in Seq(Character)
    BY <1>3, <1>5, StringEnds
  <2>. QED
    BY <1>2, <1>3, <2>1, <2>2
<1>7. CASE t[open + 1] = "("
  <2>1. open + 1 \in 0..(n - 1)
    <3>1. t[n] = "NUL"
      BY <1>3 DEF Ends
    <3>2. open + 1 # n
      BY <1>7, <3>1
    <3>. QED
      BY <1>3, <1>5, <3>2
  <2>2. PICK cat, close : /\ cat = Skip(t, open + 1)
                          /\ close = First(t, cat, {")", "NUL"})
    OBVIOUS
  <2>3. cat \in 0..(n - 1)
    BY <1>3, <2>1, <2>2, SkipEnds, StringEnds
  <2>4. close \in 0..(n - 1)
    <3>1. t \in Seq(Character) /\ t[(n - 1) + 1] \in {")", "NUL"}
      BY <1>3 DEF Ends
    <3>2. n - 1 \in cat..(Len(t) - 1) /\ cat \in Nat
      BY <1>3, <2>3
    <3>3. First(t, cat, {")", "NUL"}) \in cat..(n - 1)
      BY <3>1, <3>2, FirstFound
    <3>. QED
      BY <2>2, <2>3, <3>3
  <2>5. PICK cut : cut = [t EXCEPT ![close + 1] = "NUL"]
    OBVIOUS
  <2>6. Ends(cut) /\ Len(cut) = n
    <3>1. close + 1 \in 1..Len(t) /\ t \in Seq(Character) /\ t[n] = "NUL"
      BY <1>3, <2>4 DEF Ends
    <3>2. cut \in Seq(Character) /\ Len(cut) = n
      BY <1>3, <2>5, <3>1, CharacterAssumption, ExceptSeq
    <3>3. cut[n] = "NUL"
      <4>1. \A i \in 1..Len(t) :
                cut[i] = IF i = close + 1 THEN "NUL" ELSE t[i]
        BY <2>5, <3>1, CharacterAssumption, ExceptSeq
      <4>. QED
        BY <1>3, <3>1, <4>1
    <3>. QED
      BY <1>3, <3>2, <3>3 DEF Ends
  <2>7. CASE close + 1 < n
    <3>1. PICK u : u = Stripped(cut, close + 1)
      OBVIOUS
    <3>2. close + 1 \in 0..(Len(cut) - 1)
      BY <1>3, <2>4, <2>6, <2>7
    <3>3. Ends(u) /\ Len(u) = n
      BY <2>6, <3>1, <3>2, StrippedEnds
    <3>4. /\ Skip(u, close + 1) \in (close + 1)..StringEnd(u, close + 1)
          /\ StringEnd(u, close + 1) \in (close + 1)..(n - 1)
      BY <2>6, <3>2, <3>3, SkipEnds, StringEnds
    <3>5. Skip(u, close + 1) \in 0..(n - 1)
      BY <1>3, <2>4, <3>4
    <3>6. /\ String(u, Skip(u, close + 1)) \in Seq(Character)
          /\ String(u, cat) \in Seq(Character)
      BY <2>3, <3>3, <3>5, StringEnds
    <3>7. NameAndCategory(s) =
              [text |-> u, names |-> {String(u, Skip(u, close + 1))},
               cat |-> {String(u, cat)}]
      BY <1>2, <1>3, <1>4, <1>7, <2>2, <2>5, <2>7, <3>1 DEF NameAndCategory
    <3>. QED
      BY <1>2, <3>3, <3>6, <3>7
  <2>8. CASE ~(close + 1 < n)
    <3>1. NameAndCategory(s) =
              [text |-> cut, names |-> Garbage, cat |-> {String(cut, cat)}]
      BY <1>2, <1>3, <1>4, <1>7, <2>2, <2>5, <2>8 DEF NameAndCategory
    <3>2. String(cut, cat) \in Seq(Character)
      BY <2>3, <2>6, StringEnds
    <3>. QED
      BY <1>2, <2>6, <3>1, <3>2, GarbageAssumption
  <2>. QED
    BY <2>7, <2>8
<1>. QED
  BY <1>6, <1>7

----------------------------------------------------------------------------
(* The invariant of the parser's data.                                      *)

\* The character the parser has in hand is one of the file.
InSource == /\ source \in Seq(Character)
            /\ Len(file) = Len(source)
            /\ pending /\ token \in {"NEWLINE", "BLANK", "TEXT"} =>
                  at \in 1..Len(source)

Writing == {"worktext", "tasktext", "desc"}

\* The cache holds what was written, and a string is being written to its end
\* or stands in front of a terminator.
Buffer == /\ text \in Seq(Character) /\ Len(text) > 0
          /\ textlen \in Nat /\ Len(text) <= textlen
          /\ textpos \in 0..Len(text)
          /\ Ends(text) \/ textpos = Len(text)

Terminated == pstate \notin Writing => Ends(text)

\* How many numbers the parser has read at least.
Count(state) == CASE state \in {"year", "month0", "hour", "minute0", "id",
                                "task", "tasktext"} -> 1
                  [] state \in {"month", "mday0", "minute"} -> 2
                  [] state = "mday" -> 3
                  [] OTHER -> 0

Counted == /\ numbers \in Seq(Nat)
           /\ Len(numbers) >= Count(pstate)

MadeEntry == [type : {"WORK", "TASK"}, begin : Int, id : Nat,
              name : SUBSET Seq(Character), cat : SUBSET Seq(Character),
              desc : SUBSET Seq(Character)]

\* A description belongs to an entry that was made.
Made == /\ entries \in Seq(MadeEntry)
        /\ pstate \in {"body", "desc0", "desc"} => entries # <<>>

Data == /\ pending \in BOOLEAN
        /\ pstate \in State
        /\ tm \in [day : Int, hour : Nat, min : Nat]
        /\ ret \in {"none", "OK", "ERR_SYNTAX", "ERR_INPUT", "ERR_MEM"}

CacheInv == InSource /\ Buffer /\ Terminated /\ Counted /\ Made /\ Data

LEMMA DataTyped == CacheInv => TypeOK
<1>. SUFFICES ASSUME CacheInv
              PROVE  TypeOK
  OBVIOUS
<1>1. \A i \in 1..Len(entries) : /\ entries[i].type \in {"WORK", "TASK"}
                                 /\ entries[i].begin \in Int
                                 /\ entries[i].id \in Nat
  <2>. SUFFICES ASSUME NEW i \in 1..Len(entries)
                PROVE  /\ entries[i].type \in {"WORK", "TASK"}
                       /\ entries[i].begin \in Int
                       /\ entries[i].id \in Nat
    OBVIOUS
  <2>1. entries[i] \in MadeEntry
    BY ElementOfSeq DEF CacheInv, Made
  <2>. QED
    BY <2>1 DEF MadeEntry
<1>. QED
  BY <1>1 DEF CacheInv, Buffer, Counted, Data, TypeOK

LEMMA InitCache == Init => CacheInv
<1>. SUFFICES ASSUME Init
              PROVE  CacheInv
  OBVIOUS
<1>1. /\ source \in Seq(Character) /\ file = Classes(source) /\ ~pending
      /\ pending \in BOOLEAN
      /\ pstate = "days" /\ numbers = <<>> /\ text = <<"NUL">> /\ textpos = 0
      /\ textlen = Chunk /\ tm = [day |-> 0, hour |-> 0, min |-> 0]
      /\ entries = <<>> /\ ret = "none"
  BY DEF Init
<1>2. InSource
  <2>1. Len(source) \in Nat /\ DOMAIN source = 1..Len(source)
    BY <1>1, LenProperties
  <2>2. file = [i \in 1..Len(source) |-> Class(source[i])]
    BY <1>1, <2>1 DEF Classes
  <2>3. Len(file) = Len(source)
    BY <2>1, <2>2, LenProperties
  <2>. QED
    BY <1>1, <2>3 DEF InSource
<1>3. text \in Seq(Character) /\ Len(text) = 1 /\ text[1] = "NUL"
  BY <1>1, CharacterAssumption
<1>4. Buffer /\ Terminated
  BY <1>1, <1>3, ChunkAssumption DEF Buffer, Terminated, Ends
<1>5. Counted
  <2>1. Count("days") = 0
    BY DEF Count
  <2>. QED
    BY <1>1, <2>1 DEF Counted
<1>6. Made /\ Data
  BY <1>1 DEF Made, Data, State
<1>. QED
  BY <1>2, <1>4, <1>5, <1>6 DEF CacheInv

\* What a step that takes the token, or leaves it, does to the file: nothing.
LEMMA SourceKept ==
    ASSUME InSource, Consume \/ UNCHANGED <<source, lexer, pending>>
    PROVE  InSource'
BY DEF InSource, Consume, lexer

\* What the tokens are called by the grammar.
LEMMA Tokens ==
    ASSUME IInv
    PROVE  /\ Kind \in TextChar \union {"NEWLINE"} =>
                 token \in {"NEWLINE", "BLANK", "TEXT"}
           /\ Kind = "DIGIT" => Ch \in Digit
<1>1. token \in {"none", "INDENT", "DEINDENT", "NEWLINE", "BLANK", "TEXT",
                 "END"}
  BY DEF IInv, LP!IInv, LP!TypeOK, LP!Token
<1>2. CASE token = "TEXT"
  BY <1>2 DEF Kind
<1>3. CASE token # "TEXT"
  <2>1. Kind = IF token = "BLANK" THEN "SPACE" ELSE token
    BY <1>3 DEF Kind
  <2>. QED
    BY <1>1, <1>3, <2>1 DEF TextChar
<1>. QED
  BY <1>2, <1>3

\* The character of a token, and the value of a digit.
LEMMA CharTyped ==
    ASSUME IInv, InSource, pending, Kind \in TextChar \union {"NEWLINE"}
    PROVE  Ch \in Character
<1>1. token \in {"NEWLINE", "BLANK", "TEXT"}
  BY Tokens
<1>. QED
  BY <1>1, ElementOfSeq DEF InSource, Ch

LEMMA DigitTyped ==
    ASSUME IInv, Kind = "DIGIT"
    PROVE  Value[Ch] \in Nat
<1>. DEFINE digits == <<"0", "1", "2", "3", "4", "5", "6", "7", "8", "9">>
<1>1. Ch \in Digit
  BY Tokens
<1>2. Value[Ch] = CHOOSE n \in 0..9 : digits[n + 1] = Ch
  BY <1>1 DEF Value
<1>3. /\ digits[0 + 1] = "0" /\ digits[1 + 1] = "1" /\ digits[2 + 1] = "2"
      /\ digits[3 + 1] = "3" /\ digits[4 + 1] = "4" /\ digits[5 + 1] = "5"
      /\ digits[6 + 1] = "6" /\ digits[7 + 1] = "7" /\ digits[8 + 1] = "8"
      /\ digits[9 + 1] = "9"
  OBVIOUS
<1>. HIDE DEF digits
<1>4. \E n \in 0..9 : digits[n + 1] = Ch
  <2>1. /\ 0 \in 0..9 /\ 1 \in 0..9 /\ 2 \in 0..9 /\ 3 \in 0..9 /\ 4 \in 0..9
        /\ 5 \in 0..9 /\ 6 \in 0..9 /\ 7 \in 0..9 /\ 8 \in 0..9 /\ 9 \in 0..9
    OBVIOUS
  <2>. QED
    BY <1>1, <1>3, <2>1, Zenon DEF Digit
<1>5. (CHOOSE n \in 0..9 : digits[n + 1] = Ch) \in 0..9
  BY <1>4, Zenon
<1>6. Value[Ch] \in 0..9
  BY <1>2, <1>5, Zenon
<1>. QED
  BY <1>6

\* The cache when a character is put at the end of the string, or at the
\* start of the next one.
LEMMA AddTyped ==
    ASSUME Buffer, NEW p, p = textpos \/ (p = 0 /\ Ends(text)),
           NEW ch \in Character, AddChar(p, ch)
    PROVE  Buffer'
<1>1. /\ text \in Seq(Character) /\ Len(text) \in Nat /\ textlen \in Nat
      /\ Len(text) <= textlen /\ p \in 0..Len(text)
      /\ Ends(text) \/ p = Len(text)
  BY LenProperties DEF Buffer, Ends
<1>2. /\ text' \in Seq(Character)
      /\ Len(text') = IF p < Len(text) THEN Len(text) ELSE p + 1
      /\ \A i \in 1..Len(text) : i # p + 1 => text'[i] = text[i]
  BY <1>1, PutTyped DEF AddChar
<1>3. textpos' = p + 1 /\ textlen' = Grown(p)
  BY DEF AddChar
<1>4. textlen' \in Nat /\ Len(text') <= textlen' /\ textpos' \in 0..Len(text')
  BY <1>1, <1>2, <1>3, ChunkAssumption DEF Grown
<1>5. Ends(text)' \/ textpos' = Len(text')
  <2>1. CASE p + 1 < Len(text)
    <3>1. Ends(text) /\ Len(text') = Len(text) /\ Len(text) \in 1..Len(text)
      BY <1>1, <1>2, <2>1
    <3>2. text'[Len(text)] = "NUL"
      BY <1>1, <1>2, <2>1, <3>1 DEF Ends
    <3>. QED
      BY <1>2, <3>1, <3>2 DEF Ends
  <2>2. CASE ~(p + 1 < Len(text))
    BY <1>1, <1>2, <1>3, <2>2
  <2>. QED
    BY <2>1, <2>2
<1>. QED
  BY <1>2, <1>4, <1>5 DEF Buffer

----------------------------------------------------------------------------
\* The actions of the grammar that make no entry.

LEMMA ReadCache ==
    ASSUME IInv, CacheInv, Read
    PROVE  CacheInv'
<1>1. /\ source' = source /\ pending' = TRUE /\ UNCHANGED parser
      /\ LP!yylex /\ LP!IInv
  BY SameLexer DEF Read, IInv
<1>2. file' = file
  BY <1>1 DEF Read, Lex!yylex, Lex!ReturnCached, Lex!BlankLine,
     Lex!IndentLine, Lex!Indent1, Lex!Deindent1, Lex!Indent2,
     Lex!DeindentBoth, Lex!Deindent2, Lex!IndentError, Lex!CharToToken,
     Lex!NewLine, Lex!Other, Lex!EOFLevel2, Lex!EOFLevel1, Lex!EOFLevel0,
     Lex!AtEOF, Lex!ChangeIndent
<1>3. token' \in {"NEWLINE", "BLANK", "TEXT"} => at' \in 1..Len(file)
  BY <1>1, LP!TokenRead, LexerAssumptions
<1>4. InSource'
  BY <1>1, <1>2, <1>3 DEF CacheInv, InSource
<1>5. Buffer' /\ Terminated' /\ Counted' /\ Made' /\ Data'
  BY <1>1 DEF CacheInv, Buffer, Terminated, Counted, Made, Data, parser, cache
<1>. QED
  BY <1>4, <1>5 DEF CacheInv

\* The states a shift connects.
LEMMA ShiftStates ==
    ASSUME NEW s \in Shifts
    PROVE  /\ s[1] \notin Writing /\ s[3] \notin Writing /\ s[3] \in State
           /\ Count(s[3]) \in Nat /\ Count(s[1]) \in Nat
           /\ Count(s[3]) <= Count(s[1])
           /\ s[3] \in {"body", "desc0", "desc"} => s[1] = "body"
BY DEF Shifts, DayEnd, Writing, State, Count

LEMMA ShiftCache ==
    ASSUME CacheInv, Shift
    PROVE  CacheInv'
<1>1. PICK s \in Shifts : /\ pstate = s[1] /\ pstate' = s[3] /\ Consume
                          /\ UNCHANGED <<numbers, cache, tm, entries, ret>>
  BY DEF Shift, Sees, Enter
<1>2. InSource' /\ pending' = FALSE
  BY <1>1, SourceKept DEF CacheInv, Consume
<1>3. Buffer' /\ Terminated'
  BY <1>1, ShiftStates DEF CacheInv, Buffer, Terminated, cache
<1>4. Counted'
  <2>1. Len(numbers) \in Nat
    BY LenProperties DEF CacheInv, Counted
  <2>. QED
    BY <1>1, <2>1, ShiftStates DEF CacheInv, Counted
<1>5. Made' /\ Data'
  BY <1>1, <1>2, ShiftStates DEF CacheInv, Made, Data
<1>. QED
  BY <1>2, <1>3, <1>4, <1>5 DEF CacheInv

\* A step at which the parser gives up, or accepts.
LEMMA EndCache ==
    ASSUME CacheInv, RefError \/ Accept \/ SyntaxError \/ OutOfMemory
    PROVE  CacheInv'
<1>1. /\ Consume /\ UNCHANGED <<pstate, numbers, cache, tm, entries>>
      /\ ret' \in {"OK", "ERR_SYNTAX", "ERR_INPUT", "ERR_MEM"}
  BY DEF RefError, Accept, SyntaxError, OutOfMemory
<1>2. InSource' /\ pending' = FALSE
  BY <1>1, SourceKept DEF CacheInv, Consume
<1>3. Buffer' /\ Terminated' /\ Counted' /\ Made'
  BY <1>1 DEF CacheInv, Buffer, Terminated, Counted, Made, cache
<1>4. Data'
  BY <1>1, <1>2 DEF CacheInv, Data
<1>. QED
  BY <1>2, <1>3, <1>4 DEF CacheInv

LEMMA DigitCache ==
    ASSUME IInv, CacheInv, FirstDigit \/ NextDigit
    PROVE  CacheInv'
<1>1. /\ Consume /\ UNCHANGED <<cache, tm, entries, ret>> /\ Kind = "DIGIT"
  BY DEF FirstDigit, NextDigit, Sees
<1>2. InSource' /\ pending' = FALSE
  BY <1>1, SourceKept DEF CacheInv, Consume
<1>3. Value[Ch] \in Nat /\ numbers \in Seq(Nat) /\ Len(numbers) \in Nat
  BY <1>1, DigitTyped, LenProperties DEF CacheInv, Counted
<1>4. PICK v \in Nat : v = Value[Ch]
  BY <1>3
<1>5. CASE FirstDigit
  <2>1. /\ pstate \in {"days", "month0", "mday0", "items", "minute0", "id0"}
        /\ pstate' = Number[pstate]
        /\ numbers' = Append(IF pstate \in {"days", "items", "id0"}
                             THEN <<>> ELSE numbers, v)
    BY <1>4, <1>5 DEF FirstDigit, Sees, Enter, Number
  <2>2. /\ pstate \notin Writing /\ pstate' \notin Writing
        /\ pstate' \in State \ {"body", "desc0", "desc"}
    BY <2>1 DEF Number, Writing, State
  <2>3. Counted'
    <3>1. CASE pstate \in {"days", "items", "id0"}
      <4>1. numbers' = <<v>> /\ Count(pstate') = 1
        BY <2>1, <3>1 DEF Number, Count
      <4>. QED
        BY <4>1 DEF Counted
    <3>2. CASE pstate \in {"month0", "mday0", "minute0"}
      <4>1. numbers' = Append(numbers, v)
        BY <2>1, <3>2
      <4>2. numbers' \in Seq(Nat) /\ Len(numbers') = Len(numbers) + 1
        BY <1>3, <4>1, AppendProperties
      <4>3. Count(pstate') = Count(pstate) + 1 /\ Count(pstate) \in Nat
        BY <2>1, <3>2 DEF Number, Count
      <4>. QED
        BY <1>3, <4>2, <4>3 DEF CacheInv, Counted
    <3>. QED
      BY <2>1, <3>1, <3>2
  <2>4. Buffer' /\ Terminated'
    BY <1>1, <2>2 DEF CacheInv, Buffer, Terminated, cache
  <2>5. Made' /\ Data'
    BY <1>1, <1>2, <2>2 DEF CacheInv, Made, Data
  <2>. QED
    BY <1>2, <2>3, <2>4, <2>5 DEF CacheInv
<1>6. CASE NextDigit
  <2>1. /\ pstate' = pstate /\ pstate \in Numbers
        /\ numbers' = [numbers EXCEPT ![Len(numbers)] = @ * 10 + v]
    BY <1>4, <1>6 DEF NextDigit, Sees
  <2>2. Counted'
    <3>1. Count(pstate) >= 1 /\ Count(pstate) \in Nat
      BY <2>1 DEF Numbers, Number, Count
    <3>2. Len(numbers) \in 1..Len(numbers)
      BY <1>3, <3>1 DEF CacheInv, Counted
    <3>3. PICK last \in Nat : last = numbers[Len(numbers)]
      BY <1>3, <3>2, ElementOfSeq
    <3>4. last * 10 + v \in Nat
      OBVIOUS
    <3>5. numbers' = [numbers EXCEPT ![Len(numbers)] = last * 10 + v]
      BY <2>1, <3>3
    <3>6. numbers' \in Seq(Nat) /\ Len(numbers') = Len(numbers)
      BY <1>3, <3>2, <3>4, <3>5, ExceptSeq
    <3>. QED
      BY <2>1, <3>6 DEF CacheInv, Counted
  <2>3. Buffer' /\ Terminated'
    BY <1>1, <2>1 DEF CacheInv, Buffer, Terminated, cache
  <2>4. Made' /\ Data'
    BY <1>1, <1>2, <2>1 DEF CacheInv, Made, Data
  <2>. QED
    BY <1>2, <2>2, <2>3, <2>4 DEF CacheInv
<1>. QED
  BY <1>5, <1>6

LEMMA TimeCache ==
    ASSUME CacheInv, Date \/ Time
    PROVE  CacheInv'
<1>1. /\ UNCHANGED <<source, lexer, pending>>
      /\ UNCHANGED <<numbers, cache, entries, ret>>
      /\ \/ pstate = "mday" /\ pstate' = "padding"
         \/ pstate = "minute" /\ pstate' = "timed"
  BY DEF Date, Time, EndOfNumber, Enter
<1>2. InSource'
  BY <1>1, SourceKept DEF CacheInv
<1>3. Buffer' /\ Terminated'
  BY <1>1 DEF CacheInv, Buffer, Terminated, Writing, cache
<1>4. numbers \in Seq(Nat) /\ Len(numbers) \in Nat
      /\ Len(numbers) >= Count(pstate)
  BY LenProperties DEF CacheInv, Counted
<1>5. Counted'
  BY <1>1, <1>4 DEF Counted, Count
<1>6. Made'
  BY <1>1 DEF CacheInv, Made
<1>7. tm' \in [day : Int, hour : Nat, min : Nat]
  <2>1. CASE Date
    <3>1. Len(numbers) >= 3
      BY <1>4, <2>1 DEF Date, EndOfNumber, Count
    <3>2. numbers[1] \in Nat /\ numbers[2] \in Nat /\ numbers[3] \in Nat
      BY <1>4, <3>1, ElementOfSeq
    <3>3. DayNumber(numbers[1], numbers[2], numbers[3]) \in Int
      BY <3>2 DEF DayNumber
    <3>. QED
      BY <2>1, <3>3 DEF Date
  <2>2. CASE Time
    <3>1. Len(numbers) >= 2
      BY <1>4, <2>2 DEF Time, EndOfNumber, Count
    <3>2. numbers[1] \in Nat /\ numbers[2] \in Nat
      BY <1>4, <3>1, ElementOfSeq
    <3>. QED
      BY <2>2, <3>2 DEF Time, CacheInv, Data
  <2>. QED
    BY <2>1, <2>2
<1>8. Data'
  BY <1>1, <1>7 DEF CacheInv, Data, State
<1>. QED
  BY <1>2, <1>3, <1>5, <1>6, <1>8 DEF CacheInv

LEMMA CharCache ==
    ASSUME IInv, CacheInv, FirstChar \/ NextChar
    PROVE  CacheInv'
<1>1. /\ Consume /\ UNCHANGED <<numbers, tm, entries, ret>>
      /\ Kind \in TextChar \union {"NEWLINE"} /\ pending
      /\ \/ /\ pstate \in {"work", "task", "desc0"}
            /\ pstate' = CASE pstate = "work" -> "worktext"
                           [] pstate = "task" -> "tasktext"
                           [] OTHER -> "desc"
            /\ AddChar(0, Ch)
         \/ /\ pstate \in {"worktext", "tasktext", "desc"}
            /\ pstate' = pstate
            /\ AddChar(textpos, Ch)
  BY DEF FirstChar, NextChar, Sees, Enter
<1>2. InSource' /\ pending' = FALSE
  BY <1>1, SourceKept DEF CacheInv, Consume
<1>3. Ch \in Character
  BY <1>1, CharTyped DEF CacheInv
<1>4. Buffer'
  <2>1. pstate \in {"work", "task", "desc0"} => Ends(text)
    BY DEF CacheInv, Terminated, Writing
  <2>. QED
    BY <1>1, <1>3, <2>1, AddTyped DEF CacheInv
<1>5. pstate' \in Writing /\ pstate' \in State
  BY <1>1 DEF Writing, State
<1>6. Counted'
  <2>1. Count(pstate') = Count(pstate)
    BY <1>1 DEF Count
  <2>. QED
    BY <1>1, <2>1 DEF CacheInv, Counted
<1>7. Made' /\ Data' /\ Terminated'
  BY <1>1, <1>2, <1>5 DEF CacheInv, Made, Data, Terminated
<1>. QED
  BY <1>2, <1>4, <1>6, <1>7 DEF CacheInv

----------------------------------------------------------------------------
\* The actions that make an entry.

LEMMA TmTyped ==
    ASSUME tm \in [day : Int, hour : Nat, min : Nat]
    PROVE  /\ Minutes(tm) \in Int
           /\ Normal(tm) \in [day : Int, hour : Nat, min : Nat]
<1>1. Minutes(tm) \in Int
  BY DEF Minutes
<1>2. PICK m \in Int : m = Minutes(tm)
  BY <1>1
<1>3. m \div 1440 \in Int /\ (m \div 60) % 24 \in Nat /\ m % 60 \in Nat
  OBVIOUS
<1>. QED
  BY <1>1, <1>2, <1>3 DEF Normal

\* The entry, and what it leaves in the cache.
LEMMA EntryTyped ==
    ASSUME CacheInv, NEW type \in {"WORK", "TASK"}, NEW id \in Nat,
           EntryNew(type, id),
           \/ textpos' = 0 /\ Ends(text)
           \/ textpos' = textpos + 1
    PROVE  /\ Buffer' /\ Ends(text)'
           /\ tm' \in [day : Int, hour : Nat, min : Nat]
           /\ entries' \in Seq(MadeEntry) /\ entries' # <<>>
<1>1. /\ text \in Seq(Character) /\ Len(text) \in Nat /\ textlen \in Nat
      /\ Len(text) <= textlen /\ textpos \in 0..Len(text)
      /\ Ends(text) \/ textpos = Len(text)
      /\ entries \in Seq(MadeEntry)
      /\ tm \in [day : Int, hour : Nat, min : Nat]
  BY LenProperties DEF CacheInv, Buffer, Made, Data
<1>2. Minutes(tm) \in Int /\ tm' \in [day : Int, hour : Nat, min : Nat]
  BY <1>1, TmTyped DEF EntryNew
<1>3. ASSUME NEW names \in SUBSET Seq(Character),
             NEW cat \in SUBSET Seq(Character)
      PROVE  /\ Append(entries, NewEntry(type, id, names, cat))
                    \in Seq(MadeEntry)
             /\ Append(entries, NewEntry(type, id, names, cat)) # <<>>
  <2>1. NewEntry(type, id, names, cat) \in MadeEntry
    BY <1>2 DEF NewEntry, MadeEntry
  <2>. QED
    BY <1>1, <2>1, AppendProperties
<1>4. CASE textpos' = 0
  <2>1. text' = text /\ textlen' = textlen /\ Ends(text)
    BY <1>1, <1>4 DEF EntryNew
  <2>2. entries' = Append(entries, NewEntry(type, id, {}, {}))
    BY <1>4 DEF EntryNew
  <2>3. entries' \in Seq(MadeEntry) /\ entries' # <<>>
    BY <1>3, <2>2
  <2>4. Buffer' /\ Ends(text)'
    BY <1>1, <1>4, <2>1 DEF Buffer, Ends
  <2>. QED
    BY <1>2, <2>3, <2>4
<1>5. CASE textpos' = textpos + 1 /\ textpos' # 0
  <2>1. PICK t, s : t = Put(text, textpos, "NUL") /\ s = NameAndCategory(t)
    OBVIOUS
  <2>2. Ends(t) /\ Len(t) = IF textpos < Len(text) THEN Len(text)
                            ELSE textpos + 1
    BY <1>1, <2>1, PutNul
  <2>3. /\ Ends(s.text) /\ Len(s.text) = Len(t)
        /\ s.names \subseteq Seq(Character) /\ s.cat \subseteq Seq(Character)
    BY <2>1, <2>2, NameTyped
  <2>4. /\ text' = s.text /\ textlen' = Grown(textpos)
        /\ \E name \in s.names :
              entries' = Append(entries, NewEntry(type, id, {name}, s.cat))
    BY <1>5, <2>1 DEF EntryNew
  <2>5. entries' \in Seq(MadeEntry) /\ entries' # <<>>
    <3>1. PICK name \in s.names :
              entries' = Append(entries, NewEntry(type, id, {name}, s.cat))
      BY <2>4
    <3>2. {name} \in SUBSET Seq(Character) /\ s.cat \in SUBSET Seq(Character)
      BY <2>3
    <3>. QED
      BY <1>3, <3>1, <3>2
  <2>6. Ends(text)' /\ Len(text') = Len(t)
    BY <2>3, <2>4 DEF Ends
  <2>7. Buffer'
    BY <1>1, <1>5, <2>2, <2>4, <2>6, ChunkAssumption DEF Buffer, Ends, Grown
  <2>. QED
    BY <1>2, <2>5, <2>6, <2>7
<1>. QED
  BY <1>1, <1>4, <1>5

LEMMA ItemCache ==
    ASSUME CacheInv, ItemWithoutText \/ Item \/ Ref
    PROVE  CacheInv'
<1>1. /\ Consume /\ UNCHANGED <<numbers, ret>>
      /\ \/ /\ pstate \in {"timed", "work"} /\ pstate' = "items"
            /\ textpos' = 0 /\ EntryNew("WORK", 0)
         \/ /\ pstate = "worktext" /\ pstate' = "body"
            /\ textpos' = textpos + 1 /\ EntryNew("WORK", 0)
         \/ /\ pstate = "tasktext" /\ pstate' = "body"
            /\ textpos' = textpos + 1 /\ EntryNew("TASK", numbers[1])
  BY DEF ItemWithoutText, Item, Ref, EndOfText, Sees, Enter
<1>2. InSource' /\ pending' = FALSE
  BY <1>1, SourceKept DEF CacheInv, Consume
<1>3. /\ numbers \in Seq(Nat) /\ Len(numbers) \in Nat
      /\ Len(numbers) >= Count(pstate)
  BY LenProperties DEF CacheInv, Counted
<1>4. PICK type \in {"WORK", "TASK"}, id \in Nat : EntryNew(type, id)
  <2>1. CASE pstate = "tasktext"
    <3>1. Len(numbers) >= 1
      BY <1>3, <2>1 DEF Count
    <3>2. numbers[1] \in Nat
      BY <1>3, <3>1, ElementOfSeq
    <3>. QED
      BY <1>1, <2>1, <3>2
  <2>2. CASE pstate # "tasktext"
    BY <1>1, <2>2
  <2>. QED
    BY <2>1, <2>2
<1>5. \/ textpos' = 0 /\ Ends(text)
      \/ textpos' = textpos + 1
  BY <1>1 DEF CacheInv, Terminated, Writing
<1>6. /\ Buffer' /\ Ends(text)'
      /\ tm' \in [day : Int, hour : Nat, min : Nat]
      /\ entries' \in Seq(MadeEntry) /\ entries' # <<>>
  BY <1>4, <1>5, EntryTyped
<1>7. Counted'
  BY <1>1, <1>3 DEF Counted, Count
<1>8. Terminated' /\ Made' /\ Data'
  BY <1>1, <1>2, <1>6 DEF CacheInv, Terminated, Made, Data, State
<1>. QED
  BY <1>2, <1>6, <1>7, <1>8 DEF CacheInv

\* The description of the last entry.
LEMMA DescTyped ==
    ASSUME CacheInv, entries # <<>>, NEW p, DescSet(p),
           p = textpos \/ (p = 0 /\ Ends(text))
    PROVE  /\ Buffer' /\ (Ends(text) => Ends(text)') /\ (p # 0 => Ends(text)')
           /\ entries' \in Seq(MadeEntry) /\ entries' # <<>>
<1>1. /\ text \in Seq(Character) /\ Len(text) \in Nat /\ textlen \in Nat
      /\ Len(text) <= textlen /\ p \in 0..Len(text)
      /\ Len(text) > 0 /\ (Ends(text) \/ p = Len(text))
      /\ entries \in Seq(MadeEntry) /\ Len(entries) \in 1..Len(entries)
  BY LenProperties, EmptySeq DEF CacheInv, Buffer, Made, Ends
<1>2. CASE p = 0
  <2>1. /\ textpos' = 0 /\ text' = text /\ textlen' = textlen
        /\ entries' = entries
    BY <1>2 DEF DescSet
  <2>. QED
    BY <1>1, <1>2, <2>1 DEF Buffer, Ends
<1>3. CASE p # 0
  <2>1. PICK u, t : u = Put(text, p, "NUL") /\ t = Stripped(u, 0)
    OBVIOUS
  <2>2. Ends(u) /\ Len(u) = IF p < Len(text) THEN Len(text) ELSE p + 1
    BY <1>1, <2>1, PutNul
  <2>3. Ends(t) /\ Len(t) = Len(u) /\ 0 \in 0..(Len(t) - 1)
    <3>1. 0 \in 0..(Len(u) - 1)
      BY <1>1, <2>2
    <3>. QED
      BY <2>1, <2>2, <3>1, StrippedEnds
  <2>4. /\ text' = t /\ textpos' = p + 1 /\ textlen' = Grown(p)
        /\ entries' = [entries EXCEPT ![Len(entries)].desc =
                                          {String(t, Skip(t, 0))}]
    BY <1>3, <2>1 DEF DescSet
  <2>5. Buffer' /\ Ends(text)'
    <3>1. Ends(text)' /\ Len(text') = Len(u)
      BY <2>3, <2>4 DEF Ends
    <3>. QED
      BY <1>1, <1>3, <2>2, <2>4, <3>1, ChunkAssumption DEF Buffer, Ends, Grown
  <2>6. String(t, Skip(t, 0)) \in Seq(Character)
    <3>1. /\ Skip(t, 0) \in 0..StringEnd(t, 0)
          /\ StringEnd(t, 0) \in 0..(Len(t) - 1)
      BY <2>3, SkipEnds, StringEnds
    <3>2. Skip(t, 0) \in 0..(Len(t) - 1)
      BY <1>1, <2>2, <2>3, <3>1
    <3>. QED
      BY <2>3, <3>2, StringEnds
  <2>7. PICK e, d, n : /\ e = entries[n] /\ n = Len(entries)
                       /\ d = {String(t, Skip(t, 0))}
    OBVIOUS
  <2>8. e \in MadeEntry /\ d \in SUBSET Seq(Character)
    BY <1>1, <2>6, <2>7, ElementOfSeq
  <2>9. [e EXCEPT !.desc = d] \in MadeEntry
    BY <2>8 DEF MadeEntry
  <2>10. entries' = [entries EXCEPT ![n] = [e EXCEPT !.desc = d]]
    <3>1. entries' = [entries EXCEPT ![n] = [@ EXCEPT !.desc = d]]
      BY <2>4, <2>7
    <3>2. n \in DOMAIN entries
      BY <1>1, <2>7
    <3>. QED
      BY <2>7, <3>1, <3>2
  <2>11. entries' \in Seq(MadeEntry) /\ Len(entries') = Len(entries)
    <3>1. PICK f \in MadeEntry : f = [e EXCEPT !.desc = d]
      BY <2>9
    <3>2. entries' = [entries EXCEPT ![n] = f] /\ n \in 1..Len(entries)
      BY <1>1, <2>7, <2>10, <3>1
    <3>. QED
      BY <1>1, <3>2, ExceptSeq
  <2>12. entries' # <<>>
    BY <1>1, <2>11, EmptySeq
  <2>. QED
    BY <1>3, <2>5, <2>11, <2>12
<1>. QED
  BY <1>2, <1>3

LEMMA BodyCache ==
    ASSUME CacheInv, NoBody \/ Body
    PROVE  CacheInv'
<1>1. /\ Consume \/ UNCHANGED <<source, lexer, pending>>
      /\ UNCHANGED <<numbers, tm, ret>> /\ pstate' = "items"
      /\ \/ pstate = "body" /\ DescSet(0)
         \/ pstate = "desc" /\ DescSet(textpos)
  BY DEF NoBody, EmptyBody, Body, Sees, Enter
<1>2. InSource' /\ pending' \in BOOLEAN
  BY <1>1, SourceKept DEF CacheInv, Consume, Data
<1>3. entries # <<>> /\ (pstate = "body" => Ends(text))
  BY <1>1 DEF CacheInv, Made, Terminated, Writing
<1>4. textpos # 0 \/ Ends(text)
  BY LenProperties DEF CacheInv, Buffer
<1>5. /\ Buffer' /\ Ends(text)'
      /\ entries' \in Seq(MadeEntry) /\ entries' # <<>>
  BY <1>1, <1>3, <1>4, DescTyped
<1>6. Counted'
  BY <1>1, LenProperties DEF CacheInv, Counted, Count
<1>7. Terminated' /\ Made' /\ Data'
  BY <1>1, <1>2, <1>5 DEF CacheInv, Terminated, Made, Data, State
<1>. QED
  BY <1>2, <1>5, <1>6, <1>7 DEF CacheInv

----------------------------------------------------------------------------
LEMMA StutterCache ==
    ASSUME CacheInv, UNCHANGED vars
    PROVE  CacheInv'
<1>1. /\ UNCHANGED <<source, file, at, token, pending, pstate, numbers>>
      /\ UNCHANGED <<text, textpos, textlen, tm, entries, ret>>
  BY DEF vars, lexer, parser, cache
<1>. QED
  BY <1>1 DEF CacheInv, InSource, Buffer, Ends, Terminated, Counted, Made,
     Data

LEMMA NextCache == IInv /\ CacheInv /\ [Next]_vars => CacheInv'
<1>. SUFFICES ASSUME IInv, CacheInv, [Next]_vars
              PROVE  CacheInv'
  OBVIOUS
<1>1. CASE Read
  BY <1>1, ReadCache
<1>2. CASE Shift
  BY <1>2, ShiftCache
<1>3. CASE FirstDigit \/ NextDigit
  BY <1>3, DigitCache
<1>4. CASE Date \/ Time
  BY <1>4, TimeCache
<1>5. CASE FirstChar \/ NextChar
  BY <1>5, CharCache
<1>6. CASE ItemWithoutText \/ Item \/ Ref
  BY <1>6, ItemCache
<1>7. CASE NoBody \/ Body
  BY <1>7, BodyCache
<1>8. CASE RefError \/ Accept \/ SyntaxError \/ OutOfMemory
  BY <1>8, EndCache
<1>9. CASE UNCHANGED vars
  BY <1>9, StutterCache
<1>. QED
  BY <1>1, <1>2, <1>3, <1>4, <1>5, <1>6, <1>7, <1>8, <1>9 DEF Next

LEMMA CacheInductive == Spec => []CacheInv
<1>1. Spec => [](IInv /\ CacheInv)
  <2>1. Init => IInv /\ CacheInv
    BY InitInv, InitCache
  <2>2. IInv /\ CacheInv /\ [Next]_vars => IInv' /\ CacheInv'
    BY NextInv, NextCache
  <2>. QED
    BY <2>1, <2>2, PTL DEF Spec
<1>. QED
  BY <1>1, PTL

\* The cache is never written behind its end: whatever the file, textpos is
\* inside of what was written, and what was written is inside of the buffer.
\* A date, a time and the id of a task are made of numbers that were read.
THEOREM TypeCorrect == Spec => []TypeOK
<1>. QED
  BY CacheInductive, DataTyped, PTL

\* The cache is never read behind its end either: while no string is being
\* written the last character in it is a terminator, so that the walks of
\* dpl_skip_whitespaces and dpl_parse_name_category come to an end in it: the
\* one that begins behind the terminator of a category no parenthesis closes,
\* too, if anything was ever written there.
THEOREM CacheTerminated == Spec => []Terminated
<1>1. CacheInv => Terminated
  BY DEF CacheInv
<1>. QED
  BY <1>1, CacheInductive, PTL

\* A description is only ever given to an entry the file has made.
THEOREM DescriptionHasEntry ==
    Spec => [](pstate \in {"body", "desc0", "desc"} => entries # <<>>)
<1>1. CacheInv => (pstate \in {"body", "desc0", "desc"} => entries # <<>>)
  BY DEF CacheInv, Made
<1>. QED
  BY <1>1, CacheInductive, PTL
----------------------------------------------------------------------------
(* What the grammar hands to the passes of dpl_parse. *)

\* An entry the passes can work with: a task has an id and a name, an entry
\* without a name is a work that has no other text either.
Passable(e) == /\ e.type = "TASK" => e.id # 0 /\ e.name # {}
               /\ e.type = "WORK" => e.id = 0
               /\ e.name = {} => e.cat = {} /\ e.desc = {}

AllPassable == \A i \in 1..Len(entries) : Passable(entries[i])

\* The entry a description may follow for has a name.
NamedFirst == pstate \in {"body", "desc0", "desc"} =>
                  entries[Len(entries)].name # {}

LEMMA EntryPassable ==
    ASSUME CacheInv, AllPassable, ItemWithoutText \/ Item \/ Ref
    PROVE  AllPassable' /\ NamedFirst'
<1>1. PICK type, id, names, cat :
          /\ entries' = Append(entries, NewEntry(type, id, names, cat))
          /\ type \in {"WORK", "TASK"}
          /\ type = "WORK" => id = 0
          /\ type = "TASK" => id # 0 /\ names # {}
          /\ names = {} => cat = {} /\ pstate' = "items"
  <2>1. CASE ItemWithoutText
    BY <2>1 DEF ItemWithoutText, EntryNew, Enter
  <2>2. ASSUME NEW type \in {"WORK", "TASK"}, NEW id, EntryNew(type, id),
               textpos' = textpos + 1, type = "WORK" => id = 0,
               type = "TASK" => id # 0
        PROVE  \E names, cat :
                   /\ entries' = Append(entries, NewEntry(type, id, names, cat))
                   /\ names # {}
    <3>1. textpos' # 0
      BY <2>2 DEF CacheInv, Buffer
    <3>2. PICK s : /\ s = NameAndCategory(Put(text, textpos, "NUL"))
                   /\ \E name \in s.names :
                         entries' = Append(entries,
                                        NewEntry(type, id, {name}, s.cat))
      BY <2>2, <3>1 DEF EntryNew
    <3>3. PICK name : entries' = Append(entries,
                                        NewEntry(type, id, {name}, s.cat))
      BY <3>2
    <3>. QED
      BY <3>3
  <2>3. CASE Item
    <3>1. EntryNew("WORK", 0) /\ textpos' = textpos + 1
      BY <2>3 DEF Item, EndOfText
    <3>. QED
      BY <2>2, <3>1
  <2>4. CASE Ref
    <3>1. /\ EntryNew("TASK", numbers[1]) /\ textpos' = textpos + 1
          /\ numbers[1] # 0
      BY <2>4 DEF Ref, EndOfText, IdAllowed
    <3>. QED
      BY <2>2, <3>1
  <2>. QED
    BY <2>1, <2>3, <2>4
<1>2. PICK e : e = NewEntry(type, id, names, cat)
  OBVIOUS
<1>3. /\ e.type = type /\ e.id = id /\ e.name = names /\ e.cat = cat
      /\ e.desc = {}
  BY <1>2 DEF NewEntry
<1>4. Passable(e)
  BY <1>1, <1>3 DEF Passable
<1>5. /\ Len(entries) \in Nat
      /\ Len(entries') = Len(entries) + 1
      /\ \A i \in 1..Len(entries) : entries'[i] = entries[i]
      /\ entries'[Len(entries) + 1] = e
  <2>1. entries \in Seq(MadeEntry)
    BY DEF CacheInv, Made
  <2>2. entries \in Seq(MadeEntry \union {e})
    BY <2>1, SeqDef
  <2>. QED
    BY <1>1, <1>2, <2>2, LenProperties, AppendProperties
<1>6. AllPassable'
  <2>1. ASSUME NEW i \in 1..(Len(entries) + 1)
        PROVE  Passable(entries'[i])
    <3>1. i \in 1..Len(entries) \/ i = Len(entries) + 1
      BY <1>5
    <3>. QED
      BY <1>4, <1>5, <3>1 DEF AllPassable
  <2>2. AllPassable' <=> \A i \in 1..Len(entries') : Passable(entries'[i])
    BY DEF AllPassable, Passable
  <2>. QED
    BY <1>5, <2>1, <2>2
<1>7. NamedFirst'
  <2>1. entries'[Len(entries')].name = names
    BY <1>3, <1>5
  <2>. QED
    BY <1>1, <2>1 DEF NamedFirst
<1>. QED
  BY <1>6, <1>7

LEMMA BodyPassable ==
    ASSUME CacheInv, AllPassable, NamedFirst, NoBody \/ Body
    PROVE  AllPassable' /\ NamedFirst'
<1>1. pstate' = "items" /\ pstate \in {"body", "desc"}
  BY DEF NoBody, Body, Sees, Enter
<1>2. NamedFirst'
  BY <1>1 DEF NamedFirst
<1>3. CASE entries' = entries
  BY <1>2, <1>3 DEF AllPassable
<1>4. CASE entries' # entries
  <2>1. PICK d : entries' = [entries EXCEPT ![Len(entries)].desc = d]
    BY <1>4 DEF NoBody, Body, DescSet
  <2>2. entries \in Seq(MadeEntry) /\ entries # <<>>
    BY <1>1 DEF CacheInv, Made
  <2>3. /\ Len(entries) \in 1..Len(entries)
        /\ DOMAIN entries = 1..Len(entries)
    BY <2>2, LenProperties, EmptySeq
  <2>4. PICK n, e : n = Len(entries) /\ e = entries[n]
    OBVIOUS
  <2>5. /\ DOMAIN entries' = DOMAIN entries
        /\ entries'[n] = [e EXCEPT !.desc = d]
        /\ \A i \in 1..n : i # n => entries'[i] = entries[i]
    BY <2>1, <2>3, <2>4
  <2>6. e \in MadeEntry
    BY <2>2, <2>3, <2>4, ElementOfSeq
  <2>7. /\ entries'[n].type = e.type /\ entries'[n].id = e.id
        /\ entries'[n].name = e.name /\ entries'[n].cat = e.cat
    BY <2>5, <2>6 DEF MadeEntry
  <2>8. e.name # {}
    BY <1>1, <2>4 DEF NamedFirst
  <2>9. Passable(entries'[n])
    BY <2>3, <2>4, <2>7, <2>8 DEF AllPassable, Passable
  <2>10. \A i \in 1..n : Passable(entries'[i])
    BY <2>4, <2>5, <2>9 DEF AllPassable
  <2>11. Len(entries') = n
    BY <2>2, <2>3, <2>4, <2>5, LenProperties
  <2>12. AllPassable' <=> \A i \in 1..Len(entries') : Passable(entries'[i])
    BY DEF AllPassable, Passable
  <2>. QED
    BY <1>2, <2>10, <2>11, <2>12
<1>. QED
  BY <1>3, <1>4

LEMMA NextPassable ==
    ASSUME CacheInv, AllPassable, NamedFirst, [Next]_vars
    PROVE  AllPassable' /\ NamedFirst'
<1>1. CASE entries' = entries /\ pstate' = pstate
  BY <1>1 DEF AllPassable, NamedFirst
<1>2. CASE ItemWithoutText \/ Item \/ Ref
  BY <1>2, EntryPassable
<1>3. CASE NoBody \/ Body
  BY <1>3, BodyPassable
<1>4. ASSUME entries' = entries,
             \/ pstate' \notin {"body", "desc0", "desc"}
             \/ pstate \in {"body", "desc0", "desc"}
      PROVE  AllPassable' /\ NamedFirst'
  BY <1>4 DEF AllPassable, NamedFirst
<1>5. CASE Shift
  <2>1. PICK s \in Shifts : pstate = s[1] /\ pstate' = s[3]
                            /\ entries' = entries
    BY <1>5 DEF Shift, Sees, Enter
  <2>. QED
    BY <1>4, <2>1, ShiftStates
<1>6. CASE FirstDigit \/ NextDigit
  BY <1>4, <1>6 DEF FirstDigit, NextDigit, Sees, Enter, Number
<1>7. CASE Date \/ Time
  BY <1>4, <1>7 DEF Date, Time, EndOfNumber, Enter
<1>8. CASE FirstChar \/ NextChar
  BY <1>4, <1>8 DEF FirstChar, NextChar, Sees, Enter
<1>9. CASE Read \/ RefError \/ Accept \/ SyntaxError \/ OutOfMemory
  BY <1>1, <1>9 DEF Read, RefError, Accept, SyntaxError, OutOfMemory, parser
<1>10. CASE UNCHANGED vars
  BY <1>1, <1>10 DEF vars, parser
<1>. QED
  BY <1>2, <1>3, <1>5, <1>6, <1>7, <1>8, <1>9, <1>10 DEF Next

\* On every file the entries are such as the passes of dpl_parse expect (the
\* assumption on Shape in ParsePasses): a task has an id other than 0 and a
\* text that may be looked for in, and an entry without a name, which
\* dpl_parse_marker_remove takes for an end marker, has no category and no
\* description that would be lost with it.
THEOREM EntriesFitPasses == Spec => []AllPassable
<1>1. Init => AllPassable /\ NamedFirst
  BY DEF Init, AllPassable, NamedFirst
<1>2. CacheInv /\ AllPassable /\ NamedFirst /\ [Next]_vars =>
          AllPassable' /\ NamedFirst'
  BY NextPassable
<1>. QED
  BY <1>1, <1>2, CacheInductive, PTL DEF Spec

----------------------------------------------------------------------------
(* Strings as they stand in one another. *)

\* The string w stands in s behind position p.
Stands(w, p, s) == /\ p + Len(w) <= Len(s)
                   /\ \A k \in 1..Len(w) : s[p + k] = w[k]

LEMMA StandsItself ==
    ASSUME NEW s \in Seq(Plain)
    PROVE  Stands(s, 0, s)
BY LenProperties DEF Stands

LEMMA StandsJoined ==
    ASSUME NEW s, Len(s) \in Nat, NEW u \in Seq(Plain),
           NEW v \in Seq(Plain), NEW p \in Nat, Stands(u \o v, p, s)
    PROVE  Stands(u, p, s) /\ Stands(v, p + Len(u), s)
<1>1. /\ Len(u) \in Nat /\ Len(v) \in Nat /\ Len(s) \in Nat
      /\ Len(u \o v) = Len(u) + Len(v)
  BY LenProperties, ConcatProperties
<1>2. ASSUME NEW k \in 1..Len(u)
      PROVE  s[p + k] = u[k]
  <2>1. k \in 1..Len(u \o v) /\ k \in 1..(Len(u) + Len(v)) /\ k <= Len(u)
    BY <1>1
  <2>2. (u \o v)[k] = u[k]
    BY <2>1, ConcatProperties
  <2>. QED
    BY <2>1, <2>2 DEF Stands
<1>3. ASSUME NEW k \in 1..Len(v)
      PROVE  s[p + Len(u) + k] = v[k]
  <2>1. PICK l \in Nat : l = Len(u) + k
    BY <1>1
  <2>2. /\ l \in 1..Len(u \o v) /\ l \in 1..(Len(u) + Len(v))
        /\ ~(l <= Len(u)) /\ l - Len(u) = k /\ p + Len(u) + k = p + l
    BY <1>1, <2>1
  <2>3. (u \o v)[l] = v[k]
    BY <2>2, ConcatProperties
  <2>. QED
    BY <2>2, <2>3 DEF Stands
<1>. QED
  BY <1>1, <1>2, <1>3 DEF Stands

\* The string x is u and v joined, and so they stand in w when x does.
Join(u, v, x, w) ==
    /\ x \in Seq(Plain) /\ Len(x) = Len(u) + Len(v)
    /\ Stands(x, 0, w) => Stands(u, 0, w) /\ Stands(v, Len(u), w)

LEMMA Joined ==
    ASSUME NEW u \in Seq(Plain), NEW v \in Seq(Plain),
           NEW w \in Seq(Plain), NEW x, x = u \o v
    PROVE  Join(u, v, x, w)
<1>1. /\ x \in Seq(Plain) /\ Len(x) = Len(u) + Len(v)
      /\ Len(u) \in Nat /\ Len(v) \in Nat /\ Len(w) \in Nat
  BY ConcatProperties, LenProperties
<1>2. 0 + Len(u) = Len(u) /\ 0 \in Nat
  BY <1>1
<1>. QED
  BY <1>1, <1>2, StandsJoined DEF Join

LEMMA StandsThrough ==
    ASSUME NEW s, Len(s) \in Nat, NEW u, Len(u) \in Nat,
           NEW v, Len(v) \in Nat, NEW p \in Nat, NEW q \in Nat,
           Stands(u, p, s), Stands(v, q, u)
    PROVE  Stands(v, p + q, s)
<1>2. ASSUME NEW k \in 1..Len(v)
      PROVE  s[p + q + k] = v[k]
  <2>1. q + k \in 1..Len(u) /\ p + q + k = p + (q + k)
    BY DEF Stands
  <2>. QED
    BY <2>1 DEF Stands
<1>. QED
  BY <1>2 DEF Stands

LEMMA BlankChars ==
    ASSUME NEW n \in Nat
    PROVE  /\ Blanks(n) \in Seq(Plain) /\ Len(Blanks(n)) = n
           /\ \A k \in 1..n : Blanks(n)[k] = " "
<1>1. " " \in Plain
  BY WrittenAssumption DEF Plain
<1>2. PICK b : b = Blanks(n)
  OBVIOUS
<1>3. b \in [1..n -> Plain] /\ \A k \in 1..n : b[k] = " "
  BY <1>1, <1>2 DEF Blanks
<1>4. b \in Seq(Plain)
  BY <1>3, SeqDef
<1>5. Len(b) = n
  <2>1. DOMAIN b = 1..n /\ DOMAIN b = 1..Len(b) /\ Len(b) \in Nat
    BY <1>3, <1>4, LenProperties
  <2>2. PICK l \in Nat : l = Len(b) /\ 1..l = 1..n
    BY <2>1
  <2>. QED
    BY <2>2
<1>. QED
  BY <1>2, <1>3, <1>4, <1>5

\* All that stands behind position p is blank.
BlankFrom(p, s) == \A k \in (p + 1)..Len(s) : s[k] = " "

LEMMA StandingBlanks ==
    ASSUME NEW n \in Nat, NEW p \in Nat, NEW s, Stands(Blanks(n), p, s)
    PROVE  /\ p + n <= Len(s) /\ \A k \in (p + 1)..(p + n) : s[k] = " "
           /\ Len(s) = p + n => BlankFrom(p, s)
<1>1. Len(Blanks(n)) = n /\ \A k \in 1..n : Blanks(n)[k] = " "
  BY BlankChars
<1>2. ASSUME NEW k \in (p + 1)..(p + n)
      PROVE  s[k] = " "
  <2>1. k - p \in 1..n /\ p + (k - p) = k
    OBVIOUS
  <2>2. s[p + (k - p)] = Blanks(n)[k - p]
    BY <1>1, <2>1 DEF Stands
  <2>. QED
    BY <1>1, <2>1, <2>2
<1>. QED
  BY <1>1, <1>2 DEF Stands, BlankFrom

\* A string of one character.
LEMMA OneChar ==
    ASSUME NEW ch \in Plain
    PROVE  /\ <<ch>> \in Seq(Plain) /\ Len(<<ch>>) = 1
           /\ \A p \in Nat : \A s : Stands(<<ch>>, p, s) =>
                 p + 1 <= Len(s) /\ s[p + 1] = ch
BY DEF Stands

----------------------------------------------------------------------------
(* Numbers as they are written. *)

Digits(n) == IF n < 10 THEN 1 ELSE 2

\* The number the first j digits of n are read as.
Part(n, j) == IF j < Digits(n) THEN n \div 10 ELSE n

LEMMA DigitFor ==
    ASSUME NEW n \in 0..9
    PROVE  /\ (CHOOSE x \in Digit : Value[x] = n) \in Digit
           /\ Value[CHOOSE x \in Digit : Value[x] = n] = n
<1>. DEFINE digits == <<"0", "1", "2", "3", "4", "5", "6", "7", "8", "9">>
<1>1. PICK v : v = [d \in Digit |-> CHOOSE m \in 0..9 : digits[m + 1] = d]
  OBVIOUS
<1>2. Value = v
  BY <1>1, Zenon DEF Value
<1>3. /\ digits[n + 1] \in Digit
      /\ \A m \in 0..9 : digits[m + 1] = digits[n + 1] => m = n
  <2>1. n \in {0, 1, 2, 3, 4, 5, 6, 7, 8, 9}
    OBVIOUS
  <2>. QED
    BY <2>1 DEF Digit
<1>. HIDE DEF digits
<1>4. PICK d : d = digits[n + 1]
  OBVIOUS
<1>5. (CHOOSE m \in 0..9 : digits[m + 1] = d) = n
  <2>1. \E m \in 0..9 : digits[m + 1] = d
    BY <1>4
  <2>2. PICK k : k = CHOOSE m \in 0..9 : digits[m + 1] = d
    OBVIOUS
  <2>3. k \in 0..9 /\ digits[k + 1] = d
    BY <2>1, <2>2, Zenon
  <2>. QED
    BY <1>3, <1>4, <2>2, <2>3
<1>6. v[d] = CHOOSE m \in 0..9 : digits[m + 1] = d
  BY <1>1, <1>3, <1>4, Zenon
<1>7. d \in Digit /\ Value[d] = n
  BY <1>2, <1>3, <1>4, <1>5, <1>6
<1>. QED
  BY <1>7, Zenon

LEMMA DigitsRead ==
    ASSUME NEW n \in 0..99
    PROVE  /\ DigitsOf(n) \in Seq(Plain) /\ Len(DigitsOf(n)) = Digits(n)
           /\ Digits(n) \in {1, 2} /\ (n >= 10 => Digits(n) = 2)
           /\ \A j \in 1..Digits(n) :
                 /\ DigitsOf(n)[j] \in Digit
                 /\ Value[DigitsOf(n)[j]] = IF j = Digits(n) THEN n % 10
                                            ELSE n \div 10
           /\ Part(n, 1) = Value[DigitsOf(n)[1]]
           /\ Digits(n) = 2 =>
                 Part(n, 2) = Part(n, 1) * 10 + Value[DigitsOf(n)[2]]
           /\ Part(n, Digits(n)) = n
<1>1. /\ n \div 10 \in 0..9 /\ n % 10 \in 0..9
      /\ n < 10 => n % 10 = n
      /\ n = (n \div 10) * 10 + (n % 10)
  <2>1. n \in Nat /\ n < 100
    OBVIOUS
  <2>2. n \div 10 \in 0..9
    BY <2>1
  <2>3. n % 10 \in 0..9
    BY <2>1
  <2>4. n < 10 => n % 10 = n
    BY <2>1
  <2>5. n = (n \div 10) * 10 + (n % 10)
    BY <2>1
  <2>. QED
    BY <2>2, <2>3, <2>4, <2>5
<1>2. PICK d, e : /\ d = CHOOSE x \in Digit : Value[x] = n % 10
                  /\ e = CHOOSE x \in Digit : Value[x] = n \div 10
  OBVIOUS
<1>3. /\ d \in Digit /\ Value[d] = n % 10
      /\ e \in Digit /\ Value[e] = n \div 10
  BY <1>1, <1>2, DigitFor
<1>4. DigitsOf(n) = IF n < 10 THEN <<d>> ELSE <<e, d>>
  BY <1>2 DEF DigitsOf
<1>5. d \in Plain /\ e \in Plain
  BY <1>3, WrittenAssumption DEF Plain, Digit
<1>6. CASE n < 10
  BY <1>1, <1>3, <1>4, <1>5, <1>6 DEF Digits, Part
<1>7. CASE ~(n < 10)
  BY <1>1, <1>3, <1>4, <1>5, <1>7 DEF Digits, Part
<1>. QED
  BY <1>6, <1>7

----------------------------------------------------------------------------
(* The columns of lines. *)

\* The digits of n stand behind column p of w.
NumberAt(n, p, w) ==
    /\ p + Digits(n) <= Len(w)
    /\ \A j \in 1..Digits(n) :
          /\ w[p + j] \in Digit
          /\ Value[w[p + j]] = IF j = Digits(n) THEN n % 10 ELSE n \div 10

LEMMA NumberStands ==
    ASSUME NEW n \in 0..99, NEW p \in Nat, NEW w, Stands(DigitsOf(n), p, w)
    PROVE  NumberAt(n, p, w)
BY DigitsRead DEF Stands, NumberAt

LEMMA DateColumns ==
    ASSUME NEW line, IsLine(line), line.kind = "date",
           NEW w, w = Written(line)
    PROVE  LET mo == Digits(line.month)
               da == Digits(line.mday)
           IN  /\ w \in Seq(Plain)
               /\ line.year \in 10..99
               /\ {line.month, line.mday} \subseteq 0..99
               /\ line.trail \in Nat
               /\ mo \in {1, 2} /\ da \in {1, 2}
               /\ Len(w) = 4 + mo + da + line.trail
               /\ NumberAt(line.year, 0, w)
               /\ w[3] = "-"
               /\ NumberAt(line.month, 3, w)
               /\ w[4 + mo] = "-"
               /\ NumberAt(line.mday, 4 + mo, w)
               /\ BlankFrom(4 + mo + da, w)
<1>1. /\ line.year \in 10..99 /\ line.month \in 0..99 /\ line.mday \in 0..99
      /\ line.trail \in Nat
  BY DEF IsLine
<1>2. PICK y, mo, da, b, h :
          /\ y = DigitsOf(line.year) /\ mo = DigitsOf(line.month)
          /\ da = DigitsOf(line.mday) /\ b = Blanks(line.trail)
          /\ h = <<"-">>
  OBVIOUS
<1>3. PICK m \in {1, 2}, d \in {1, 2} :
          m = Digits(line.month) /\ d = Digits(line.mday)
  BY DEF Digits
<1>4. /\ y \in Seq(Plain) /\ Len(y) = 2
      /\ mo \in Seq(Plain) /\ Len(mo) = m
      /\ da \in Seq(Plain) /\ Len(da) = d
  <2>1. y \in Seq(Plain) /\ Len(y) = 2
    <3>1. line.year \in 0..99 /\ line.year >= 10
      BY <1>1
    <3>. QED
      BY <1>2, <3>1, DigitsRead
  <2>2. mo \in Seq(Plain) /\ Len(mo) = m
    BY <1>1, <1>2, <1>3, DigitsRead
  <2>3. da \in Seq(Plain) /\ Len(da) = d
    BY <1>1, <1>2, <1>3, DigitsRead
  <2>. QED
    BY <2>1, <2>2, <2>3
<1>5. b \in Seq(Plain) /\ Len(b) = line.trail
  BY <1>1, <1>2, BlankChars
<1>6. /\ h \in Seq(Plain) /\ Len(h) = 1
      /\ \A p \in Nat : Stands(h, p, w) => w[p + 1] = "-"
  <2>1. "-" \in Plain
    BY WrittenAssumption DEF Plain
  <2>. QED
    BY <1>2, <2>1, OneChar
<1>7. w = y \o h \o mo \o h \o da \o b
  BY <1>2 DEF Written
<1>8. PICK w1, w2, w3, w4 : /\ w1 = y \o h /\ w2 = w1 \o mo /\ w3 = w2 \o h
                            /\ w4 = w3 \o da /\ w = w4 \o b
  BY <1>7
<1>9. /\ Join(y, h, w1, w) /\ Join(w1, mo, w2, w) /\ Join(w2, h, w3, w)
      /\ Join(w3, da, w4, w) /\ Join(w4, b, w, w) /\ Stands(w, 0, w)
  <2>1. /\ y \in Seq(Plain) /\ h \in Seq(Plain)
        /\ mo \in Seq(Plain) /\ da \in Seq(Plain)
        /\ b \in Seq(Plain)
    BY <1>4, <1>5, <1>6
  <2>2. w1 \in Seq(Plain)
    BY <1>8, <2>1, ConcatProperties
  <2>3. w2 \in Seq(Plain)
    BY <1>8, <2>1, <2>2, ConcatProperties
  <2>4. w3 \in Seq(Plain)
    BY <1>8, <2>1, <2>3, ConcatProperties
  <2>5. w4 \in Seq(Plain)
    BY <1>8, <2>1, <2>4, ConcatProperties
  <2>6. w \in Seq(Plain)
    BY <1>8, <2>1, <2>5, ConcatProperties
  <2>7. Join(y, h, w1, w) /\ Join(w1, mo, w2, w)
    BY <1>8, <2>1, <2>2, <2>6, Joined
  <2>8. Join(w2, h, w3, w) /\ Join(w3, da, w4, w)
    BY <1>8, <2>1, <2>3, <2>4, <2>6, Joined
  <2>9. Join(w4, b, w, w)
    BY <1>8, <2>1, <2>5, <2>6, Joined
  <2>. QED
    BY <2>6, <2>7, <2>8, <2>9, StandsItself
<1>10. /\ Len(w1) = 3 /\ Len(w2) = 3 + m /\ Len(w3) = 4 + m
       /\ Len(w4) = 4 + m + d /\ Len(w) = 4 + m + d + line.trail
  BY <1>1, <1>4, <1>5, <1>6, <1>9 DEF Join
<1>11. /\ Stands(y, 0, w) /\ Stands(h, 2, w) /\ Stands(mo, 3, w)
       /\ Stands(h, 3 + m, w) /\ Stands(da, 4 + m, w)
       /\ Stands(b, 4 + m + d, w)
  BY <1>4, <1>9, <1>10 DEF Join
<1>12. /\ NumberAt(line.year, 0, w) /\ NumberAt(line.month, 3, w)
       /\ NumberAt(line.mday, 4 + m, w)
  <2>1. 0 \in Nat /\ 3 \in Nat /\ 4 + m \in Nat
    OBVIOUS
  <2>2. line.year \in 0..99
    BY <1>1
  <2>3. /\ Stands(DigitsOf(line.year), 0, w) /\ Stands(DigitsOf(line.month), 3, w)
        /\ Stands(DigitsOf(line.mday), 4 + m, w)
    BY <1>2, <1>11
  <2>. QED
    BY <1>1, <2>1, <2>2, <2>3, NumberStands
<1>13. w[3] = "-" /\ w[4 + m] = "-"
  <2>1. w[2 + 1] = "-" /\ w[3 + m + 1] = "-"
    BY <1>6, <1>11
  <2>2. 2 + 1 = 3 /\ 3 + m + 1 = 4 + m
    OBVIOUS
  <2>. QED
    BY <2>1, <2>2
<1>14. BlankFrom(4 + m + d, w)
  <2>0. 4 + m + d \in Nat
    BY <1>3
  <2>1. PICK p \in Nat : p = 4 + m + d
    BY <2>0
  <2>a. PICK n \in Nat : n = line.trail
    BY <1>1
  <2>2. Stands(b, p, w) /\ b = Blanks(n) /\ Len(w) = p + n
    BY <1>2, <1>10, <1>11, <2>1, <2>a
  <2>3. BlankFrom(p, w)
    BY <2>2, StandingBlanks
  <2>. QED
    BY <2>1, <2>3
<1>. QED
  BY <1>1, <1>3, <1>9, <1>10, <1>12, <1>13, <1>14 DEF Join

\* Blanks stand behind position p as far as q.
BlankIn(p, q, s) == \A k \in (p + 1)..q : s[k] = " "

LEMMA StandingBlanksIn ==
    ASSUME NEW n \in Nat, NEW p \in Nat, NEW s, Stands(Blanks(n), p, s)
    PROVE  BlankIn(p, p + n, s)
BY StandingBlanks DEF BlankIn

\* Where the parts of a text without a category stand.
NameOnly(t, x) ==
    /\ Len(x) = t.lead + Len(t.name) + t.trail
    /\ BlankIn(0, t.lead, x)
    /\ Stands(t.name, t.lead, x)
    /\ BlankIn(t.lead + Len(t.name), Len(x), x)

\* And of one with the category s; e is where it ends, n where the name begins.
WithCategory(t, s, x, e, n) ==
    /\ BlankIn(0, t.lead, x)
    /\ x[t.lead + 1] = "("
    /\ BlankIn(t.lead + 1, t.lead + 1 + t.lead, x)
    /\ Stands(s, t.lead + 1 + t.lead, x)
    /\ e = t.lead + 1 + t.lead + Len(s)
    /\ IF t.closed THEN x[e + 1] = ")" /\ n = e + 1 + t.lead ELSE n = e + t.lead
    /\ BlankIn(n - t.lead, n, x)
    /\ Stands(t.name, n, x)
    /\ Len(x) = n + Len(t.name) + t.trail
    /\ BlankIn(n + Len(t.name), Len(x), x)

LEMMA TextShape ==
    ASSUME NEW t, IsText(t), NEW x, x = Text(t)
    PROVE  /\ x \in Seq(Plain) /\ Len(x) \in Nat \ {0}
           /\ t.lead \in Nat /\ t.trail \in Nat /\ t.name \in Seq(Plain)
           /\ t.cat = {} => NameOnly(t, x)
           /\ \A s \in t.cat : \E e, n \in Nat : WithCategory(t, s, x, e, n)
<1>1. t.lead \in Nat /\ t.trail \in Nat /\ t.name \in Seq(Plain)
  BY DEF IsText
<1>2. PICK b, r, n : b = Blanks(t.lead) /\ r = Blanks(t.trail) /\ n = t.name
  OBVIOUS
<1>3. /\ b \in Seq(Plain) /\ r \in Seq(Plain) /\ n \in Seq(Plain)
      /\ Len(b) = t.lead /\ Len(r) = t.trail /\ Len(n) \in Nat
  BY <1>1, <1>2, BlankChars, LenProperties
<1>4. CASE t.cat = {}
  <2>1. PICK y : y = b \o n /\ x = y \o r
    BY <1>2, <1>4 DEF Text
  <2>2. y \in Seq(Plain)
    BY <1>3, <2>1, ConcatProperties
  <2>3. x \in Seq(Plain)
    BY <1>3, <2>1, <2>2, ConcatProperties
  <2>4. Join(b, n, y, x) /\ Join(y, r, x, x) /\ Stands(x, 0, x)
    BY <1>3, <2>1, <2>2, <2>3, Joined, StandsItself
  <2>5. Len(y) = t.lead + Len(n) /\ Len(x) = t.lead + Len(n) + t.trail
    BY <1>1, <1>3, <2>4 DEF Join
  <2>6. /\ Stands(b, 0, x) /\ Stands(n, t.lead, x)
        /\ Stands(r, t.lead + Len(n), x)
    BY <1>3, <2>4, <2>5 DEF Join
  <2>7. BlankIn(0, t.lead, x)
    <3>1. BlankIn(0, 0 + t.lead, x)
      BY <1>1, <1>2, <2>6, StandingBlanksIn
    <3>. QED
      BY <1>1, <3>1
  <2>8. BlankIn(t.lead + Len(n), t.lead + Len(n) + t.trail, x)
    <3>1. t.lead + Len(n) \in Nat
      BY <1>1, <1>3
    <3>. QED
      BY <1>1, <1>2, <2>6, <3>1, StandingBlanksIn
  <2>9. Len(n) # 0
    <3>1. n # <<>>
      BY <1>2, <1>4 DEF IsText
    <3>. QED
      BY <1>3, <3>1, EmptySeq
  <2>. QED
    BY <1>1, <1>2, <1>3, <1>4, <2>3, <2>5, <2>6, <2>7, <2>8, <2>9
    DEF NameOnly
<1>5. CASE t.cat # {}
  <2>1. PICK s : t.cat = {s} /\ s \in Seq(Plain \ {")"})
    BY <1>5 DEF IsText
  <2>2. s \in Seq(Plain)
    <3>1. Plain \ {")"} \subseteq Plain
      OBVIOUS
    <3>. QED
      BY <2>1, <3>1, SeqMonotonic
  <2>3. (CHOOSE z \in t.cat : TRUE) = s
    BY <2>1
  <2>4. PICK o, ch : /\ o = <<"(">> /\ ch = IF t.closed THEN <<")">> ELSE <<>>
    OBVIOUS
  <2>5. /\ o \in Seq(Plain) /\ Len(o) = 1 /\ ch \in Seq(Plain)
        /\ Len(ch) = IF t.closed THEN 1 ELSE 0
    <3>1. "(" \in Plain /\ ")" \in Plain
      BY WrittenAssumption DEF Plain
    <3>2. o \in Seq(Plain) /\ Len(o) = 1
      BY <2>4, <3>1, OneChar
    <3>3. CASE t.closed
      BY <2>4, <3>1, <3>2, <3>3, OneChar
    <3>4. CASE ~t.closed
      <4>1. ch = <<>>
        BY <2>4, <3>4
      <4>. QED
        BY <3>2, <3>4, <4>1
    <3>. QED
      BY <3>3, <3>4
  <2>6. /\ \A p \in Nat : Stands(o, p, x) => x[p + 1] = "("
        /\ t.closed => \A p \in Nat : Stands(ch, p, x) => x[p + 1] = ")"
    <3>1. "(" \in Plain /\ ")" \in Plain
      BY WrittenAssumption DEF Plain
    <3>. QED
      BY <2>4, <3>1, OneChar
  <2>7. PICK w1, w2, w3, w4, w5, w6 :
            /\ w1 = b \o o /\ w2 = w1 \o b /\ w3 = w2 \o s /\ w4 = w3 \o ch
            /\ w5 = w4 \o b /\ w6 = w5 \o n /\ x = w6 \o r
    BY <1>2, <1>5, <2>3, <2>4 DEF Text
  <2>8. w1 \in Seq(Plain)
    BY <1>3, <2>5, <2>7, ConcatProperties
  <2>9. w2 \in Seq(Plain)
    BY <1>3, <2>7, <2>8, ConcatProperties
  <2>10. w3 \in Seq(Plain)
    BY <2>2, <2>7, <2>9, ConcatProperties
  <2>11. w4 \in Seq(Plain)
    BY <2>5, <2>7, <2>10, ConcatProperties
  <2>12. w5 \in Seq(Plain)
    BY <1>3, <2>7, <2>11, ConcatProperties
  <2>13. w6 \in Seq(Plain)
    BY <1>3, <2>7, <2>12, ConcatProperties
  <2>14. x \in Seq(Plain)
    BY <1>3, <2>7, <2>13, ConcatProperties
  <2>15. /\ Join(b, o, w1, x) /\ Join(w1, b, w2, x) /\ Join(w2, s, w3, x)
         /\ Join(w3, ch, w4, x)
    BY <1>3, <2>2, <2>5, <2>7, <2>8, <2>9, <2>10, <2>14, Joined
  <2>16. /\ Join(w4, b, w5, x) /\ Join(w5, n, w6, x) /\ Join(w6, r, x, x)
         /\ Stands(x, 0, x)
    BY <1>3, <2>7, <2>11, <2>12, <2>13, <2>14, Joined, StandsItself
  <2>17. PICK l, k, q, m, j \in Nat :
             /\ l = t.lead /\ k = t.trail /\ q = Len(s) /\ m = Len(n)
             /\ j = IF t.closed THEN 1 ELSE 0
    <3>1. Len(s) \in Nat /\ (IF t.closed THEN 1 ELSE 0) \in Nat
      BY <2>2, LenProperties
    <3>. QED
      BY <1>1, <1>3, <3>1
  <2>18. /\ Len(w1) = l + 1 /\ Len(w2) = l + 1 + l /\ Len(w3) = l + 1 + l + q
         /\ Len(w4) = l + 1 + l + q + j
    BY <1>3, <2>5, <2>15, <2>17 DEF Join
  <2>19. /\ Len(w5) = l + 1 + l + q + j + l
         /\ Len(w6) = l + 1 + l + q + j + l + m
         /\ Len(x) = l + 1 + l + q + j + l + m + k
    BY <1>3, <2>16, <2>17, <2>18 DEF Join
  <2>20. Stands(n, Len(w5), x) /\ Stands(r, Len(w6), x) /\ Stands(w5, 0, x)
    BY <2>16 DEF Join
  <2>21. Stands(b, Len(w4), x) /\ Stands(w4, 0, x)
    BY <2>16, <2>20 DEF Join
  <2>22. Stands(ch, Len(w3), x) /\ Stands(s, Len(w2), x) /\ Stands(w2, 0, x)
    BY <2>15, <2>21 DEF Join
  <2>23. Stands(b, Len(w1), x) /\ Stands(o, Len(b), x) /\ Stands(b, 0, x)
    BY <2>15, <2>22 DEF Join
  <2>24. PICK e, f \in Nat : e = l + 1 + l + q /\ f = l + 1 + l + q + j + l
    OBVIOUS
  <2>25. BlankIn(0, l, x)
    <3>1. BlankIn(0, 0 + l, x)
      BY <1>2, <2>17, <2>23, StandingBlanksIn
    <3>. QED
      BY <3>1
  <2>26. x[l + 1] = "("
    BY <1>3, <2>6, <2>17, <2>23
  <2>27. BlankIn(l + 1, l + 1 + l, x)
    <3>1. PICK g \in Nat : g = l + 1
      OBVIOUS
    <3>2. Stands(Blanks(l), g, x)
      BY <1>2, <2>17, <2>18, <2>23, <3>1
    <3>3. BlankIn(g, g + l, x)
      BY <3>2, StandingBlanksIn
    <3>. QED
      BY <3>1, <3>3
  <2>28. Stands(s, l + 1 + l, x)
    BY <2>18, <2>22
  <2>29. t.closed => x[e + 1] = ")"
    BY <2>6, <2>18, <2>22, <2>24
  <2>30. BlankIn(f - l, f, x)
    <3>1. PICK g \in Nat : g = e + j /\ g + l = f /\ f - l = g
      BY <2>24
    <3>2. BlankIn(g, g + l, x)
      BY <1>2, <2>17, <2>18, <2>21, <2>24, <3>1, StandingBlanksIn
    <3>. QED
      BY <3>1, <3>2
  <2>31. Stands(n, f, x)
    BY <2>19, <2>20, <2>24
  <2>32. BlankIn(f + m, Len(x), x)
    <3>1. PICK g \in Nat : g = f + m /\ g + k = Len(x) /\ Len(w6) = g
      BY <2>19, <2>24
    <3>2. BlankIn(g, g + k, x)
      BY <1>2, <2>17, <2>20, <3>1, StandingBlanksIn
    <3>. QED
      BY <3>1, <3>2
  <2>33. IF t.closed THEN f = e + 1 + l ELSE f = e + l
    BY <2>17, <2>24
  <2>34. WithCategory(t, s, x, e, f)
    BY <1>2, <2>17, <2>19, <2>24, <2>25, <2>26, <2>27, <2>28, <2>29, <2>30,
       <2>31, <2>32, <2>33 DEF WithCategory
  <2>. QED
    BY <1>1, <1>5, <2>1, <2>14, <2>19, <2>34
<1>. QED
  BY <1>4, <1>5

\* All that is written is plain.
LEMMA WorkColumns ==
    ASSUME NEW line, IsLine(line), line.kind = "work",
           NEW w, w = Written(line)
    PROVE  LET ho == Digits(line.hour)
               end == Width1 + ho + 1 + Digits(line.min)
           IN  /\ w \in Seq(Plain)
               /\ {line.hour, line.min} \subseteq 0..99
               /\ ho \in {1, 2} /\ Digits(line.min) \in {1, 2}
               /\ line.gap \in Nat
               /\ BlankIn(0, Width1, w)
               /\ NumberAt(line.hour, Width1, w)
               /\ w[Width1 + ho + 1] = ":"
               /\ NumberAt(line.min, Width1 + ho + 1, w)
               /\ Stands(Blanks(line.gap), end, w)
               /\ line.text = {} => Len(w) = end + line.gap
                                    /\ line.gap \in {0, 1}
               /\ line.text # {} =>
                     \E t \in line.text :
                        /\ line.text = {t} /\ IsText(t) /\ line.gap > 0
                        /\ Len(w) = end + line.gap + Len(Text(t))
                        /\ Stands(Text(t), end + line.gap, w)
<1>1. /\ line.hour \in 0..99 /\ line.min \in 0..99 /\ line.gap \in Nat
      /\ Width1 \in Nat
      /\ \/ line.text = {} /\ line.gap \in {0, 1}
         \/ \E t \in line.text : line.text = {t} /\ IsText(t) /\ line.gap > 0
  BY WidthAssumption DEF IsLine
<1>2. PICK b, ho, mi, g, ch :
          /\ b = Blanks(Width1) /\ ho = DigitsOf(line.hour)
          /\ mi = DigitsOf(line.min) /\ g = Blanks(line.gap) /\ ch = <<":">>
  OBVIOUS
<1>3. PICK h \in {1, 2}, d \in {1, 2} :
          h = Digits(line.hour) /\ d = Digits(line.min)
  BY DEF Digits
<1>4. /\ b \in Seq(Plain) /\ Len(b) = Width1
      /\ ho \in Seq(Plain) /\ Len(ho) = h
      /\ mi \in Seq(Plain) /\ Len(mi) = d
      /\ g \in Seq(Plain) /\ Len(g) = line.gap
  BY <1>1, <1>2, <1>3, DigitsRead, BlankChars
<1>5. /\ ch \in Seq(Plain) /\ Len(ch) = 1
      /\ \A p \in Nat : Stands(ch, p, w) => w[p + 1] = ":"
  <2>1. ":" \in Plain
    BY WrittenAssumption DEF Plain
  <2>. QED
    BY <1>2, <2>1, OneChar
<1>6. PICK x : /\ x = IF line.text = {} THEN <<>>
                      ELSE Text(CHOOSE t \in line.text : TRUE)
  OBVIOUS
<1>7. /\ x \in Seq(Plain) /\ Len(x) \in Nat
      /\ line.text = {} => Len(x) = 0
      /\ line.text # {} => \E t \in line.text :
             /\ line.text = {t} /\ IsText(t) /\ line.gap > 0 /\ x = Text(t)
  <2>1. CASE line.text = {}
    <3>1. x = <<>>
      BY <1>6, <2>1
    <3>. QED
      BY <2>1, <3>1
  <2>2. CASE line.text # {}
    <3>1. PICK t \in line.text :
              line.text = {t} /\ IsText(t) /\ line.gap > 0
      BY <1>1, <2>2
    <3>2. x = Text(t)
      BY <1>6, <2>2, <3>1
    <3>. QED
      BY <2>2, <3>1, <3>2, TextShape
  <2>. QED
    BY <2>1, <2>2
<1>8. w = b \o ho \o ch \o mi \o g \o x
  <2>1. CASE line.text = {}
    BY <1>2, <1>6, <2>1 DEF Written
  <2>2. CASE line.text # {}
    <3>1. PICK t : line.text = {t} /\ x = Text(t)
      BY <1>7, <2>2
    <3>. QED
      BY <1>2, <2>2, <3>1 DEF Written
  <2>. QED
    BY <2>1, <2>2
<1>9. PICK w1, w2, w3, w4 : /\ w1 = b \o ho /\ w2 = w1 \o ch /\ w3 = w2 \o mi
                            /\ w4 = w3 \o g /\ w = w4 \o x
  BY <1>8
<1>10. /\ Join(b, ho, w1, w) /\ Join(w1, ch, w2, w) /\ Join(w2, mi, w3, w)
       /\ Join(w3, g, w4, w) /\ Join(w4, x, w, w) /\ Stands(w, 0, w)
  <2>1. w1 \in Seq(Plain)
    BY <1>4, <1>9, ConcatProperties
  <2>2. w2 \in Seq(Plain)
    BY <1>5, <1>9, <2>1, ConcatProperties
  <2>3. w3 \in Seq(Plain)
    BY <1>4, <1>9, <2>2, ConcatProperties
  <2>4. w4 \in Seq(Plain)
    BY <1>4, <1>9, <2>3, ConcatProperties
  <2>5. w \in Seq(Plain)
    BY <1>7, <1>9, <2>4, ConcatProperties
  <2>6. Join(b, ho, w1, w) /\ Join(w1, ch, w2, w)
    BY <1>4, <1>5, <1>9, <2>1, <2>5, Joined
  <2>7. Join(w2, mi, w3, w) /\ Join(w3, g, w4, w)
    BY <1>4, <1>9, <2>2, <2>3, <2>5, Joined
  <2>8. Join(w4, x, w, w)
    BY <1>7, <1>9, <2>4, <2>5, Joined
  <2>. QED
    BY <2>5, <2>6, <2>7, <2>8, StandsItself
<1>11. PICK end \in Nat : end = Width1 + h + 1 + d
  <2>1. Width1 + h + 1 + d \in Nat
    BY <1>1
  <2>. QED
    BY <2>1
<1>12. /\ Len(w1) = Width1 + h /\ Len(w2) = Width1 + h + 1
       /\ Len(w3) = end /\ Len(w4) = end + line.gap
       /\ Len(w) = end + line.gap + Len(x)
  BY <1>1, <1>4, <1>5, <1>7, <1>10, <1>11 DEF Join
<1>13. /\ Stands(b, 0, w) /\ Stands(ho, Width1, w) /\ Stands(ch, Width1 + h, w)
       /\ Stands(mi, Width1 + h + 1, w) /\ Stands(g, end, w)
       /\ Stands(x, end + line.gap, w)
  BY <1>4, <1>10, <1>12 DEF Join
<1>14. /\ NumberAt(line.hour, Width1, w)
       /\ NumberAt(line.min, Width1 + h + 1, w)
  <2>1. Width1 + h + 1 \in Nat
    BY <1>1
  <2>. QED
    BY <1>1, <1>2, <1>13, <2>1, NumberStands
<1>15. w[Width1 + h + 1] = ":" /\ BlankIn(0, Width1, w)
  <2>1. Width1 + h \in Nat /\ 0 \in Nat
    BY <1>1
  <2>2. BlankIn(0, 0 + Width1, w)
    BY <1>1, <1>2, <1>13, <2>1, StandingBlanksIn
  <2>3. 0 + Width1 = Width1
    BY <1>1
  <2>. QED
    BY <1>5, <1>13, <2>1, <2>2, <2>3
<1>16. line.text = {} => Len(w) = end + line.gap /\ line.gap \in {0, 1}
  BY <1>1, <1>7, <1>12
<1>17. line.text # {} => \E t \in line.text :
           /\ line.text = {t} /\ IsText(t) /\ line.gap > 0
           /\ Len(w) = end + line.gap + Len(Text(t))
           /\ Stands(Text(t), end + line.gap, w)
  BY <1>7, <1>12, <1>13
<1>18. w \in Seq(Plain)
  BY <1>10 DEF Join
<1>. QED
  BY <1>1, <1>2, <1>3, <1>11, <1>13, <1>14, <1>15, <1>16, <1>17, <1>18

LEMMA TaskColumns ==
    ASSUME NEW line, IsLine(line), line.kind = "task",
           NEW w, w = Written(line)
    PROVE  LET end == Width1 + 1 + Digits(line.id)
           IN  /\ w \in Seq(Plain)
               /\ line.id \in 0..99 /\ Digits(line.id) \in {1, 2}
               /\ BlankIn(0, Width1, w)
               /\ w[Width1 + 1] = "#"
               /\ NumberAt(line.id, Width1 + 1, w)
               /\ w[end + 1] = " "
               /\ \E t \in line.text :
                     /\ line.text = {t} /\ IsText(t)
                     /\ Len(w) = end + 1 + Len(Text(t))
                     /\ Stands(Text(t), end + 1, w)
<1>1. /\ line.id \in 0..99 /\ Width1 \in Nat
      /\ \E t \in line.text : line.text = {t} /\ IsText(t)
  BY WidthAssumption DEF IsLine
<1>2. PICK b, id, ch, g : /\ b = Blanks(Width1) /\ id = DigitsOf(line.id)
                         /\ ch = <<"#">> /\ g = <<" ">>
  OBVIOUS
<1>3. PICK d \in {1, 2} : d = Digits(line.id)
  BY DEF Digits
<1>4. PICK t \in line.text : line.text = {t} /\ IsText(t)
  BY <1>1
<1>5. PICK x : x = Text(t)
  OBVIOUS
<1>6. /\ b \in Seq(Plain) /\ Len(b) = Width1
      /\ id \in Seq(Plain) /\ Len(id) = d
      /\ x \in Seq(Plain) /\ Len(x) \in Nat
  BY <1>1, <1>2, <1>3, <1>4, <1>5, DigitsRead, BlankChars, TextShape
<1>7. /\ ch \in Seq(Plain) /\ Len(ch) = 1 /\ g \in Seq(Plain) /\ Len(g) = 1
      /\ \A p \in Nat : Stands(ch, p, w) => w[p + 1] = "#"
      /\ \A p \in Nat : Stands(g, p, w) => w[p + 1] = " "
  <2>1. "#" \in Plain /\ " " \in Plain
    BY WrittenAssumption DEF Plain
  <2>. QED
    BY <1>2, <2>1, OneChar
<1>8. PICK w1, w2, w3 : /\ w1 = b \o ch /\ w2 = w1 \o id /\ w3 = w2 \o g
                        /\ w = w3 \o x
  BY <1>2, <1>4, <1>5 DEF Written
<1>9. /\ Join(b, ch, w1, w) /\ Join(w1, id, w2, w) /\ Join(w2, g, w3, w)
      /\ Join(w3, x, w, w) /\ Stands(w, 0, w)
  <2>1. w1 \in Seq(Plain)
    BY <1>6, <1>7, <1>8, ConcatProperties
  <2>2. w2 \in Seq(Plain)
    BY <1>6, <1>8, <2>1, ConcatProperties
  <2>3. w3 \in Seq(Plain)
    BY <1>7, <1>8, <2>2, ConcatProperties
  <2>4. w \in Seq(Plain)
    BY <1>6, <1>8, <2>3, ConcatProperties
  <2>5. Join(b, ch, w1, w) /\ Join(w1, id, w2, w)
    BY <1>6, <1>7, <1>8, <2>1, <2>4, Joined
  <2>6. Join(w2, g, w3, w) /\ Join(w3, x, w, w)
    BY <1>6, <1>7, <1>8, <2>2, <2>3, <2>4, Joined
  <2>. QED
    BY <2>4, <2>5, <2>6, StandsItself
<1>10. PICK end \in Nat : end = Width1 + 1 + d
  <2>1. Width1 + 1 + d \in Nat
    BY <1>1
  <2>. QED
    BY <2>1
<1>11. /\ Len(w1) = Width1 + 1 /\ Len(w2) = end /\ Len(w3) = end + 1
       /\ Len(w) = end + 1 + Len(x)
  BY <1>1, <1>6, <1>7, <1>9, <1>10 DEF Join
<1>12. /\ Stands(b, 0, w) /\ Stands(ch, Width1, w) /\ Stands(id, Width1 + 1, w)
       /\ Stands(g, end, w) /\ Stands(x, end + 1, w)
  BY <1>6, <1>9, <1>11 DEF Join
<1>13. NumberAt(line.id, Width1 + 1, w)
  <2>1. Width1 + 1 \in Nat
    BY <1>1
  <2>. QED
    BY <1>1, <1>2, <1>12, <2>1, NumberStands
<1>14. BlankIn(0, Width1, w)
  <2>1. BlankIn(0, 0 + Width1, w)
    BY <1>1, <1>2, <1>12, StandingBlanksIn
  <2>2. 0 + Width1 = Width1
    BY <1>1
  <2>. QED
    BY <2>1, <2>2
<1>15. w[Width1 + 1] = "#" /\ w[end + 1] = " "
  BY <1>1, <1>7, <1>12
<1>16. w \in Seq(Plain)
  BY <1>9 DEF Join
<1>. QED
  BY <1>1, <1>3, <1>4, <1>5, <1>10, <1>11, <1>12, <1>13, <1>14, <1>15, <1>16

LEMMA DescColumns ==
    ASSUME NEW line, IsLine(line), line.kind = "desc",
           NEW w, w = Written(line)
    PROVE  LET p == Width1 + Width2
               d == line.desc
           IN  /\ w \in Seq(Plain) /\ d \in Seq(Plain) /\ line.trail \in Nat
               /\ Len(d) \in Nat \ {0}
               /\ d[1] \notin White \union Digit \union {"#"}
               /\ d[Len(d)] \notin White
               /\ BlankIn(0, p, w)
               /\ Stands(d, p, w)
               /\ Len(w) = p + Len(d) + line.trail
               /\ BlankIn(p + Len(d), Len(w), w)
<1>1. /\ Width1 \in Nat /\ Width2 \in Nat /\ line.trail \in Nat
      /\ line.desc \in Seq(Plain) \ {<<>>}
      /\ BeginsInText(line.desc) /\ EndsInText(line.desc)
      /\ line.desc[1] \notin Digit \union {"#"}
  BY WidthAssumption DEF IsLine
<1>2. PICK b, d, r : /\ b = Blanks(Width1 + Width2) /\ d = line.desc
                     /\ r = Blanks(line.trail)
  OBVIOUS
<1>3. PICK p \in Nat, l \in Nat : p = Width1 + Width2 /\ l = line.trail
  <2>1. Width1 + Width2 \in Nat
    BY <1>1
  <2>. QED
    BY <1>1, <2>1
<1>4. /\ b \in Seq(Plain) /\ Len(b) = p /\ r \in Seq(Plain) /\ Len(r) = l
      /\ d \in Seq(Plain) /\ Len(d) \in Nat \ {0}
  BY <1>1, <1>2, <1>3, BlankChars, EmptySeq
<1>5. PICK w1 : w1 = b \o d /\ w = w1 \o r
  BY <1>2 DEF Written
<1>6. w1 \in Seq(Plain)
  BY <1>4, <1>5, ConcatProperties
<1>7. w \in Seq(Plain)
  BY <1>4, <1>5, <1>6, ConcatProperties
<1>8. Join(b, d, w1, w) /\ Join(w1, r, w, w) /\ Stands(w, 0, w)
  BY <1>4, <1>5, <1>6, <1>7, Joined, StandsItself
<1>9. PICK q \in Nat : q = p + Len(d)
  BY <1>4
<1>10. Len(w1) = q /\ Len(w) = q + l
  BY <1>4, <1>8, <1>9 DEF Join
<1>11. Stands(b, 0, w) /\ Stands(d, p, w) /\ Stands(r, q, w)
  BY <1>4, <1>8, <1>10 DEF Join
<1>12. BlankIn(0, p, w) /\ BlankIn(q, Len(w), w)
  <2>1. BlankIn(0, 0 + p, w) /\ BlankIn(q, q + l, w)
    BY <1>2, <1>3, <1>11, StandingBlanksIn
  <2>. QED
    BY <1>10, <2>1
<1>13. d[1] \notin White /\ d[Len(d)] \notin White
  BY <1>1, <1>2, <1>4 DEF BeginsInText, EndsInText
<1>. QED
  BY <1>1, <1>2, <1>3, <1>4, <1>7, <1>9, <1>10, <1>11, <1>12, <1>13

LEMMA EmptyColumns ==
    ASSUME NEW line, line.kind = "empty"
    PROVE  Written(line) = <<>> /\ Len(Written(line)) = 0
BY DEF Written

\* A line is plain, so that its newline is the first.
LEMMA LineTyped ==
    ASSUME NEW line, IsLine(line)
    PROVE  /\ Written(line) \in Seq(Plain) /\ Len(Written(line)) \in Nat
           /\ line.kind \in {"date", "work", "task", "desc", "empty"}
<1>1. line.kind \in {"date", "work", "task", "desc", "empty"}
  BY DEF IsLine
<1>2. PICK w : w = Written(line)
  OBVIOUS
<1>3. w \in Seq(Plain)
  <2>1. CASE line.kind = "date"
    BY <1>2, <2>1, DateColumns
  <2>2. CASE line.kind = "work"
    BY <1>2, <2>2, WorkColumns
  <2>3. CASE line.kind = "task"
    BY <1>2, <2>3, TaskColumns
  <2>4. CASE line.kind = "desc"
    BY <1>2, <2>4, DescColumns
  <2>5. CASE line.kind = "empty"
    BY <1>2, <2>5, EmptyColumns, EmptySeq
  <2>. QED
    BY <1>1, <2>1, <2>2, <2>3, <2>4, <2>5
<1>. QED
  BY <1>1, <1>2, <1>3, LenProperties

----------------------------------------------------------------------------
(* What dpl_skip_whitespaces finds in a buffer. *)

LEMMA FirstIs ==
    ASSUME NEW t \in Seq(Character), NEW p \in Nat, NEW S,
           NEW n \in p..(Len(t) - 1), t[n + 1] \in S,
           \A r \in (p + 1)..n : t[r] \notin S
    PROVE  First(t, p, S) = n
<1>1. PICK f : f = First(t, p, S)
  OBVIOUS
<1>2. Len(t) \in Nat
  BY LenProperties
<1>3. f \in p..n /\ t[f + 1] \in S
  BY <1>1, FirstFound
<1>4. f \in Nat /\ n \in Nat
  BY <1>2, <1>3
<1>5. f + 1 \notin (p + 1)..n
  BY <1>3
<1>. QED
  BY <1>1, <1>3, <1>4, <1>5

LEMMA EndIs ==
    ASSUME NEW t \in Seq(Character), NEW p \in Nat, NEW e \in p..(Len(t) - 1),
           t[e + 1] = "NUL", \A r \in (p + 1)..e : t[r] # "NUL"
    PROVE  StringEnd(t, p) = e
<1>1. t[e + 1] \in {"NUL"} /\ \A r \in (p + 1)..e : t[r] \notin {"NUL"}
  OBVIOUS
<1>. QED
  BY <1>1, FirstIs DEF StringEnd

LEMMA SkipIs ==
    ASSUME NEW t \in Seq(Character), NEW p \in Nat, NEW q \in p..(Len(t) - 1),
           t[q + 1] \notin White, \A r \in (p + 1)..q : t[r] \in White
    PROVE  Skip(t, p) = q
<1>1. Len(t) \in Nat /\ DOMAIN t = 1..Len(t)
  BY LenProperties
<1>2. t[q + 1] \in Chars(t) \ White
  BY <1>1 DEF Chars
<1>3. \A r \in (p + 1)..q : t[r] \notin Chars(t) \ White
  OBVIOUS
<1>. QED
  BY <1>2, <1>3, FirstIs DEF Skip

LEMMA KeptIs ==
    ASSUME NEW t, NEW p, NEW a \in Nat, NEW e \in Nat, NEW k \in a..e,
           a = Skip(t, p), e = StringEnd(t, p), k = a \/ t[k] \notin White,
           \A i \in (k + 1)..e : t[i] \in White
    PROVE  Kept(t, p) = k
<1>1. PICK q : q = Kept(t, p)
  OBVIOUS
<1>2. /\ q \in a..e /\ (q = a \/ t[q] \notin White)
      /\ \A i \in (q + 1)..e : t[i] \in White
  BY <1>1 DEF Kept
<1>3. q \in Nat /\ k \in Nat /\ k \in a..e
  BY <1>2
<1>4. ~(q < k)
  <2>. SUFFICES ASSUME q < k
                PROVE  FALSE
    OBVIOUS
  <2>1. k \in (q + 1)..e /\ k # a
    BY <1>2, <1>3
  <2>. QED
    BY <1>2, <2>1
<1>5. ~(k < q)
  <2>. SUFFICES ASSUME k < q
                PROVE  FALSE
    OBVIOUS
  <2>1. q \in (k + 1)..e /\ q # a
    BY <1>2, <1>3
  <2>. QED
    BY <1>2, <2>1
<1>. QED
  BY <1>1, <1>3, <1>4, <1>5

LEMMA StrippedIs ==
    ASSUME NEW t, Ends(t), NEW p, NEW k \in Nat, NEW e \in Nat,
           k = Kept(t, p), e = StringEnd(t, p), k <= e, e < Len(t)
    PROVE  /\ Stripped(t, p) \in Seq(Character)
           /\ Len(Stripped(t, p)) = Len(t)
           /\ \A j \in 1..Len(t) : Stripped(t, p)[j] =
                 IF k < j /\ j <= e THEN "NUL" ELSE t[j]
<1>1. PICK n : n = Len(t)
  OBVIOUS
<1>2. t \in Seq(Character) /\ n \in Nat /\ e < n
  BY <1>1, LenProperties DEF Ends
<1>3. PICK front, nuls, back :
          /\ front = SubSeq(t, 1, k)
          /\ nuls = [i \in 1..(e - k) |-> "NUL"]
          /\ back = SubSeq(t, e + 1, n)
  OBVIOUS
<1>4. Stripped(t, p) = front \o nuls \o back
  BY <1>1, <1>3 DEF Stripped
<1>5. /\ front \in Seq(Character) /\ Len(front) = k
      /\ \A i \in 1..k : front[i] = t[i]
  <2>1. 1 \in Int /\ k \in Int /\ \A i \in 1..k : t[i] \in Character
    BY <1>1, <1>2, ElementOfSeq
  <2>2. /\ front \in Seq(Character)
        /\ Len(front) = IF 1 <= k THEN k - 1 + 1 ELSE 0
        /\ \A i \in 1..(k - 1 + 1) : front[i] = t[1 + i - 1]
    BY <1>3, <2>1, SubSeqProperties
  <2>. QED
    BY <2>2
<1>6. /\ nuls \in Seq(Character) /\ Len(nuls) = e - k
      /\ \A i \in 1..(e - k) : nuls[i] = "NUL"
  <2>1. "NUL" \in Character /\ e - k \in Nat
    BY CharacterAssumption
  <2>2. nuls \in [1..(e - k) -> Character]
    BY <1>3, <2>1
  <2>3. nuls \in Seq(Character)
    BY <2>1, <2>2, SeqDef
  <2>4. DOMAIN nuls = 1..(e - k) /\ DOMAIN nuls = 1..Len(nuls)
        /\ Len(nuls) \in Nat
    BY <2>2, <2>3, LenProperties
  <2>5. PICK l \in Nat, m \in Nat : l = Len(nuls) /\ m = e - k /\ 1..l = 1..m
    BY <2>1, <2>4
  <2>6. l = m
    BY <2>5
  <2>. QED
    BY <1>3, <2>3, <2>5, <2>6
<1>7. /\ back \in Seq(Character) /\ Len(back) = n - e
      /\ \A i \in 1..(n - e) : back[i] = t[e + i]
  <2>4. PICK g \in Nat : g = e + 1
    OBVIOUS
  <2>5. back = SubSeq(t, g, n)
    BY <1>3, <2>4
  <2>1. g \in Int /\ n \in Int /\ \A i \in g..n : t[i] \in Character
    BY <1>1, <1>2, <2>4, ElementOfSeq
  <2>6. /\ back \in Seq(Character)
        /\ Len(back) = IF g <= n THEN n - g + 1 ELSE 0
        /\ \A i \in 1..(n - g + 1) : back[i] = t[g + i - 1]
    BY <2>5, <2>1, SubSeqProperties
  <2>2. /\ Len(back) = IF e + 1 <= n THEN n - (e + 1) + 1 ELSE 0
        /\ \A i \in 1..(n - (e + 1) + 1) : back[i] = t[e + 1 + i - 1]
    BY <2>4, <2>6
  <2>3. \A i \in 1..(n - e) : i \in 1..(n - (e + 1) + 1) /\ e + 1 + i - 1 = e + i
    BY <1>2
  <2>. QED
    BY <1>2, <2>6, <2>2, <2>3
<1>8. PICK head : head = front \o nuls
  OBVIOUS
<1>9. /\ head \in Seq(Character) /\ Len(head) = e
      /\ \A i \in 1..e : head[i] = IF i <= k THEN t[i] ELSE "NUL"
  <2>1. /\ head \in Seq(Character) /\ Len(head) = Len(front) + Len(nuls)
        /\ \A i \in 1..Len(front) + Len(nuls) : head[i] =
              IF i <= Len(front) THEN front[i] ELSE nuls[i - Len(front)]
    BY <1>5, <1>6, <1>8, ConcatProperties
  <2>2. ASSUME NEW i \in 1..e
        PROVE  head[i] = IF i <= k THEN t[i] ELSE "NUL"
    <3>1. CASE i <= k
      <4>1. i \in 1..k
        BY <3>1
      <4>2. head[i] = front[i]
        BY <1>5, <1>6, <2>1, <3>1
      <4>. QED
        BY <1>5, <3>1, <4>1, <4>2
    <3>2. CASE ~(i <= k)
      <4>1. i - k \in 1..(e - k)
        BY <3>2
      <4>2. head[i] = nuls[i - k]
        BY <1>5, <1>6, <2>1, <3>2
      <4>. QED
        BY <1>6, <3>2, <4>1, <4>2
    <3>. QED
      BY <3>1, <3>2
  <2>. QED
    BY <1>5, <1>6, <2>1, <2>2
<1>10. PICK all : all = head \o back
  OBVIOUS
<1>11. /\ all \in Seq(Character) /\ Len(all) = Len(head) + Len(back)
       /\ \A i \in 1..Len(head) + Len(back) : all[i] =
             IF i <= Len(head) THEN head[i] ELSE back[i - Len(head)]
  BY <1>7, <1>9, <1>10, ConcatProperties
<1>12. ASSUME NEW j \in 1..n
       PROVE  all[j] = IF k < j /\ j <= e THEN "NUL" ELSE t[j]
  <2>1. j \in 1..Len(head) + Len(back)
    BY <1>2, <1>7, <1>9
  <2>2. CASE j <= e
    <3>1. j \in 1..e
      BY <2>2
    <3>. QED
      BY <1>9, <1>11, <2>1, <2>2, <3>1
  <2>3. CASE ~(j <= e)
    <3>1. j - e \in 1..(n - e) /\ e + (j - e) = j
      BY <1>2, <2>3
    <3>. QED
      BY <1>7, <1>9, <1>11, <2>1, <2>3, <3>1
  <2>. QED
    BY <2>2, <2>3
<1>13. Stripped(t, p) = all /\ Len(all) = n
  BY <1>2, <1>4, <1>7, <1>8, <1>9, <1>10, <1>11
<1>. QED
  BY <1>1, <1>11, <1>12, <1>13

LEMMA CutOut ==
    ASSUME NEW s \in Seq(Character), NEW w \in Seq(Character),
           NEW p \in Nat, Stands(w, p, s)
    PROVE  SubSeq(s, p + 1, p + Len(w)) = w
<1>1. Len(s) \in Nat /\ Len(w) \in Nat /\ p + Len(w) <= Len(s)
  BY LenProperties DEF Stands
<1>2. p + 1 \in 1..(Len(s) + 1) /\ p + Len(w) \in 0..Len(s)
  BY <1>1
<1>3. PICK x : x = SubSeq(s, p + 1, p + Len(w))
  OBVIOUS
<1>4. /\ x \in Seq(Character)
      /\ Len(x) = IF p + 1 <= p + Len(w) THEN p + Len(w) - (p + 1) + 1 ELSE 0
      /\ \A i \in 1..(p + Len(w) - (p + 1) + 1) : x[i] = s[p + 1 + i - 1]
  BY <1>2, <1>3, SubSeqProperties
<1>5. Len(x) = Len(w)
  BY <1>1, <1>4
<1>6. ASSUME NEW i \in 1..Len(x)
      PROVE  x[i] = w[i]
  <2>1. /\ i \in 1..(p + Len(w) - (p + 1) + 1) /\ p + 1 + i - 1 = p + i
        /\ i \in 1..Len(w)
    BY <1>1, <1>5
  <2>. QED
    BY <1>4, <2>1 DEF Stands
<1>. QED
  BY <1>3, <1>4, <1>5, <1>6, SeqEqual

\* The string x is in s behind position p.
Holds(x, p, s) == /\ Stands(x, p, s)
                  /\ p + Len(x) < Len(s) /\ s[p + Len(x) + 1] = "NUL"

NonNul == Character \ {"NUL"}

LEMMA HeldText ==
    ASSUME NEW s \in Seq(Character), NEW x \in Seq(NonNul), NEW p \in Nat,
           Holds(x, p, s)
    PROVE  StringEnd(s, p) = p + Len(x) /\ String(s, p) = x
<1>1. PICK n \in Nat, m \in Nat : n = Len(x) /\ m = Len(s)
  BY LenProperties
<1>2. p + n \in p..(Len(s) - 1) /\ s[(p + n) + 1] = "NUL"
  BY <1>1 DEF Holds
<1>3. \A r \in (p + 1)..(p + n) : s[r] # "NUL"
  <2>1. ASSUME NEW r \in (p + 1)..(p + n)
        PROVE  s[r] # "NUL"
    <3>1. r - p \in 1..Len(x) /\ p + (r - p) = r
      BY <1>1
    <3>2. s[p + (r - p)] = x[r - p]
      BY <3>1 DEF Holds, Stands
    <3>3. x[r - p] \in NonNul
      BY <3>1, ElementOfSeq
    <3>. QED
      BY <3>1, <3>2, <3>3 DEF NonNul
  <2>. QED
    BY <2>1
<1>4. StringEnd(s, p) = p + n
  BY <1>2, <1>3, EndIs
<1>5. x \in Seq(Character)
  <2>1. NonNul \subseteq Character
    BY DEF NonNul
  <2>. QED
    BY <2>1, SeqMonotonic
<1>6. SubSeq(s, p + 1, p + Len(x)) = x
  BY <1>5, CutOut DEF Holds
<1>. QED
  BY <1>1, <1>4, <1>6 DEF String

LEMMA PlainText == Plain \subseteq NonNul
BY DEF Plain, NonNul

LEMMA HeldString ==
    ASSUME NEW s \in Seq(Character), NEW x \in Seq(Plain), NEW p \in Nat,
           Holds(x, p, s)
    PROVE  StringEnd(s, p) = p + Len(x) /\ String(s, p) = x
<1>1. x \in Seq(NonNul)
  BY PlainText, SeqMonotonic
<1>. QED
  BY <1>1, HeldText

LEMMA BlankBoth ==
    ASSUME NEW s, NEW p \in Nat, NEW q \in Nat, NEW r \in Nat,
           BlankIn(p, q, s), BlankIn(q, r, s)
    PROVE  BlankIn(p, r, s)
<1>1. ASSUME NEW k \in (p + 1)..r
      PROVE  s[k] = " "
  <2>1. CASE k <= q
    <3>1. k \in (p + 1)..q
      BY <2>1
    <3>. QED
      BY <3>1 DEF BlankIn
  <2>2. CASE ~(k <= q)
    <3>1. k \in (q + 1)..r
      BY <2>2
    <3>. QED
      BY <3>1 DEF BlankIn
  <2>. QED
    BY <2>1, <2>2
<1>. QED
  BY <1>1 DEF BlankIn

LEMMA BlankThrough ==
    ASSUME NEW s, NEW x, Len(x) \in Nat, NEW a \in Nat, NEW p \in Nat,
           NEW q \in Nat, q <= Len(x), BlankIn(p, q, x), Stands(x, a, s)
    PROVE  BlankIn(a + p, a + q, s)
<1>1. ASSUME NEW k \in (a + p + 1)..(a + q)
      PROVE  s[k] = " "
  <2>1. k - a \in (p + 1)..q /\ k - a \in 1..Len(x) /\ a + (k - a) = k
    OBVIOUS
  <2>2. s[a + (k - a)] = x[k - a] /\ x[k - a] = " "
    BY <2>1 DEF BlankIn, Stands
  <2>. QED
    BY <2>1, <2>2
<1>. QED
  BY <1>1 DEF BlankIn

LEMMA StandsBoth ==
    ASSUME NEW s, Len(s) \in Nat, NEW u \in Seq(Plain), NEW v \in Seq(Plain),
           NEW p \in Nat, Stands(u, p, s), Stands(v, p + Len(u), s)
    PROVE  Stands(u \o v, p, s)
<1>1. PICK x : x = u \o v
  OBVIOUS
<1>2. PICK m \in Nat, n \in Nat : m = Len(u) /\ n = Len(v)
  BY LenProperties
<1>3. /\ Len(x) = m + n
      /\ \A i \in 1..(m + n) : x[i] = IF i <= m THEN u[i] ELSE v[i - m]
  BY <1>1, <1>2, ConcatProperties
<1>4. ASSUME NEW k \in 1..(m + n)
      PROVE  s[p + k] = x[k]
  <2>1. CASE k <= m
    BY <1>2, <1>3, <2>1 DEF Stands
  <2>2. CASE ~(k <= m)
    <3>1. PICK j \in 1..n : j = k - m
      BY <2>2
    <3>a. PICK o \in Nat : o = p + m
      OBVIOUS
    <3>b. Stands(v, o, s) /\ j \in 1..Len(v)
      BY <1>2, <3>1, <3>a
    <3>2. s[o + j] = v[j] /\ o + j = p + k
      BY <3>1, <3>a, <3>b DEF Stands
    <3>. QED
      BY <1>3, <2>2, <3>1, <3>2
  <2>. QED
    BY <2>1, <2>2
<1>5. p + (m + n) <= Len(s)
  BY <1>2 DEF Stands
<1>. QED
  BY <1>1, <1>3, <1>4, <1>5 DEF Stands

\* A string stands where the same characters do.
LEMMA StandsAlike ==
    ASSUME NEW s, NEW t, NEW x, Len(x) \in Nat, NEW p \in Nat, Stands(x, p, s),
           Len(t) = Len(s), \A j \in (p + 1)..(p + Len(x)) : t[j] = s[j]
    PROVE  Stands(x, p, t)
<1>1. ASSUME NEW k \in 1..Len(x)
      PROVE  t[p + k] = x[k]
  <2>1. p + k \in (p + 1)..(p + Len(x))
    OBVIOUS
  <2>. QED
    BY <2>1 DEF Stands
<1>. QED
  BY <1>1 DEF Stands

\* What stands in a buffer is plain.
LEMMA PlainThere ==
    ASSUME NEW s, NEW S \in SUBSET Plain, NEW x \in Seq(S), NEW p \in Nat,
           Stands(x, p, s)
    PROVE  \A r \in (p + 1)..(p + Len(x)) : s[r] \in S /\ s[r] # "NUL"
<1>1. ASSUME NEW r \in (p + 1)..(p + Len(x))
      PROVE  s[r] \in S /\ s[r] # "NUL"
  <2>1. Len(x) \in Nat
    BY LenProperties
  <2>2. r - p \in 1..Len(x) /\ p + (r - p) = r
    BY <2>1
  <2>3. s[r] = x[r - p]
    BY <2>2 DEF Stands
  <2>4. x[r - p] \in S
    BY <2>2, ElementOfSeq
  <2>. QED
    BY <2>3, <2>4 DEF Plain
<1>. QED
  BY <1>1

\* A string in the buffer behind p, from a to e, with blanks around it and its
\* terminator at q.
Framed(s, p, a, e, q) ==
    /\ {p, a, e, q} \subseteq Nat /\ p <= a /\ a <= e /\ e <= q /\ q < Len(s)
    /\ \A r \in (p + 1)..a : s[r] \in White
    /\ s[a + 1] \notin White
    /\ e = a \/ s[e] \notin White
    /\ \A r \in (e + 1)..q : s[r] \in White
    /\ \A r \in (p + 1)..q : s[r] # "NUL"
    /\ s[q + 1] = "NUL"

\* The blanks are overwritten where they follow the string, and skipped where
\* they precede it.
LEMMA StripRead ==
    ASSUME NEW s, Ends(s), NEW p, NEW a, NEW e, NEW q, Framed(s, p, a, e, q),
           NEW t, t = Stripped(s, p)
    PROVE  /\ Ends(t) /\ Len(t) = Len(s)
           /\ \A k \in 1..e : t[k] = s[k]
           /\ t[e + 1] = "NUL"
           /\ Skip(t, p) = a
<1>. /\ p \in Nat /\ a \in Nat /\ e \in Nat /\ q \in Nat /\ p <= a /\ a <= e
     /\ e <= q /\ q < Len(s)
     /\ \A r \in (p + 1)..a : s[r] \in White
     /\ s[a + 1] \notin White
     /\ e = a \/ s[e] \notin White
     /\ \A r \in (e + 1)..q : s[r] \in White
     /\ \A r \in (p + 1)..q : s[r] # "NUL"
     /\ s[q + 1] = "NUL"
  BY DEF Framed
<1>1. s \in Seq(Character) /\ Len(s) \in Nat
  BY LenProperties DEF Ends
<1>2. StringEnd(s, p) = q
  BY <1>1, EndIs
<1>3. Skip(s, p) = a
  BY <1>1, SkipIs
<1>4. Kept(s, p) = e
  BY <1>2, <1>3, KeptIs
<1>5. /\ t \in Seq(Character) /\ Len(t) = Len(s)
      /\ \A j \in 1..Len(s) : t[j] = IF e < j /\ j <= q THEN "NUL" ELSE s[j]
  BY <1>2, <1>4, StrippedIs
<1>6. Ends(t)
  <2>1. p \in 0..(Len(s) - 1)
    BY <1>1
  <2>. QED
    BY <2>1, StrippedEnds
<1>7. \A j \in 1..e : t[j] = s[j]
  BY <1>1, <1>5
<1>8. t[e + 1] = "NUL"
  <2>1. e + 1 \in 1..Len(s)
    BY <1>1
  <2>2. CASE e = q
    BY <1>5, <2>1, <2>2
  <2>3. CASE e # q
    BY <1>5, <2>1, <2>3
  <2>. QED
    BY <2>2, <2>3
<1>9. Skip(t, p) = a
  <2>1. a \in p..(Len(t) - 1)
    BY <1>1, <1>5
  <2>2. \A r \in (p + 1)..a : t[r] \in White
    BY <1>7
  <2>3. t[a + 1] \notin White
    <3>1. CASE a = e
      BY <1>8, <3>1 DEF White
    <3>2. CASE a # e
      <4>1. a + 1 \in 1..e
        BY <3>2
      <4>. QED
        BY <1>7, <4>1
    <3>. QED
      BY <3>1, <3>2
  <2>. QED
    BY <1>5, <2>1, <2>2, <2>3, SkipIs
<1>. QED
  BY <1>5, <1>6, <1>7, <1>8, <1>9

LEMMA NameRead ==
    ASSUME NEW s, Ends(s), NEW name \in Seq(Plain), NEW l \in Nat,
           NEW e \in Nat, NEW q \in Nat, e = l + Len(name), e <= q,
           q < Len(s), s[q + 1] = "NUL",
           BlankIn(0, l, s), Stands(name, l, s), BlankIn(e, q, s),
           Len(name) > 0, name[1] \notin White \union {"("},
           name[Len(name)] \notin White
    PROVE  /\ NameAndCategory(s).names = {name}
           /\ NameAndCategory(s).cat = {}
<1>1. PICK n \in Nat : n = Len(name)
  BY LenProperties
<1>2. \A r \in (l + 1)..e : s[r] # "NUL"
  <2>1. Plain \in SUBSET Plain
    OBVIOUS
  <2>. QED
    BY <2>1, PlainThere
<1>3. ASSUME NEW r \in (0 + 1)..q
      PROVE  s[r] # "NUL"
  <2>1. CASE r \in (0 + 1)..l
    BY <2>1 DEF BlankIn
  <2>2. CASE r \in (l + 1)..e
    BY <1>2, <2>2
  <2>3. CASE r \in (e + 1)..q
    BY <2>3 DEF BlankIn
  <2>. QED
    BY <2>1, <2>2, <2>3
<1>4. /\ \A r \in (0 + 1)..l : s[r] \in White
      /\ \A r \in (e + 1)..q : s[r] \in White
  BY DEF BlankIn, White
<1>5. s[l + 1] = name[1] /\ s[e] = name[n]
  BY <1>1 DEF Stands
<1>6. PICK t : t = Stripped(s, 0)
  OBVIOUS
<1>7. /\ Ends(t) /\ Len(t) = Len(s)
      /\ \A j \in 1..e : t[j] = s[j]
      /\ t[e + 1] = "NUL"
      /\ Skip(t, 0) = l
  <2>1. /\ {0, l, e, q} \subseteq Nat /\ 0 <= l /\ l <= e
        /\ s[l + 1] \notin White /\ s[e] \notin White
    BY <1>1, <1>5
  <2>2. Framed(s, 0, l, e, q)
    BY <1>3, <1>4, <2>1 DEF Framed
  <2>. QED
    BY <1>6, <2>2, StripRead
<1>8. Stands(name, l, t)
  BY <1>1, <1>7, StandsAlike
<1>9. Holds(name, l, t)
  BY <1>7, <1>8 DEF Holds, Ends
<1>10. String(t, l) = name
  BY <1>7, <1>9, HeldString DEF Ends
<1>11. t[l + 1] # "("
  <2>1. l + 1 \in 1..e
    BY <1>1
  <2>. QED
    BY <1>5, <1>7, <2>1
<1>12. NameAndCategory(s) = [text |-> t, names |-> {String(t, l)}, cat |-> {}]
  BY <1>6, <1>7, <1>11 DEF NameAndCategory
<1>. QED
  BY <1>10, <1>12

\* A category that is closed.
Closed(s, cat, name, l, b, e, n, z, q) ==
    /\ cat \in Seq(Plain \ {")"}) /\ name \in Seq(Plain)
    /\ {l, b, e, n, z, q} \subseteq Nat
    /\ l + 1 <= b /\ e = b + Len(cat) /\ e + 1 <= n /\ z = n + Len(name)
    /\ z <= q /\ q < Len(s) /\ s[q + 1] = "NUL"
    /\ BlankIn(0, l, s) /\ s[l + 1] = "(" /\ BlankIn(l + 1, b, s)
    /\ Stands(cat, b, s) /\ s[e + 1] = ")" /\ BlankIn(e + 1, n, s)
    /\ Stands(name, n, s) /\ BlankIn(z, q, s)
    /\ BeginsInText(cat) /\ BeginsInText(name) /\ EndsInText(name)
    /\ name = <<>> => n = e + 1

LEMMA CategoryRead ==
    ASSUME NEW s, Ends(s), NEW cat, NEW name, NEW l, NEW b, NEW e, NEW n,
           NEW z, NEW q, Closed(s, cat, name, l, b, e, n, z, q)
    PROVE  /\ NameAndCategory(s).names = {name}
           /\ NameAndCategory(s).cat = {cat}
<1>. /\ cat \in Seq(Plain \ {")"}) /\ name \in Seq(Plain)
     /\ l \in Nat /\ b \in Nat /\ e \in Nat /\ n \in Nat /\ z \in Nat /\ q \in Nat
     /\ l + 1 <= b /\ e = b + Len(cat) /\ e + 1 <= n /\ z = n + Len(name)
     /\ z <= q /\ q < Len(s) /\ s[q + 1] = "NUL"
     /\ BlankIn(0, l, s) /\ s[l + 1] = "(" /\ BlankIn(l + 1, b, s)
     /\ Stands(cat, b, s) /\ s[e + 1] = ")" /\ BlankIn(e + 1, n, s)
     /\ Stands(name, n, s) /\ BlankIn(z, q, s)
     /\ BeginsInText(cat) /\ BeginsInText(name) /\ EndsInText(name)
     /\ name = <<>> => n = e + 1
  BY DEF Closed
<1>1. PICK lc \in Nat, ln \in Nat : lc = Len(cat) /\ ln = Len(name)
  BY LenProperties
<1>26. /\ b <= e /\ n <= z /\ l + 1 <= e
      /\ l + 1 \in 1..z /\ e + 1 \in 1..z
  BY <1>1
<1>2. s \in Seq(Character) /\ Len(s) \in Nat
  BY LenProperties DEF Ends
<1>3. /\ \A r \in (b + 1)..e : s[r] \in Plain \ {")"} /\ s[r] # "NUL"
      /\ \A r \in (n + 1)..z : s[r] \in Plain /\ s[r] # "NUL"
      /\ cat \in Seq(Plain)
  <2>1. Plain \in SUBSET Plain /\ Plain \ {")"} \in SUBSET Plain
    OBVIOUS
  <2>2. \A r \in (b + 1)..(b + Len(cat)) : s[r] \in Plain \ {")"} /\ s[r] # "NUL"
    BY <2>1, PlainThere
  <2>3. \A r \in (n + 1)..(n + Len(name)) : s[r] \in Plain /\ s[r] # "NUL"
    BY <2>1, PlainThere
  <2>4. cat \in Seq(Plain)
    BY <2>1, SeqMonotonic
  <2>. QED
    BY <2>2, <2>3, <2>4
<1>4. ASSUME NEW r \in (0 + 1)..q
      PROVE  s[r] # "NUL"
  <2>1. CASE r \in (0 + 1)..l
    BY <2>1 DEF BlankIn
  <2>2. CASE r = l + 1 \/ r = e + 1
    BY <2>2
  <2>3. CASE r \in (l + 1 + 1)..b
    BY <2>3 DEF BlankIn
  <2>4. CASE r \in (b + 1)..e
    BY <1>3, <2>4
  <2>5. CASE r \in (e + 1 + 1)..n
    BY <2>5 DEF BlankIn
  <2>6. CASE r \in (n + 1)..z
    BY <1>3, <2>6
  <2>7. CASE r \in (z + 1)..q
    BY <2>7 DEF BlankIn
  <2>8. r \in Nat /\ r >= 1 /\ r <= q
    OBVIOUS
  <2>9. CASE r <= e + 1
    <3>1. \/ r \in (0 + 1)..l \/ r = l + 1 \/ r = e + 1
          \/ r \in (l + 1 + 1)..b \/ r \in (b + 1)..e
      BY <1>26, <2>8, <2>9
    <3>. QED
      BY <2>1, <2>2, <2>3, <2>4, <3>1
  <2>10. CASE ~(r <= e + 1)
    <3>1. \/ r \in (e + 1 + 1)..n \/ r \in (n + 1)..z
          \/ r \in (z + 1)..q
      BY <1>26, <2>8, <2>10
    <3>. QED
      BY <2>5, <2>6, <2>7, <3>1
  <2>. QED
    BY <2>9, <2>10
<1>5. s[z] \notin White
  <2>1. CASE name = <<>>
    <3>1. z = e + 1
      BY <1>1, <2>1, EmptySeq
    <3>. QED
      BY <3>1 DEF White
  <2>2. CASE name # <<>>
    <3>1. ln > 0
      BY <1>1, <2>2, EmptySeq
    <3>2. ln \in 1..Len(name) /\ n + ln = z
      BY <1>1, <3>1
    <3>3. s[z] = name[ln]
      BY <3>2 DEF Stands
    <3>. QED
      BY <1>1, <2>2, <3>3 DEF EndsInText
  <2>. QED
    BY <2>1, <2>2
<1>6. Framed(s, 0, l, z, q)
  <2>1. {0, l, z, q} \subseteq Nat /\ 0 <= l /\ l <= z
    BY <1>1
  <2>2. /\ \A r \in (0 + 1)..l : s[r] \in White
        /\ \A r \in (z + 1)..q : s[r] \in White
        /\ s[l + 1] \notin White
    BY DEF BlankIn, White
  <2>. QED
    BY <1>4, <1>5, <2>1, <2>2 DEF Framed
<1>7. PICK t : t = Stripped(s, 0)
  OBVIOUS
<1>8. /\ Ends(t) /\ Len(t) = Len(s)
      /\ \A k \in 1..z : t[k] = s[k]
      /\ t[z + 1] = "NUL"
      /\ Skip(t, 0) = l
  BY <1>6, <1>7, StripRead
<1>9. t[l + 1] = "("
  BY <1>26, <1>8
<1>10. t \in Seq(Character)
  BY <1>8 DEF Ends
<1>11. t[e + 1] = ")"
  BY <1>26, <1>8
<1>12. Skip(t, l + 1) = b
  <2>1. t[b + 1] \notin White
    <3>1. t[b + 1] = s[b + 1]
      BY <1>1, <1>8
    <3>2. CASE cat = <<>>
      <4>1. b = e
        BY <1>1, <3>2, EmptySeq
      <4>. QED
        BY <1>11, <4>1 DEF White
    <3>3. CASE cat # <<>>
      <4>1. lc > 0
        BY <1>1, <3>3, EmptySeq
      <4>2. s[b + 1] = cat[1]
        BY <1>1, <4>1 DEF Stands
      <4>. QED
        BY <3>1, <3>3, <4>2 DEF BeginsInText
    <3>. QED
      BY <3>2, <3>3
  <2>2. ASSUME NEW r \in (l + 1 + 1)..b
        PROVE  t[r] \in White
    <3>1. r \in 1..z
      BY <1>1
    <3>. QED
      BY <1>8, <3>1 DEF BlankIn, White
  <2>3. l + 1 \in Nat /\ b \in (l + 1)..(Len(t) - 1)
    BY <1>1, <1>2, <1>8
  <2>. QED
    BY <1>10, <2>1, <2>2, <2>3, SkipIs
<1>13. First(t, b, {")", "NUL"}) = e
  <2>1. \A r \in (b + 1)..e : t[r] \notin {")", "NUL"}
    <3>1. \A r \in (b + 1)..e : r \in 1..z
      BY <1>1
    <3>. QED
      BY <1>3, <1>8, <3>1
  <2>2. e \in b..(Len(t) - 1) /\ t[e + 1] \in {")", "NUL"}
    BY <1>1, <1>2, <1>8, <1>11
  <2>. QED
    BY <1>10, <2>1, <2>2, FirstIs
<1>14. PICK cut : cut = [t EXCEPT ![e + 1] = "NUL"]
  OBVIOUS
<1>15. /\ cut \in Seq(Character) /\ Len(cut) = Len(t)
       /\ \A k \in 1..Len(t) : cut[k] = IF k = e + 1 THEN "NUL" ELSE t[k]
  <2>1. e + 1 \in 1..Len(t)
    BY <1>1, <1>2, <1>8
  <2>. QED
    BY <1>10, <1>14, <2>1, CharacterAssumption, ExceptSeq
<1>16. Ends(cut)
  <2>1. Len(t) > 0 /\ t[Len(t)] = "NUL" /\ Len(t) \in 1..Len(t)
    BY <1>2, <1>8 DEF Ends
  <2>. QED
    BY <1>15, <2>1 DEF Ends
<1>17. cut[z + 1] = "NUL"
  <2>1. z + 1 \in 1..Len(t)
    BY <1>1, <1>2, <1>8
  <2>. QED
    BY <1>8, <1>15, <2>1
<1>18. \A k \in (e + 2)..z : cut[k] = s[k]
  BY <1>2, <1>8, <1>15
<1>19. Framed(cut, e + 1, n, z, z)
  <2>1. {e + 1, n, z} \subseteq Nat /\ n <= z /\ z < Len(cut)
    BY <1>1, <1>2, <1>8, <1>15
  <2>2. \A r \in (e + 1 + 1)..n : cut[r] \in White
    <3>1. \A r \in (e + 1 + 1)..n : r \in (e + 2)..z
      BY <1>1
    <3>. QED
      BY <1>18, <3>1 DEF BlankIn, White
  <2>3. \A r \in (e + 1 + 1)..z : cut[r] # "NUL"
    <3>1. \A r \in (e + 1 + 1)..z : r \in (e + 2)..z /\ r \in (0 + 1)..q
      BY <1>1
    <3>. QED
      BY <1>4, <1>18, <3>1
  <2>4. cut[n + 1] \notin White /\ (z = n \/ cut[z] \notin White)
    <3>1. CASE name = <<>>
      <4>1. z = n
        BY <1>1, <3>1, EmptySeq
      <4>. QED
        BY <1>17, <4>1 DEF White
    <3>2. CASE name # <<>>
      <4>1. ln > 0
        BY <1>1, <3>2, EmptySeq
      <4>2. s[n + 1] = name[1]
        BY <1>1, <4>1 DEF Stands
      <4>3. n + 1 \in (e + 2)..z /\ z \in (e + 2)..z
        BY <1>1, <4>1
      <4>4. cut[n + 1] = name[1] /\ cut[z] = s[z]
        BY <1>18, <4>2, <4>3
      <4>. QED
        BY <1>5, <3>2, <4>4 DEF BeginsInText
    <3>. QED
      BY <3>1, <3>2
  <2>5. \A r \in (z + 1)..z : cut[r] \in White
    OBVIOUS
  <2>. QED
    BY <1>17, <2>1, <2>2, <2>3, <2>4, <2>5 DEF Framed
<1>20. PICK u : u = Stripped(cut, e + 1)
  OBVIOUS
<1>21. /\ Ends(u) /\ Len(u) = Len(cut)
       /\ \A k \in 1..z : u[k] = cut[k]
       /\ u[z + 1] = "NUL"
       /\ Skip(u, e + 1) = n
  BY <1>16, <1>19, <1>20, StripRead
<1>22. String(u, n) = name
  <2>1. \A j \in (n + 1)..(n + Len(name)) : u[j] = s[j]
    <3>1. \A j \in (n + 1)..z : j \in (e + 2)..z /\ j \in 1..z
      BY <1>1
    <3>. QED
      BY <1>18, <1>21, <3>1
  <2>2. Stands(name, n, u)
    BY <1>1, <1>8, <1>15, <1>21, <2>1, StandsAlike
  <2>3. Holds(name, n, u)
    BY <1>1, <1>2, <1>8, <1>15, <1>21, <2>2 DEF Holds
  <2>. QED
    BY <1>21, <2>3, HeldString DEF Ends
<1>23. String(u, b) = cat
  <2>1. \A j \in (b + 1)..(b + Len(cat)) : u[j] = s[j]
    <3>1. \A j \in (b + 1)..e : j \in 1..z /\ j \in 1..Len(t) /\ j # e + 1
      BY <1>1, <1>2, <1>8
    <3>. QED
      BY <1>8, <1>15, <1>21, <3>1
  <2>2. Stands(cat, b, u)
    BY <1>1, <1>8, <1>15, <1>21, <2>1, StandsAlike
  <2>3. u[e + 1] = "NUL"
    <3>1. e + 1 \in 1..z /\ e + 1 \in 1..Len(t)
      BY <1>1, <1>2, <1>8
    <3>. QED
      BY <1>15, <1>21, <3>1
  <2>4. Holds(cat, b, u)
    BY <1>1, <1>2, <1>8, <1>15, <1>21, <2>2, <2>3 DEF Holds
  <2>. QED
    BY <1>3, <1>21, <2>4, HeldString DEF Ends
<1>24. e + 1 < Len(t)
  BY <1>1, <1>2, <1>8
<1>25. NameAndCategory(s) =
           [text |-> u, names |-> {String(u, Skip(u, e + 1))},
            cat |-> {String(u, b)}]
  BY <1>7, <1>8, <1>9, <1>12, <1>13, <1>14, <1>20, <1>24 DEF NameAndCategory
<1>. QED
  BY <1>21, <1>22, <1>23, <1>25

\* A category that is not closed takes all that follows.
LEMMA OpenRead ==
    ASSUME NEW s, Ends(s), NEW cat \in Seq(Plain \ {")"}),
           NEW l \in Nat, NEW b \in Nat, NEW e \in Nat, NEW q \in Nat,
           l + 1 <= b, e = b + Len(cat), e <= q, q < Len(s), s[q + 1] = "NUL",
           BlankIn(0, l, s), s[l + 1] = "(", BlankIn(l + 1, b, s),
           Stands(cat, b, s), BlankIn(e, q, s),
           Len(cat) > 0, cat[1] \notin White, cat[Len(cat)] \notin White
    PROVE  NameAndCategory(s).cat = {cat}
<1>1. PICK n \in Nat : n = Len(cat)
  BY LenProperties
<1>2. s \in Seq(Character) /\ Len(s) \in Nat
  BY LenProperties DEF Ends
<1>3. /\ \A r \in (b + 1)..e : s[r] \in Plain \ {")"} /\ s[r] # "NUL"
      /\ cat \in Seq(Plain)
  <2>1. Plain \ {")"} \in SUBSET Plain
    OBVIOUS
  <2>2. \A r \in (b + 1)..(b + Len(cat)) : s[r] \in Plain \ {")"} /\ s[r] # "NUL"
    BY <2>1, PlainThere
  <2>3. cat \in Seq(Plain)
    BY <2>1, SeqMonotonic
  <2>. QED
    BY <2>2, <2>3
<1>4. ASSUME NEW r \in (0 + 1)..q
      PROVE  s[r] # "NUL"
  <2>1. CASE r \in (0 + 1)..l
    BY <2>1 DEF BlankIn
  <2>2. CASE r = l + 1
    BY <2>2
  <2>3. CASE r \in (l + 1 + 1)..b
    BY <2>3 DEF BlankIn
  <2>4. CASE r \in (b + 1)..e
    BY <1>3, <2>4
  <2>5. CASE r \in (e + 1)..q
    BY <2>5 DEF BlankIn
  <2>. QED
    BY <2>1, <2>2, <2>3, <2>4, <2>5
<1>5. s[e] = cat[n] /\ s[b + 1] = cat[1]
  BY <1>1 DEF Stands
<1>6. Framed(s, 0, l, e, q)
  <2>1. {0, l, e, q} \subseteq Nat /\ 0 <= l /\ l <= e
    BY <1>1
  <2>2. /\ \A r \in (0 + 1)..l : s[r] \in White
        /\ \A r \in (e + 1)..q : s[r] \in White
        /\ s[l + 1] \notin White
    BY DEF BlankIn, White
  <2>. QED
    BY <1>1, <1>4, <1>5, <2>1, <2>2 DEF Framed
<1>7. PICK t : t = Stripped(s, 0)
  OBVIOUS
<1>8. /\ Ends(t) /\ Len(t) = Len(s) /\ t \in Seq(Character)
      /\ \A k \in 1..e : t[k] = s[k]
      /\ t[e + 1] = "NUL"
      /\ Skip(t, 0) = l
  BY <1>6, <1>7, StripRead DEF Ends
<1>9. t[l + 1] = "("
  BY <1>1, <1>8
<1>10. Skip(t, l + 1) = b
  <2>1. t[b + 1] \notin White
    BY <1>1, <1>5, <1>8
  <2>2. ASSUME NEW r \in (l + 1 + 1)..b
        PROVE  t[r] \in White
    <3>1. r \in 1..e
      BY <1>1
    <3>. QED
      BY <1>8, <3>1 DEF BlankIn, White
  <2>3. l + 1 \in Nat /\ b \in (l + 1)..(Len(t) - 1)
    BY <1>1, <1>2, <1>8
  <2>. QED
    BY <1>8, <2>1, <2>2, <2>3, SkipIs
<1>11. First(t, b, {")", "NUL"}) = e
  <2>1. \A r \in (b + 1)..e : t[r] \notin {")", "NUL"}
    <3>1. \A r \in (b + 1)..e : r \in 1..e
      BY <1>1
    <3>. QED
      BY <1>3, <1>8, <3>1
  <2>2. e \in b..(Len(t) - 1) /\ t[e + 1] \in {")", "NUL"}
    BY <1>1, <1>2, <1>8
  <2>. QED
    BY <1>8, <2>1, <2>2, FirstIs
<1>12. PICK cut : cut = [t EXCEPT ![e + 1] = "NUL"]
  OBVIOUS
<1>13. /\ cut \in Seq(Character) /\ Len(cut) = Len(t)
       /\ \A k \in 1..Len(t) : cut[k] = t[k]
  <2>1. e + 1 \in 1..Len(t)
    BY <1>1, <1>2, <1>8
  <2>. QED
    BY <1>8, <1>12, <2>1, CharacterAssumption, ExceptSeq
<1>14. Ends(cut)
  BY <1>2, <1>8, <1>13 DEF Ends
<1>15. ASSUME NEW u, Ends(u), Len(u) = Len(s),
              \A k \in 1..(e + 1) : u[k] = cut[k]
       PROVE  String(u, b) = cat
  <2>1. \A j \in (b + 1)..(b + Len(cat)) : u[j] = s[j]
    <3>1. \A j \in (b + 1)..e : j \in 1..e /\ j \in 1..Len(t) /\ j \in 1..(e + 1)
      BY <1>1, <1>2, <1>8
    <3>. QED
      BY <1>8, <1>13, <1>15, <3>1
  <2>2. Stands(cat, b, u)
    BY <1>1, <1>15, <2>1, StandsAlike
  <2>3. u[e + 1] = "NUL"
    <3>1. e + 1 \in 1..(e + 1) /\ e + 1 \in 1..Len(t)
      BY <1>1, <1>2, <1>8
    <3>. QED
      BY <1>8, <1>13, <1>15, <3>1
  <2>4. Holds(cat, b, u)
    BY <1>1, <1>2, <1>15, <2>2, <2>3 DEF Holds
  <2>. QED
    BY <1>3, <1>15, <2>4, HeldString DEF Ends
<1>16. CASE e + 1 < Len(t)
  <2>1. PICK u : u = Stripped(cut, e + 1)
    OBVIOUS
  <2>2. e + 1 \in 0..(Len(cut) - 1)
    BY <1>2, <1>8, <1>13, <1>16
  <2>3. Ends(u) /\ Len(u) = Len(cut)
    BY <1>14, <2>1, <2>2, StrippedEnds
  <2>4. PICK k, z : k = Kept(cut, e + 1) /\ z = StringEnd(cut, e + 1)
    OBVIOUS
  <2>5. /\ k \in Nat /\ z \in Nat /\ e + 1 <= k /\ k <= z /\ z < Len(cut)
    <3>1. z \in (e + 1)..(Len(cut) - 1)
      BY <1>14, <2>2, <2>4, StringEnds
    <3>2. k \in Skip(cut, e + 1)..z /\ Skip(cut, e + 1) \in (e + 1)..z
      BY <1>14, <2>2, <2>4, SkipEnds, KeptFound
    <3>. QED
      BY <2>2, <3>1, <3>2
  <2>6. \A j \in 1..Len(cut) : u[j] =
            IF k < j /\ j <= z THEN "NUL" ELSE cut[j]
    BY <1>14, <2>1, <2>4, <2>5, StrippedIs
  <2>7. \A j \in 1..(e + 1) : u[j] = cut[j]
    <3>1. ASSUME NEW j \in 1..(e + 1)
          PROVE  j \in 1..Len(cut) /\ ~(k < j)
      BY <2>5
    <3>. QED
      BY <2>6, <3>1
  <2>8. String(u, b) = cat
    BY <1>8, <1>13, <1>15, <2>3, <2>7
  <2>9. NameAndCategory(s) =
            [text |-> u, names |-> {String(u, Skip(u, e + 1))},
             cat |-> {String(u, b)}]
    BY <1>7, <1>8, <1>9, <1>10, <1>11, <1>12, <1>16, <2>1
    DEF NameAndCategory
  <2>. QED
    BY <2>8, <2>9
<1>17. CASE ~(e + 1 < Len(t))
  <2>1. String(cut, b) = cat
    BY <1>8, <1>13, <1>14, <1>15
  <2>2. NameAndCategory(s) =
            [text |-> cut, names |-> Garbage, cat |-> {String(cut, b)}]
    BY <1>7, <1>8, <1>9, <1>10, <1>11, <1>12, <1>17 DEF NameAndCategory
  <2>. QED
    BY <2>1, <2>2
<1>. QED
  BY <1>16, <1>17

\* What dpl_parse_name_category makes of the text of a line.
LEMMA TextRead ==
    ASSUME NEW t, IsText(t), NEW s, Ends(s), NEW a \in Nat, NEW q \in Nat,
           q = a + Len(Text(t)), q < Len(s), s[q + 1] = "NUL",
           BlankIn(0, a, s), Stands(Text(t), a, s)
    PROVE  /\ NameAndCategory(s).cat = Category(t)
           /\ Settled(t) => NameAndCategory(s).names = {t.name}
<1>1. PICK x : x = Text(t)
  OBVIOUS
<1>2. PICK name, lead, trail : name = t.name /\ lead = t.lead /\ trail = t.trail
  OBVIOUS
<1>3. /\ x \in Seq(Plain) /\ Len(x) \in Nat /\ lead \in Nat /\ trail \in Nat
      /\ name \in Seq(Plain) /\ Len(name) \in Nat
      /\ t.cat = {} => NameOnly(t, x)
      /\ \A cat \in t.cat : \E e, n \in Nat : WithCategory(t, cat, x, e, n)
  BY <1>1, <1>2, TextShape, LenProperties
<1>4. /\ s \in Seq(Character) /\ Len(s) \in Nat
      /\ Stands(x, a, s) /\ q = a + Len(x)
  BY <1>1, LenProperties DEF Ends
<1>7. PICK lx \in Nat : lx = Len(x)
  BY <1>3
<1>8. lead \in Nat /\ trail \in Nat
  BY <1>3
<1>5. CASE t.cat = {}
  <2>1. /\ name # <<>> /\ name[1] # "(" /\ BeginsInText(name)
        /\ EndsInText(name)
    BY <1>2, <1>5 DEF IsText
  <2>2. /\ Len(name) > 0 /\ name[1] \notin White \union {"("}
        /\ name[Len(name)] \notin White
    BY <1>3, <2>1, EmptySeq DEF BeginsInText, EndsInText
  <2>3. /\ Len(x) = lead + Len(name) + trail
        /\ BlankIn(0, lead, x)
        /\ Stands(name, lead, x)
        /\ BlankIn(lead + Len(name), Len(x), x)
    BY <1>2, <1>3, <1>5 DEF NameOnly
  <2>20. a + lead \in Nat /\ lead + Len(name) \in Nat
        /\ a + lead + Len(name) \in Nat
    BY <1>3
  <2>21. PICK l \in Nat : l = a + lead
    BY <2>20
  <2>22. PICK z \in Nat : z = lead + Len(name)
    BY <2>20
  <2>23. PICK e \in Nat : e = a + lead + Len(name)
    BY <2>20
  <2>4. /\ l = a + lead /\ z = lead + Len(name)
        /\ e = l + Len(name) /\ e = a + z
    BY <1>3, <2>21, <2>22, <2>23
  <2>5. z <= Len(x) /\ lead <= Len(x) /\ e <= q
    BY <1>3, <1>4, <2>3, <2>4
  <2>6. Stands(name, l, s)
    BY <1>3, <1>4, <2>3, <2>4, StandsThrough
  <2>7. BlankIn(e, q, s)
    <3>1. BlankIn(z, lx, x) /\ lx <= Len(x) /\ Len(x) \in Nat
      BY <1>7, <2>3, <2>4
    <3>2. BlankIn(a + z, a + lx, s)
      BY <1>4, <3>1, BlankThrough
    <3>. QED
      BY <1>4, <1>7, <2>4, <3>2
  <2>8. BlankIn(0, l, s)
    <3>1. BlankIn(a + 0, a + lead, s)
      BY <1>3, <1>4, <2>3, <2>5, BlankThrough
    <3>2. BlankIn(a, l, s)
      BY <2>4, <3>1
    <3>. QED
      BY <3>2, BlankBoth
  <2>9. NameAndCategory(s).names = {name} /\ NameAndCategory(s).cat = {}
    BY <1>3, <2>2, <2>4, <2>5, <2>6, <2>7, <2>8, NameRead
  <2>. QED
    BY <1>2, <1>5, <2>9 DEF Category, Settled
<1>6. CASE t.cat # {}
  <2>1. PICK cat : /\ t.cat = {cat}
                 /\ cat \in Seq(Plain \ {")"}) /\ BeginsInText(cat)
                 /\ IF t.closed THEN BeginsInText(name) /\ EndsInText(name)
                    ELSE /\ cat # <<>> /\ name \in Seq(Plain \ {")"})
                         /\ EndsInText(cat \o Blanks(lead) \o name)
    BY <1>2, <1>6 DEF IsText
  <2>2. PICK f, m \in Nat : WithCategory(t, cat, x, f, m)
    BY <1>3, <2>1
  <2>3. /\ BlankIn(0, lead, x) /\ x[lead + 1] = "("
        /\ BlankIn(lead + 1, lead + 1 + lead, x)
        /\ Stands(cat, lead + 1 + lead, x)
        /\ f = lead + 1 + lead + Len(cat)
        /\ IF t.closed THEN x[f + 1] = ")" /\ m = f + 1 + lead ELSE m = f + lead
        /\ BlankIn(m - lead, m, x)
        /\ Stands(name, m, x)
        /\ Len(x) = m + Len(name) + trail
        /\ BlankIn(m + Len(name), Len(x), x)
    BY <1>2, <2>2 DEF WithCategory
  <2>4. cat \in Seq(Plain) /\ Len(cat) \in Nat
    <3>1. Plain \ {")"} \subseteq Plain
      OBVIOUS
    <3>. QED
      BY <2>1, <3>1, SeqMonotonic, LenProperties
  <2>20. PICK k \in Nat, o \in Nat : k = Len(name) /\ o = Len(cat)
    BY <1>3, <2>4
  <2>21. PICK lp \in Nat, bp \in Nat : lp = lead + 1 /\ bp = lead + 1 + lead
    BY <1>3
  <2>22. PICK zp \in Nat, fp \in Nat : zp = m + k /\ fp = f + 1
    OBVIOUS
  <2>5. /\ lp = lead + 1 /\ bp = lead + 1 + lead /\ zp = m + Len(name)
        /\ fp = f + 1
    BY <2>20, <2>21, <2>22
  <2>23. PICK l \in Nat, b \in Nat, e \in Nat : l = a + lead /\ b = a + bp
                                              /\ e = a + f
    BY <1>3
  <2>24. PICK n \in Nat, z \in Nat : n = a + m /\ z = a + zp
    OBVIOUS
  <2>6. /\ l = a + lead /\ b = a + bp /\ e = a + f /\ n = a + m
        /\ z = a + zp /\ l + 1 = a + lp /\ e + 1 = a + fp
    BY <1>3, <2>5, <2>23, <2>24
  <2>25. /\ f = bp + o /\ Len(x) = zp + trail
        /\ m = IF t.closed THEN fp + lead ELSE f + lead
    BY <1>3, <2>3, <2>5, <2>20
  <2>7. /\ lp <= bp /\ bp <= f /\ m <= zp /\ zp <= Len(x) /\ f <= m
        /\ e = b + Len(cat) /\ z = n + Len(name) /\ z <= q /\ l + 1 <= b
        /\ t.closed => fp <= m
        /\ lead <= Len(x)
    <3>1. /\ lp <= bp /\ bp <= f /\ m <= zp /\ f <= m /\ l + 1 <= b
          /\ t.closed => fp <= m
      <4>20. lp <= bp
        BY <1>8, <2>21
      <4>21. bp <= f
        BY <2>20, <2>25
      <4>22at. m <= zp
        BY <2>20, <2>22
      <4>23. l + 1 <= b
        BY <2>6, <4>20
      <4>1. lp <= bp /\ bp <= f /\ m <= zp /\ l + 1 <= b
        BY <4>20, <4>21, <4>22at, <4>23
      <4>2. CASE t.closed
        <5>1. m = fp + lead /\ fp = f + 1
          BY <2>22, <2>25, <4>2
        <5>. QED
          BY <1>8, <4>1, <5>1
      <4>3. CASE ~t.closed
        <5>1. m = f + lead
          BY <2>25, <4>3
        <5>. QED
          BY <1>8, <4>1, <4>3, <5>1
      <4>. QED
        BY <4>2, <4>3
    <3>2. lx = zp + trail /\ zp <= lx /\ lead <= lx
      BY <1>3, <1>7, <2>21, <2>25, <3>1
    <3>3. e = b + o /\ z = n + k /\ z <= a + lx
      BY <1>3, <2>6, <2>22, <2>25, <3>2
    <3>. QED
      BY <1>4, <1>7, <2>20, <3>1, <3>2, <3>3
  <2>8. BlankIn(0, l, s)
    <3>1. BlankIn(a + 0, a + lead, s)
      BY <1>3, <1>4, <2>3, <2>5, <2>7, BlankThrough
    <3>2. BlankIn(a, l, s)
      BY <2>6, <3>1
    <3>. QED
      BY <3>2, BlankBoth
  <2>9. s[l + 1] = "("
    <3>1. lp \in 1..Len(x)
      BY <1>3, <2>5, <2>7
    <3>. QED
      BY <1>4, <2>3, <2>5, <2>6, <3>1 DEF Stands
  <2>10. BlankIn(l + 1, b, s)
    <3>1. BlankIn(lp, bp, x) /\ bp <= Len(x)
      BY <1>3, <2>3, <2>5, <2>7
    <3>2. BlankIn(a + lp, a + bp, s)
      BY <1>3, <1>4, <3>1, BlankThrough
    <3>. QED
      BY <2>6, <3>2
  <2>11. Stands(cat, b, s)
    BY <1>3, <1>4, <2>3, <2>4, <2>5, <2>6, StandsThrough
  <2>12. Stands(name, n, s)
    BY <1>3, <1>4, <2>3, <2>6, StandsThrough
  <2>13. BlankIn(z, q, s)
    <3>1. BlankIn(zp, lx, x) /\ lx <= Len(x) /\ Len(x) \in Nat
      BY <1>7, <2>3, <2>5
    <3>2. BlankIn(a + zp, a + lx, s)
      BY <1>4, <3>1, BlankThrough
    <3>. QED
      BY <1>4, <1>7, <2>6, <3>2
  <2>14. CASE t.closed
    <3>1. s[e + 1] = ")"
      <4>1. fp \in 1..Len(x)
        BY <1>3, <2>5, <2>7, <2>14
      <4>. QED
        BY <1>4, <2>3, <2>5, <2>6, <2>14, <4>1 DEF Stands
    <3>2. m - lead = fp /\ m <= Len(x)
      BY <1>3, <1>7, <2>7, <2>14, <2>25
    <3>3. BlankIn(e + 1, n, s)
      <4>1. BlankIn(fp, m, x)
        BY <2>3, <3>2
      <4>2. BlankIn(a + fp, a + m, s)
        BY <1>3, <1>4, <3>2, <4>1, BlankThrough
      <4>. QED
        BY <2>6, <4>2
    <3>4. BeginsInText(name) /\ EndsInText(name)
      BY <2>1, <2>14
    <3>5. CASE name # <<>>
      <4>1. e + 1 <= n
        BY <2>6, <2>7, <2>14
      <4>2. Closed(s, cat, name, l, b, e, n, z, q)
        BY <1>3, <2>1, <2>6, <2>7, <2>8, <2>9, <2>10, <2>11, <2>12, <2>13,
           <3>1, <3>3, <3>4, <3>5, <4>1 DEF Closed
      <4>3. NameAndCategory(s).names = {name} /\ NameAndCategory(s).cat = {cat}
        BY <4>2, CategoryRead
      <4>. QED
        BY <1>2, <2>1, <2>14, <4>3 DEF Category, Settled
    <3>6. CASE name = <<>>
      <4>1. Len(name) = 0
        BY <3>6
      <4>2. PICK y \in Nat : y = e + 1
        OBVIOUS
      <4>3. PICK r \in Nat : r = y
        OBVIOUS
      <4>4. Stands(name, y, s) /\ r = y + Len(name) /\ r <= q /\ e + 1 <= y
        <5>1. y <= n /\ n = z /\ z <= q
          <6>1. fp <= m /\ z = n + Len(name)
            BY <2>7, <2>14
          <6>. QED
            BY <2>6, <2>7, <4>1, <4>2, <6>1
        <5>2. y <= q /\ y + 0 = y
          BY <5>1
        <5>. QED
          BY <1>4, <4>1, <4>2, <4>3, <5>2 DEF Stands
      <4>5. BlankIn(r, q, s)
        <5>1. z = n
          BY <2>7, <4>1
        <5>2. BlankIn(y, q, s)
          BY <2>13, <3>3, <4>2, <5>1, BlankBoth
        <5>. QED
          BY <4>3, <5>2
      <4>6. BlankIn(e + 1, y, s)
        <5>1. ASSUME NEW j \in (e + 1 + 1)..y
              PROVE  FALSE
          BY <4>2
        <5>. QED
          BY <5>1 DEF BlankIn
      <4>7. e = b + Len(cat) /\ l + 1 <= b
        BY <2>7
      <4>8. Closed(s, cat, name, l, b, e, y, r, q)
        BY <1>3, <2>1, <2>6, <2>7, <2>8, <2>9, <2>10, <2>11, <3>1, <3>4, <4>2,
           <4>4, <4>5, <4>6, <4>7 DEF Closed
      <4>9. NameAndCategory(s).names = {name} /\ NameAndCategory(s).cat = {cat}
        BY <4>8, CategoryRead
      <4>. QED
        BY <1>2, <2>1, <2>14, <4>9 DEF Category, Settled
    <3>. QED
      BY <3>5, <3>6
  <2>15. CASE ~t.closed
    <3>1. PICK g, u, v : /\ g = Blanks(lead) /\ u = cat \o g /\ v = u \o name
      OBVIOUS
    <3>2. /\ g \in Seq(Plain) /\ Len(g) = lead /\ " " # ")"
          /\ g \in Seq(Plain \ {")"})
      <4>1. g \in Seq(Plain) /\ Len(g) = lead /\ \A i \in 1..lead : g[i] = " "
        BY <1>3, <3>1, BlankChars
      <4>2. " " \in Plain \ {")"}
        BY WrittenAssumption DEF Plain
      <4>3. g \in [1..lead -> Plain \ {")"}]
        BY <3>1, <4>2 DEF Blanks
      <4>. QED
        BY <1>3, <4>1, <4>3, SeqDef
    <3>3. /\ u \in Seq(Plain \ {")"}) /\ Len(u) = Len(cat) + lead
          /\ \A i \in 1..Len(cat) + Len(g) :
                u[i] = IF i <= Len(cat) THEN cat[i] ELSE g[i - Len(cat)]
      BY <2>1, <3>1, <3>2, ConcatProperties
    <3>4. /\ v \in Seq(Plain \ {")"}) /\ Len(v) = Len(u) + Len(name)
          /\ \A i \in 1..Len(u) + Len(name) :
                v[i] = IF i <= Len(u) THEN u[i] ELSE name[i - Len(u)]
      BY <2>1, <2>15, <3>1, <3>3, ConcatProperties
    <3>5. Stands(u, b, s)
      <4>1. BlankIn(e, n, s)
        <5>1. BlankIn(f, m, x) /\ m <= Len(x)
          BY <1>3, <2>3, <2>7, <2>15
        <5>2. BlankIn(a + f, a + m, s)
          BY <1>3, <1>4, <5>1, BlankThrough
        <5>. QED
          BY <2>6, <5>2
      <4>2. n = e + lead
        BY <1>3, <2>3, <2>6, <2>15
      <4>3. Stands(g, e, s)
        <5>1. \A i \in 1..lead : g[i] = " "
          BY <1>3, <3>1, BlankChars
        <5>2. \A i \in 1..lead : e + i \in (e + 1)..n
          BY <1>3, <4>2
        <5>3. e + lead <= Len(s)
          BY <1>3, <1>4, <2>7, <4>2
        <5>. QED
          BY <3>2, <4>1, <5>1, <5>2, <5>3 DEF Stands, BlankIn
      <4>. QED
        BY <1>4, <2>4, <2>7, <2>11, <3>1, <3>2, <4>3, StandsBoth
    <3>6. Stands(v, b, s)
      <4>1. u \in Seq(Plain)
        <5>1. Plain \ {")"} \subseteq Plain
          OBVIOUS
        <5>. QED
          BY <3>3, <5>1, SeqMonotonic
      <4>2. b + (o + lead) = n /\ Len(u) = o + lead
        BY <1>3, <2>6, <2>15, <2>20, <2>25, <3>3
      <4>3. Stands(name, b + Len(u), s)
        BY <2>12, <4>2
      <4>. QED
        BY <1>3, <1>4, <3>1, <3>5, <4>1, <4>3, StandsBoth
    <3>7. Len(v) > 0 /\ v[1] \notin White /\ v[Len(v)] \notin White
      <4>1. cat # <<>> /\ BeginsInText(cat)
        BY <2>1, <2>15
      <4>2. Len(cat) > 0 /\ cat[1] \notin White
        BY <2>4, <4>1, EmptySeq DEF BeginsInText
      <4>3. Len(u) > 0 /\ u[1] = cat[1]
        BY <1>3, <2>4, <3>2, <3>3, <4>2
      <4>4. Len(v) > 0 /\ v[1] = u[1]
        BY <1>3, <2>4, <3>3, <3>4, <4>2, <4>3
      <4>5. EndsInText(v)
        BY <2>1, <2>15, <3>1
      <4>6. v # <<>>
        BY <3>4, <4>4
      <4>. QED
        BY <4>2, <4>3, <4>4, <4>5, <4>6 DEF EndsInText
    <3>8. z = b + Len(v)
      <4>1. Len(v) = o + lead + k /\ z = b + (o + lead + k)
        BY <1>3, <2>6, <2>15, <2>20, <2>22, <2>25, <3>3, <3>4
      <4>. QED
        BY <4>1
    <3>9. NameAndCategory(s).cat = {v}
      BY <2>7, <2>8, <2>9, <2>10, <2>13, <3>4, <3>6, <3>7, <3>8, OpenRead
    <3>10. Category(t) = {v} /\ ~Settled(t)
      BY <1>2, <2>1, <2>15, <3>1 DEF Category, Settled
    <3>. QED
      BY <3>9, <3>10
  <2>. QED
    BY <2>14, <2>15
<1>. QED
  BY <1>5, <1>6

\* What dpl_parse_desc_set makes of the lines of a description.
LEMMA DescRead ==
    ASSUME NEW s, Ends(s), NEW d \in Seq(NonNul), NEW w \in Seq(White),
           NEW q \in Nat, q = Len(d) + Len(w), q < Len(s), s[q + 1] = "NUL",
           Stands(d, 0, s), Stands(w, Len(d), s),
           Len(d) > 0, d[1] \notin White, d[Len(d)] \notin White,
           NEW t, t = Stripped(s, 0)
    PROVE  String(t, Skip(t, 0)) = d
<1>1. PICK n \in Nat : n = Len(d)
  BY LenProperties
<1>2. PICK k \in Nat : k = Len(w)
  BY LenProperties
<1>3. \A j \in 1..n : s[j] = d[j] /\ d[j] \in NonNul
  BY <1>1, ElementOfSeq DEF Stands
<1>4. ASSUME NEW r \in (n + 1)..q
      PROVE  s[r] \in White
  <2>1. r - n \in 1..Len(w) /\ n + (r - n) = r
    BY <1>1, <1>2
  <2>2. s[r] = w[r - n] /\ w[r - n] \in White
    BY <1>1, <2>1, ElementOfSeq DEF Stands
  <2>. QED
    BY <2>2
<1>5. Framed(s, 0, 0, n, q)
  <2>1. {0, n, q} \subseteq Nat /\ n <= q /\ n \in 1..n /\ 1 \in 1..n
    BY <1>1, <1>2
  <2>2. s[0 + 1] \notin White /\ s[n] \notin White
    BY <1>1, <1>3, <2>1
  <2>3. \A r \in (0 + 1)..q : s[r] # "NUL"
    <3>1. ASSUME NEW r \in (0 + 1)..q
          PROVE  s[r] # "NUL"
      <4>1. CASE r \in 1..n
        BY <1>3, <4>1 DEF NonNul
      <4>2. CASE r \in (n + 1)..q
        BY <1>4, <4>2 DEF White
      <4>. QED
        BY <4>1, <4>2
    <3>. QED
      BY <3>1
  <2>. QED
    BY <1>4, <2>1, <2>2, <2>3 DEF Framed
<1>6. /\ Ends(t) /\ Len(t) = Len(s)
      /\ \A j \in 1..n : t[j] = s[j]
      /\ t[n + 1] = "NUL"
      /\ Skip(t, 0) = 0
  BY <1>5, StripRead
<1>7. Holds(d, 0, t)
  <2>1. Len(s) \in Nat
    BY LenProperties DEF Ends
  <2>. QED
    BY <1>1, <1>2, <1>3, <1>6, <2>1 DEF Holds, Stands
<1>. QED
  BY <1>6, <1>7, HeldText DEF Ends

----------------------------------------------------------------------------
(* The meaning of lines. *)

Place == {"top", "dated", "items", "body", "desc"}

Promise == [type : {"WORK", "TASK"}, begin : Int, id : Nat,
            name : SUBSET Seq(Character), settled : BOOLEAN,
            cat : SUBSET Seq(Character), desc : SUBSET Seq(NonNul)]

Meanings == [place : Place, time : Int, white : Seq({" ", "\n"}),
             entries : Seq(Promise),
             verdict : {"OK", "ERR_SYNTAX", "ERR_INPUT"}]

\* A description as far as it has been written.
IsDesc(d) == /\ d \in Seq(NonNul) /\ Len(d) > 0
             /\ d[1] \notin White /\ d[Len(d)] \notin White

MeaningOK(m) ==
    /\ m \in Meanings
    /\ m.place \in {"body", "desc"} => m.entries # <<>>
    /\ m.place = "body" => m.entries[Len(m.entries)].desc = {}
    /\ m.place = "desc" =>
          \E d : m.entries[Len(m.entries)].desc = {d} /\ IsDesc(d)

\* What the lines ps mean is what the first of them, es, do, but for the last
\* description.
Foresees(es, ps) ==
    /\ Len(es) <= Len(ps)
    /\ \A j \in 1..Len(es) :
          /\ es[j].type = ps[j].type /\ es[j].begin = ps[j].begin
          /\ es[j].id = ps[j].id /\ es[j].name = ps[j].name
          /\ es[j].settled = ps[j].settled /\ es[j].cat = ps[j].cat
          /\ j < Len(es) => es[j].desc = ps[j].desc

LEMMA ForeseesItself ==
    ASSUME NEW es \in Seq(Promise)
    PROVE  Foresees(es, es)
BY LenProperties DEF Foresees

LEMMA ForeseesOn ==
    ASSUME NEW es \in Seq(Promise), NEW ps \in Seq(Promise),
           NEW qs \in Seq(Promise), Foresees(es, ps), Foresees(ps, qs)
    PROVE  Foresees(es, qs)
<1>1. PICK k, l, n \in Nat : k = Len(es) /\ l = Len(ps) /\ n = Len(qs)
  BY LenProperties
<1>2. k <= l /\ l <= n
  BY <1>1 DEF Foresees
<1>3. ASSUME NEW j \in 1..k
      PROVE  /\ es[j].type = qs[j].type /\ es[j].begin = qs[j].begin
             /\ es[j].id = qs[j].id /\ es[j].name = qs[j].name
             /\ es[j].settled = qs[j].settled /\ es[j].cat = qs[j].cat
             /\ j < k => es[j].desc = qs[j].desc
  <2>1. j \in 1..l /\ (j < k => j < l)
    BY <1>2
  <2>. QED
    BY <1>1, <2>1 DEF Foresees
<1>. QED
  BY <1>1, <1>2, <1>3 DEF Foresees

LEMMA PromisedTyped ==
    ASSUME NEW line, IsLine(line), line.kind \in {"work", "task"},
           NEW begin \in Int
    PROVE  Promised(line, begin) \in Promise
<1>1. \A t \in line.text : IsText(t)
  BY DEF IsLine
<1>2. Plain \subseteq Character
  BY DEF Plain
<1>3. {t.name : t \in line.text} \in SUBSET Seq(Character)
  <2>1. ASSUME NEW t \in line.text
        PROVE  t.name \in Seq(Character)
    <3>1. t.name \in Seq(Plain)
      BY <1>1 DEF IsText
    <3>. QED
      BY <1>2, <3>1, SeqMonotonic
  <2>. QED
    BY <2>1
<1>4. ASSUME NEW t \in line.text
      PROVE  Category(t) \in SUBSET Seq(Character)
  <2>1. /\ IsText(t) /\ t.lead \in Nat /\ t.name \in Seq(Plain)
    BY <1>1 DEF IsText
  <2>2. \A s \in t.cat : s \in Seq(Plain)
    <3>1. Plain \ {")"} \subseteq Plain
      OBVIOUS
    <3>. QED
      BY <2>1, <3>1, SeqMonotonic DEF IsText
  <2>3. ASSUME NEW s \in t.cat
        PROVE  /\ s \in Seq(Character)
               /\ s \o Blanks(t.lead) \o t.name \in Seq(Character)
    <3>1. PICK b : b = Blanks(t.lead)
      OBVIOUS
    <3>2. s \in Seq(Plain) /\ b \in Seq(Plain)
      BY <2>1, <2>2, <3>1, BlankChars
    <3>3. s \o b \in Seq(Plain)
      BY <3>2, ConcatProperties
    <3>4. s \o b \o t.name \in Seq(Plain)
      BY <2>1, <3>3, ConcatProperties
    <3>. QED
      BY <1>2, <3>1, <3>2, <3>4, SeqMonotonic
  <2>. QED
    BY <2>3 DEF Category
<1>5. UNION {Category(t) : t \in line.text} \in SUBSET Seq(Character)
  BY <1>4
<1>6. (IF line.kind = "work" THEN 0 ELSE line.id) \in Nat
  <2>1. CASE line.kind = "work"
    BY <2>1
  <2>2. CASE line.kind = "task"
    <3>1. line.id \in 0..99
      BY <2>2 DEF IsLine
    <3>2. line.id \in Nat
      BY <3>1
    <3>. QED
      BY <2>2, <3>2
  <2>. QED
    BY <2>1, <2>2
<1>7. (\A t \in line.text : Settled(t)) \in BOOLEAN
  OBVIOUS
<1>. QED
  BY <1>3, <1>5, <1>6, <1>7 DEF Promised, Promise

----------------------------------------------------------------------------
(* The lines that are in their place. *)

Midnight(m, line) ==
    1440 * DayNumber(Year(m, line), line.month, line.mday)

AfterDate(m, line) ==
    [[m EXCEPT !.place = PlaceAfter(m.place, line)]
        EXCEPT !.time = Midnight(m, line)]

AfterItem(m, line) ==
    [[m EXCEPT !.place = PlaceAfter(m.place, line)]
        EXCEPT !.time = Begin(m, line),
               !.entries = Append(@, Promised(line, Begin(m, line)))]

AfterDesc(m, line) ==
    [[m EXCEPT !.place = PlaceAfter(m.place, line)]
        EXCEPT !.white = Append(Blanks(line.trail), "\n"),
               !.entries[Len(m.entries)].desc = Continued(@, m, line)]

AfterEmpty(m, line) ==
    [[m EXCEPT !.place = PlaceAfter(m.place, line)]
        EXCEPT !.white = Append(@, "\n")]

LEMMA MeaningInPlace ==
    ASSUME NEW m, m.verdict = "OK", NEW line,
           PlaceAfter(m.place, line) # "misplaced",
           ~(line.kind = "task" /\ line.id = 0)
    PROVE  /\ line.kind = "date" => MeaningAfter(m, line) = AfterDate(m, line)
           /\ line.kind \in {"work", "task"} =>
                 MeaningAfter(m, line) = AfterItem(m, line)
           /\ line.kind = "desc" => MeaningAfter(m, line) = AfterDesc(m, line)
           /\ line.kind = "empty" =>
                 MeaningAfter(m, line) = AfterEmpty(m, line)
<1>1. MeaningAfter(m, line) =
         CASE line.kind = "date" -> AfterDate(m, line)
           [] line.kind \in {"work", "task"} -> AfterItem(m, line)
           [] line.kind = "desc" -> AfterDesc(m, line)
           [] line.kind = "empty" -> AfterEmpty(m, line)
  BY Zenon DEF MeaningAfter, AfterDate, Midnight, AfterItem, AfterDesc, AfterEmpty
<1>. QED
  BY <1>1

LEMMA MeaningDate ==
    ASSUME NEW m, m \in Meanings, m.verdict = "OK", NEW line,
           line.kind = "date", PlaceAfter(m.place, line) # "misplaced"
    PROVE  /\ MeaningAfter(m, line) =
                 [place |-> "dated",
                  time |-> Midnight(m, line),
                  white |-> m.white,
                  entries |-> m.entries,
                  verdict |-> "OK"]
           /\ m.place \in {"top", "items", "body", "desc"}
<1>1. m.place \in Place
  BY DEF Meanings
<1>2. m.place \in {"top", "items", "body", "desc"}
  BY <1>1 DEF PlaceAfter, Place
<1>3. PlaceAfter(m.place, line) = "dated"
  BY <1>2 DEF PlaceAfter
<1>4. MeaningAfter(m, line) = AfterDate(m, line)
  BY MeaningInPlace
<1>. QED
  BY <1>2, <1>3, <1>4 DEF AfterDate, Meanings

LEMMA MeaningItem ==
    ASSUME NEW m, m \in Meanings, m.verdict = "OK", NEW line,
           line.kind \in {"work", "task"},
           PlaceAfter(m.place, line) # "misplaced",
           ~(line.kind = "task" /\ line.id = 0)
    PROVE  /\ MeaningAfter(m, line) =
                 [place |-> IF line.kind = "work" /\ line.text = {}
                            THEN "items" ELSE "body",
                  time |-> Begin(m, line),
                  white |-> m.white,
                  entries |-> Append(m.entries,
                                      Promised(line, Begin(m, line))),
                  verdict |-> "OK"]
           /\ m.place \in {"dated", "items", "body", "desc"}
<1>1. m.place \in Place
  BY DEF Meanings
<1>2. m.place \in {"dated", "items", "body", "desc"}
  BY <1>1 DEF PlaceAfter, Place
<1>3. PlaceAfter(m.place, line) = 
         IF line.kind = "work" /\ line.text = {} THEN "items" ELSE "body"
  BY <1>2 DEF PlaceAfter
<1>4. MeaningAfter(m, line) = AfterItem(m, line)
  BY MeaningInPlace
<1>. QED
  BY <1>2, <1>3, <1>4 DEF AfterItem, Meanings

LEMMA MeaningDesc ==
    ASSUME NEW m, m \in Meanings, m.verdict = "OK", NEW line,
           line.kind = "desc", PlaceAfter(m.place, line) # "misplaced"
    PROVE  /\ MeaningAfter(m, line) =
                 [place |-> "desc",
                  time |-> m.time,
                  white |-> Append(Blanks(line.trail), "\n"),
                  entries |-> [m.entries EXCEPT ![Len(m.entries)].desc =
                                   Continued(@, m, line)],
                  verdict |-> "OK"]
           /\ m.place \in {"body", "desc"}
<1>1. m.place \in Place
  BY DEF Meanings
<1>2. m.place \in {"body", "desc"}
  BY <1>1 DEF PlaceAfter, Place
<1>3. PlaceAfter(m.place, line) = "desc"
  BY <1>2 DEF PlaceAfter
<1>4. MeaningAfter(m, line) = AfterDesc(m, line)
  BY MeaningInPlace
<1>. QED
  BY <1>2, <1>3, <1>4 DEF AfterDesc, Meanings

LEMMA MeaningEmpty ==
    ASSUME NEW m, m \in Meanings, m.verdict = "OK", NEW line,
           line.kind = "empty", PlaceAfter(m.place, line) # "misplaced"
    PROVE  /\ MeaningAfter(m, line) =
                 [place |-> IF m.place = "body" THEN "items" ELSE m.place,
                  time |-> m.time,
                  white |-> Append(m.white, "\n"),
                  entries |-> m.entries,
                  verdict |-> "OK"]
           /\ m.place \in {"dated", "items", "body", "desc"}
<1>1. m.place \in Place
  BY DEF Meanings
<1>2. m.place \in {"dated", "items", "body", "desc"}
  BY <1>1 DEF PlaceAfter, Place
<1>3. PlaceAfter(m.place, line) = 
         IF m.place = "body" THEN "items" ELSE m.place
  BY <1>2 DEF PlaceAfter
<1>4. MeaningAfter(m, line) = AfterEmpty(m, line)
  BY MeaningInPlace
<1>. QED
  BY <1>2, <1>3, <1>4 DEF AfterEmpty, Meanings

Spaces == {" ", "\n"}

LEMMA SpacesTyped ==
    /\ Spaces \subseteq NonNul /\ Spaces \subseteq White
BY WrittenAssumption DEF Spaces, NonNul, White

LEMMA BlankLineEnd ==
    ASSUME NEW n \in Nat
    PROVE  Append(Blanks(n), "\n") \in Seq(Spaces)
<1>1. PICK b : b = Blanks(n)
  OBVIOUS
<1>2. b \in [1..n -> Spaces]
  BY <1>1 DEF Blanks, Spaces
<1>3. b \in Seq(Spaces)
  BY <1>2, SeqDef
<1>. QED
  BY <1>1, <1>3, AppendProperties DEF Spaces

\* A description grows by a line.
LEMMA DescGrows ==
    ASSUME NEW d, IsDesc(d), NEW w \in Seq(Spaces), NEW e \in Seq(Plain),
           e # <<>>, BeginsInText(e), EndsInText(e)
    PROVE  IsDesc(e) /\ IsDesc(d \o w \o e)
<1>1. e \in Seq(NonNul) /\ w \in Seq(NonNul) /\ d \in Seq(NonNul)
  BY SeqMonotonic, PlainText, SpacesTyped DEF IsDesc
<1>2. IsDesc(e)
  BY <1>1, EmptySeq, LenProperties DEF IsDesc, BeginsInText, EndsInText
<1>3. PICK ld, lw, le \in Nat : ld = Len(d) /\ lw = Len(w) /\ le = Len(e)
  BY <1>1, LenProperties
<1>4. PICK a : a = d \o w
  OBVIOUS
<1>5. /\ a \in Seq(NonNul) /\ Len(a) = ld + lw
      /\ \A i \in 1..(ld + lw) : a[i] = IF i <= ld THEN d[i] ELSE w[i - ld]
  BY <1>1, <1>3, <1>4, ConcatProperties
<1>6. PICK all : all = a \o e
  OBVIOUS
<1>7. PICK la \in Nat : la = ld + lw
  OBVIOUS
<1>8. /\ all \in Seq(NonNul) /\ Len(all) = la + le
      /\ \A i \in 1..(la + le) : all[i] = IF i <= la THEN a[i] ELSE e[i - la]
  <2>1. Len(a) = la /\ a \in Seq(NonNul)
    BY <1>5, <1>7
  <2>. QED
    BY <1>1, <1>3, <1>6, <2>1, ConcatProperties
<1>9. ld > 0 /\ le > 0
  BY <1>2, <1>3 DEF IsDesc
<1>10. all[1] = d[1]
  <2>1. 1 \in 1..(la + le) /\ 1 <= la /\ 1 \in 1..(ld + lw) /\ 1 <= ld
    BY <1>7, <1>9
  <2>. QED
    BY <1>5, <1>8, <2>1
<1>11. all[la + le] = e[le]
  <2>1. /\ la + le \in 1..(la + le) /\ ~(la + le <= la)
        /\ (la + le) - la = le
    BY <1>9
  <2>. QED
    BY <1>8, <2>1
<1>12. IsDesc(all)
  BY <1>2, <1>3, <1>8, <1>9, <1>10, <1>11 DEF IsDesc
<1>. QED
  BY <1>2, <1>4, <1>6, <1>12

LEMMA MeaningTyped ==
    ASSUME NEW m, MeaningOK(m), NEW line, IsLine(line)
    PROVE  /\ MeaningOK(MeaningAfter(m, line))
           /\ Foresees(m.entries, MeaningAfter(m, line).entries)
           /\ m.verdict # "OK" => MeaningAfter(m, line) = m
<1>1. m \in Meanings /\ m.entries \in Seq(Promise)
  BY DEF MeaningOK, Meanings
<1>2. PICK n : n = MeaningAfter(m, line)
  OBVIOUS
<1>3. line.kind \in {"date", "work", "task", "desc", "empty"}
  BY LineTyped
<1>4. PICK k \in Nat : k = Len(m.entries)
  BY <1>1, LenProperties
<1>5. CASE m.verdict # "OK"
  BY <1>1, <1>5, ForeseesItself DEF MeaningAfter
<1>6. CASE m.verdict = "OK" /\ PlaceAfter(m.place, line) = "misplaced"
  <2>1. n = [m EXCEPT !.verdict = "ERR_SYNTAX"]
    BY <1>2, <1>6 DEF MeaningAfter
  <2>2. MeaningOK(n) /\ n.entries = m.entries
    BY <1>1, <2>1 DEF MeaningOK, Meanings
  <2>. QED
    BY <1>1, <1>2, <1>6, <2>2, ForeseesItself
<1>7. CASE /\ m.verdict = "OK" /\ PlaceAfter(m.place, line) # "misplaced"
           /\ line.kind = "task" /\ line.id = 0
  <2>1. n = [m EXCEPT !.verdict = "ERR_INPUT"]
    BY <1>2, <1>7 DEF MeaningAfter
  <2>2. MeaningOK(n) /\ n.entries = m.entries
    BY <1>1, <2>1 DEF MeaningOK, Meanings
  <2>. QED
    BY <1>1, <1>2, <1>7, <2>2, ForeseesItself
<1>8. CASE /\ m.verdict = "OK" /\ PlaceAfter(m.place, line) # "misplaced"
           /\ line.kind = "date"
  <2>1. PICK t : t = Midnight(m, line)
    OBVIOUS
  <2>2. n = [place |-> "dated", time |-> t, white |-> m.white,
             entries |-> m.entries, verdict |-> "OK"]
    <3>1. MeaningAfter(m, line) =
             [place |-> "dated",
              time |-> Midnight(m, line),
              white |-> m.white, entries |-> m.entries, verdict |-> "OK"]
      BY <1>1, <1>8, MeaningDate
    <3>. QED
      BY <1>2, <2>1, <3>1, Zenon
  <2>3. t \in Int
    <3>1. /\ line.year \in 10..99 /\ line.month \in 0..99
          /\ line.mday \in 0..99
      BY <1>8 DEF IsLine
    <3>2. Year(m, line) \in Int
      BY <3>1 DEF Year
    <3>. QED
      BY <2>1, <3>1, <3>2 DEF DayNumber, Midnight
  <2>4. MeaningOK(n) /\ n.entries = m.entries
    BY <1>1, <2>2, <2>3 DEF MeaningOK, Meanings, Place
  <2>. QED
    BY <1>1, <1>2, <1>8, <2>4, ForeseesItself
<1>9. CASE /\ m.verdict = "OK" /\ PlaceAfter(m.place, line) # "misplaced"
           /\ line.kind \in {"work", "task"}
           /\ ~(line.kind = "task" /\ line.id = 0)
  <2>1. PICK b : b = Begin(m, line)
    OBVIOUS
  <2>2. PICK p : p = Promised(line, b)
    OBVIOUS
  <2>3. PICK pl : pl = IF line.kind = "work" /\ line.text = {}
                       THEN "items" ELSE "body"
    OBVIOUS
  <2>4. n = [place |-> pl, time |-> b, white |-> m.white,
             entries |-> Append(m.entries, p), verdict |-> "OK"]
    <3>1. MeaningAfter(m, line) =
             [place |-> IF line.kind = "work" /\ line.text = {}
                        THEN "items" ELSE "body",
              time |-> Begin(m, line), white |-> m.white,
              entries |-> Append(m.entries, Promised(line, Begin(m, line))),
              verdict |-> "OK"]
      BY <1>1, <1>9, MeaningItem
    <3>. QED
      BY <1>2, <2>1, <2>2, <2>3, <3>1, Zenon
  <2>5. b \in Int
    <3>1. m.time \in Int
      BY <1>1 DEF Meanings
    <3>2. CASE line.kind = "task"
      BY <2>1, <3>1, <3>2 DEF Begin
    <3>3. CASE line.kind = "work"
      <4>1. line.hour \in 0..99 /\ line.min \in 0..99
        BY <3>3 DEF IsLine
      <4>2. PICK t \in Int : t = m.time
        BY <3>1
      <4>3. PICK day \in Int : day = t \div 1440
        OBVIOUS
      <4>4. PICK h, mi \in Int : h = line.hour /\ mi = line.min
        BY <4>1
      <4>5. b = day * 1440 + h * 60 + mi
        BY <2>1, <3>3, <4>2, <4>3, <4>4 DEF Begin
      <4>. QED
        BY <4>5
    <3>. QED
      BY <1>9, <3>2, <3>3
  <2>6. p \in Promise /\ p.desc = {}
    <3>1. p \in Promise
      BY <1>9, <2>2, <2>5, PromisedTyped
    <3>. QED
      BY <2>2, <3>1 DEF Promised
  <2>7. PICK es : es = Append(m.entries, p)
    OBVIOUS
  <2>8. /\ es \in Seq(Promise) /\ es # <<>> /\ Len(es) = k + 1
        /\ \A j \in 1..k : es[j] = m.entries[j]
        /\ es[k + 1] = p
    BY <1>1, <1>4, <2>6, <2>7, AppendProperties
  <2>9. /\ n \in Meanings /\ n.entries = es /\ n.place = pl
    BY <1>1, <2>3, <2>4, <2>5, <2>7, <2>8 DEF Meanings, Place
  <2>10. MeaningOK(n)
    <3>1. n.entries[Len(n.entries)].desc = {} /\ n.entries # <<>>
      BY <2>6, <2>8, <2>9
    <3>2. n.place \in {"items", "body"}
      BY <2>3, <2>9
    <3>. QED
      BY <2>9, <3>1, <3>2 DEF MeaningOK
  <2>11. Foresees(m.entries, es)
    BY <1>4, <2>8 DEF Foresees
  <2>. QED
    BY <1>2, <1>9, <2>9, <2>10, <2>11
<1>10. CASE /\ m.verdict = "OK" /\ PlaceAfter(m.place, line) # "misplaced"
            /\ line.kind = "desc"
  <2>1. /\ line.desc \in Seq(Plain) /\ line.desc # <<>> /\ line.trail \in Nat
        /\ BeginsInText(line.desc) /\ EndsInText(line.desc)
    BY <1>10 DEF IsLine
  <2>2. PICK w : w = Append(Blanks(line.trail), "\n")
    OBVIOUS
  <2>3. w \in Seq(Spaces)
    BY <2>1, <2>2, BlankLineEnd
  <2>4. m.place \in {"body", "desc"} /\ k > 0
    <3>1. m.place \in {"body", "desc"}
      BY <1>1, <1>10, MeaningDesc
    <3>2. m.entries # <<>>
      BY <3>1 DEF MeaningOK
    <3>. QED
      BY <1>1, <1>4, <3>1, <3>2, EmptySeq
  <2>5. PICK q : q = Continued(m.entries[k].desc, m, line)
    OBVIOUS
  <2>6. \E d : q = {d} /\ IsDesc(d)
    <3>1. CASE m.place = "body"
      <4>1. q = {line.desc}
        BY <1>4, <2>5, <3>1 DEF MeaningOK, Continued
      <4>2. IsDesc(line.desc)
        <5>1. line.desc \in Seq(NonNul)
          BY <2>1, SeqMonotonic, PlainText
        <5>. QED
          BY <2>1, <5>1, EmptySeq, LenProperties
             DEF IsDesc, BeginsInText, EndsInText
      <4>. QED
        BY <4>1, <4>2
    <3>2. CASE m.place = "desc"
      <4>1. PICK d : m.entries[k].desc = {d} /\ IsDesc(d)
        BY <1>4, <3>2 DEF MeaningOK
      <4>2. q = {d \o m.white \o line.desc}
        BY <2>5, <4>1 DEF Continued
      <4>3. m.white \in Seq(Spaces)
        BY <1>1 DEF Meanings, Spaces
      <4>4. IsDesc(d \o m.white \o line.desc)
        BY <2>1, <4>1, <4>3, DescGrows
      <4>. QED
        BY <4>2, <4>4
    <3>. QED
      BY <2>4, <3>1, <3>2
  <2>7. m.entries[k] \in Promise
    BY <1>1, <1>4, <2>4, ElementOfSeq
  <2>8. PICK p : p = [m.entries[k] EXCEPT !.desc = q]
    OBVIOUS
  <2>9. /\ p \in Promise /\ p.desc = q
        /\ p.type = m.entries[k].type /\ p.begin = m.entries[k].begin
        /\ p.id = m.entries[k].id /\ p.name = m.entries[k].name
        /\ p.settled = m.entries[k].settled /\ p.cat = m.entries[k].cat
    BY <2>6, <2>7, <2>8 DEF Promise, IsDesc
  <2>10. PICK es : es = [m.entries EXCEPT ![k] = p]
    OBVIOUS
  <2>11. /\ es \in Seq(Promise) /\ Len(es) = k
         /\ \A j \in 1..k : es[j] = IF j = k THEN p ELSE m.entries[j]
    <3>1. k \in 1..Len(m.entries)
      BY <1>4, <2>4
    <3>. QED
      BY <1>1, <1>4, <2>9, <2>10, <3>1, ExceptSeq
  <2>12. [m.entries EXCEPT ![k].desc = Continued(@, m, line)] = es
    BY <2>5, <2>8, <2>10
  <2>13. n = [place |-> "desc", time |-> m.time, white |-> w, entries |-> es,
              verdict |-> "OK"]
    <3>1. MeaningAfter(m, line) =
             [place |-> "desc", time |-> m.time,
              white |-> Append(Blanks(line.trail), "\n"),
              entries |-> [m.entries EXCEPT ![Len(m.entries)].desc =
                               Continued(@, m, line)],
              verdict |-> "OK"]
      BY <1>1, <1>10, MeaningDesc, Zenon
    <3>. QED
      BY <1>2, <1>4, <2>2, <2>12, <3>1, Zenon
  <2>14. /\ n \in Meanings /\ n.entries = es /\ n.place = "desc"
    BY <1>1, <2>3, <2>11, <2>13 DEF Meanings, Place, Spaces
  <2>15. MeaningOK(n)
    <3>1. es[k] = p /\ es # <<>>
      BY <2>4, <2>11, EmptySeq
    <3>2. n.entries[Len(n.entries)].desc = q /\ n.entries # <<>>
      BY <2>9, <2>11, <2>14, <3>1
    <3>. QED
      BY <2>6, <2>14, <3>2 DEF MeaningOK
  <2>16. Foresees(m.entries, es)
    BY <1>4, <2>9, <2>11 DEF Foresees
  <2>. QED
    BY <1>2, <1>10, <2>14, <2>15, <2>16
<1>11. CASE /\ m.verdict = "OK" /\ PlaceAfter(m.place, line) # "misplaced"
            /\ line.kind = "empty"
  <2>1. PICK w : w = Append(m.white, "\n")
    OBVIOUS
  <2>2. w \in Seq({" ", "\n"})
    BY <1>1, <2>1, AppendProperties DEF Meanings
  <2>3. PICK pl : pl = IF m.place = "body" THEN "items" ELSE m.place
    OBVIOUS
  <2>4. n = [place |-> pl, time |-> m.time, white |-> w,
             entries |-> m.entries, verdict |-> "OK"]
    BY <1>1, <1>2, <1>11, <2>1, <2>3, MeaningEmpty
  <2>5. n \in Meanings /\ n.entries = m.entries /\ n.place = pl
    BY <1>1, <2>2, <2>3, <2>4 DEF Meanings, Place
  <2>6. MeaningOK(n)
    BY <2>3, <2>5 DEF MeaningOK
  <2>. QED
    BY <1>1, <1>2, <1>11, <2>5, <2>6, ForeseesItself
<1>. QED
  BY <1>3, <1>5, <1>6, <1>7, <1>8, <1>9, <1>10, <1>11

----------------------------------------------------------------------------
(* A file, one line after the other: where it starts, and what the lines     *)
(* above it mean.  The last line is the one without a newline, of which     *)
(* there are cut characters.                                                *)

W(f, i) == Written(f.lines[i])
Width(f, i) == IF i < f.n THEN Len(W(f, i)) ELSE f.cut

LineIn(f, i, s, m) ==
    /\ IsLine(f.lines[i]) /\ MeaningOK(f.mean[i]) /\ f.start[i] \in Nat
    /\ Width(f, i) \in 0..Len(W(f, i))
    /\ f.start[i] + Width(f, i) <= Len(s)
    /\ \A k \in 1..Width(f, i) : s[f.start[i] + k] = W(f, i)[k]
    /\ Foresees(f.mean[i].entries, m.entries)
    /\ f.mean[i].verdict # "OK" => m.verdict = f.mean[i].verdict
    /\ i < f.n => /\ f.start[i + 1] = f.start[i] + Len(W(f, i)) + 1
                  /\ f.start[i + 1] <= Len(s)
                  /\ s[f.start[i + 1]] = "\n"
                  /\ f.mean[i + 1] = MeaningAfter(f.mean[i], f.lines[i])

IsFile(f, s, m) ==
    /\ f.n \in Nat \ {0} /\ f.cut \in 0..Len(W(f, f.n))
    /\ f.start[1] = 0 /\ f.mean[1] = Nothing
    /\ Len(s) = f.start[f.n] + f.cut
    /\ m.entries = f.mean[f.n].entries
    /\ m.verdict = IF /\ f.mean[f.n].verdict = "OK"
                      /\ ~MayEndIn(f.mean[f.n].place, f.lines[f.n], f.cut)
                   THEN "ERR_SYNTAX" ELSE f.mean[f.n].verdict
    /\ \A i \in 1..f.n : LineIn(f, i, s, m)

----------------------------------------------------------------------------
(* There is such a file for every document. *)

MeansUpto(g, lines, i) ==
    IF i = 0 THEN Nothing ELSE MeaningAfter(g[i - 1], lines[i])

LEMMA MeaningsFound ==
    ASSUME NEW lines, NEW n \in Nat, n = Len(lines)
    PROVE  \E g : /\ g = [i \in 0..n |-> MeansUpto(g, lines, i)]
                  /\ Meaning(lines) = g[n]
<1>. DEFINE Has(k) == \E g : g = [i \in 0..k |-> MeansUpto(g, lines, i)]
            S == {k \in Nat : Has(k)}
<1>1. Has(0)
  <2>. DEFINE g == [i \in 0..0 |-> Nothing]
  <2>1. g = [i \in 0..0 |-> MeansUpto(g, lines, i)]
    BY DEF MeansUpto
  <2>. QED
    BY <2>1
<1>2. ASSUME NEW k \in Nat, Has(k)
      PROVE  Has(k + 1)
  <2>1. PICK h : h = [i \in 0..k |-> MeansUpto(h, lines, i)]
    BY <1>2
  <2>2. PICK last : last = MeaningAfter(h[k], lines[k + 1])
    OBVIOUS
  <2>. DEFINE g == [i \in 0..(k + 1) |-> IF i = k + 1 THEN last ELSE h[i]]
  <2>3. ASSUME NEW i \in 0..(k + 1)
        PROVE  g[i] = MeansUpto(g, lines, i)
    <3>1. CASE i = k + 1
      <4>1. i # 0 /\ i - 1 = k /\ k \in 0..(k + 1) /\ k # k + 1
        BY <3>1
      <4>2. g[i - 1] = h[k]
        BY <4>1
      <4>. QED
        BY <2>2, <3>1, <4>1, <4>2 DEF MeansUpto
    <3>2. CASE i = 0
      <4>1. h[0] = MeansUpto(h, lines, 0) /\ i # k + 1
        BY <2>1, <3>2
      <4>. QED
        BY <3>2, <4>1 DEF MeansUpto
    <3>3. CASE i \in 1..k
      <4>1. /\ i \in 0..k /\ i # 0 /\ i # k + 1
            /\ i - 1 \in 0..(k + 1) /\ i - 1 # k + 1
        BY <3>3
      <4>2. h[i] = MeansUpto(h, lines, i)
        BY <2>1, <4>1
      <4>. QED
        BY <4>1, <4>2 DEF MeansUpto
    <3>. QED
      BY <3>1, <3>2, <3>3
  <2>. HIDE DEF g
  <2>4. g = [i \in 0..(k + 1) |-> g[i]]
    BY DEF g
  <2>5. g = [i \in 0..(k + 1) |-> MeansUpto(g, lines, i)]
    BY <2>3, <2>4
  <2>. QED
    BY <2>5
<1>3. Has(n)
  <2>. HIDE DEF Has
  <2>1. 0 \in S /\ \A k \in S : k + 1 \in S
    BY <1>1, <1>2
  <2>2. S \in SUBSET Nat
    OBVIOUS
  <2>3. S = Nat
    <3>. HIDE DEF S
    <3>. QED
      BY <2>1, <2>2, Induction
  <2>. QED
    BY <2>3
<1>. DEFINE m == CHOOSE g : g = [i \in 0..Len(lines) |->
                                    MeansUpto(g, lines, i)]
<1>4. m = [i \in 0..Len(lines) |-> MeansUpto(m, lines, i)]
  BY <1>3
<1>5. Meaning(lines) = m[Len(lines)]
  BY DEF Meaning, MeansUpto
<1>. HIDE DEF m
<1>. QED
  BY <1>4, <1>5

\* What i of n lines mean.
MeanFor(g, i, n) == /\ MeaningOK(g[i])
                    /\ Foresees(g[i].entries, g[n].entries)
                    /\ g[i].verdict # "OK" => g[n].verdict = g[i].verdict

LEMMA NothingTyped == MeaningOK(Nothing)
BY EmptySeq DEF Nothing, MeaningOK, Meanings, Place

LEMMA MeaningsTyped ==
    ASSUME NEW n \in Nat, NEW lines, \A i \in 1..n : IsLine(lines[i]),
           NEW g, g = [i \in 0..n |-> MeansUpto(g, lines, i)]
    PROVE  /\ g[0] = Nothing
           /\ \A i \in 1..n : g[i] = MeaningAfter(g[i - 1], lines[i])
           /\ \A i \in 0..n : MeanFor(g, i, n)
<1>1. g[0] = Nothing
  BY DEF MeansUpto
<1>2. ASSUME NEW i \in 1..n
      PROVE  g[i] = MeaningAfter(g[i - 1], lines[i])
  <2>1. i \in 0..n /\ i # 0
    OBVIOUS
  <2>2. g[i] = MeansUpto(g, lines, i)
    BY <2>1
  <2>. QED
    BY <2>1, <2>2 DEF MeansUpto
<1>. DEFINE Typed(j) == \A i \in 0..j : MeanFor(g, i, j)
            S == {j \in Nat : j <= n => Typed(j)}
<1>3. Typed(0)
  <2>1. MeaningOK(g[0])
    BY <1>1, NothingTyped
  <2>2. MeanFor(g, 0, 0)
    BY <2>1, ForeseesItself DEF MeanFor, MeaningOK, Meanings
  <2>3. \A i \in 0..0 : i = 0
    OBVIOUS
  <2>. QED
    BY <2>1, <2>2, <2>3
<1>4. ASSUME NEW j \in Nat, j + 1 <= n, Typed(j)
      PROVE  Typed(j + 1)
  <2>1. j + 1 \in 1..n /\ (j + 1) - 1 = j
    BY <1>4
  <2>2. PICK k \in 1..n : k = j + 1 /\ k - 1 = j
    BY <2>1
  <2>3. g[k] = MeaningAfter(g[j], lines[k]) /\ IsLine(lines[k])
    BY <1>2, <2>2
  <2>20. MeaningOK(g[j])
    <3>1. j \in 0..j
      OBVIOUS
    <3>. QED
      BY <1>4, <3>1 DEF MeanFor
  <2>4. /\ MeaningOK(g[k])
        /\ Foresees(g[j].entries, g[k].entries)
        /\ g[j].verdict # "OK" => g[k] = g[j]
    BY <2>3, <2>20, MeaningTyped
  <2>5. ASSUME NEW i \in 0..k
        PROVE  MeanFor(g, i, k)
    <3>1. CASE i = k
      BY <2>4, <3>1, ForeseesItself DEF MeanFor, MeaningOK, Meanings
    <3>2. CASE i # k
      <4>1. i \in 0..j /\ i <= n /\ i \in Nat
        BY <2>2, <3>2
      <4>2. MeanFor(g, i, j)
        BY <1>4, <4>1
      <4>3. /\ g[j].entries \in Seq(Promise) /\ g[k].entries \in Seq(Promise)
        BY <2>4, <2>20 DEF MeaningOK, Meanings
      <4>4. g[i].entries \in Seq(Promise)
        BY <4>2 DEF MeanFor, MeaningOK, Meanings
      <4>5. Foresees(g[i].entries, g[k].entries)
        BY <2>4, <4>2, <4>3, <4>4, ForeseesOn DEF MeanFor
      <4>. QED
        BY <2>4, <4>2, <4>5 DEF MeanFor
    <3>. QED
      BY <3>1, <3>2
  <2>. QED
    BY <2>2, <2>4, <2>5
<1>5. S = Nat
  <2>. HIDE DEF Typed
  <2>1. 0 \in S
    BY <1>3
  <2>2. ASSUME NEW j \in S
        PROVE  j + 1 \in S
    BY <1>4
  <2>3. S \in SUBSET Nat
    OBVIOUS
  <2>. HIDE DEF S
  <2>. QED
    BY <2>1, <2>2, <2>3, Induction
<1>6. ASSUME NEW i \in 0..n
      PROVE  MeanFor(g, i, n)
  <2>1. Typed(n)
    <3>. HIDE DEF Typed
    <3>. QED
      BY <1>5
  <2>. QED
    BY <2>1
<1>. QED
  BY <1>1, <1>2, <1>6

Ended(line) == Append(Written(line), "\n")

PilesUpto(g, lines, i) ==
    IF i = 0 THEN <<>> ELSE g[i - 1] \o Ended(lines[i])

LEMMA PilesFound ==
    ASSUME NEW doc, NEW n \in Nat, n = Len(doc.lines)
    PROVE  \E g : /\ g = [i \in 0..n |-> PilesUpto(g, doc.lines, i)]
                  /\ Characters(doc) = SubSeq(g[n], 1,
                                              Len(g[n - 1]) + doc.cut)
<1>. DEFINE Has(k) == \E g : g = [i \in 0..k |-> PilesUpto(g, doc.lines, i)]
            S == {k \in Nat : Has(k)}
<1>1. Has(0)
  <2>. DEFINE g == [i \in 0..0 |-> <<>>]
  <2>1. g = [i \in 0..0 |-> PilesUpto(g, doc.lines, i)]
    BY DEF PilesUpto
  <2>. QED
    BY <2>1
<1>2. ASSUME NEW k \in Nat, Has(k)
      PROVE  Has(k + 1)
  <2>1. PICK h : h = [i \in 0..k |-> PilesUpto(h, doc.lines, i)]
    BY <1>2
  <2>2. PICK last : last = h[k] \o Ended(doc.lines[k + 1])
    OBVIOUS
  <2>. DEFINE g == [i \in 0..(k + 1) |-> IF i = k + 1 THEN last ELSE h[i]]
  <2>3. ASSUME NEW i \in 0..(k + 1)
        PROVE  g[i] = PilesUpto(g, doc.lines, i)
    <3>1. CASE i = k + 1
      <4>1. i # 0 /\ i - 1 = k /\ k \in 0..(k + 1) /\ k # k + 1
        BY <3>1
      <4>2. g[i - 1] = h[k]
        BY <4>1
      <4>. QED
        BY <2>2, <3>1, <4>1, <4>2 DEF PilesUpto
    <3>2. CASE i = 0
      <4>1. h[0] = PilesUpto(h, doc.lines, 0) /\ i # k + 1
        BY <2>1, <3>2
      <4>. QED
        BY <3>2, <4>1 DEF PilesUpto
    <3>3. CASE i \in 1..k
      <4>1. /\ i \in 0..k /\ i # 0 /\ i # k + 1
            /\ i - 1 \in 0..(k + 1) /\ i - 1 # k + 1
        BY <3>3
      <4>2. h[i] = PilesUpto(h, doc.lines, i)
        BY <2>1, <4>1
      <4>. QED
        BY <4>1, <4>2 DEF PilesUpto
    <3>. QED
      BY <3>1, <3>2, <3>3
  <2>. HIDE DEF g
  <2>4. g = [i \in 0..(k + 1) |-> g[i]]
    BY DEF g
  <2>5. g = [i \in 0..(k + 1) |-> PilesUpto(g, doc.lines, i)]
    BY <2>3, <2>4
  <2>. QED
    BY <2>5
<1>3. Has(n)
  <2>. HIDE DEF Has
  <2>1. 0 \in S /\ \A k \in S : k + 1 \in S
    BY <1>1, <1>2
  <2>2. S \in SUBSET Nat
    OBVIOUS
  <2>3. S = Nat
    <3>. HIDE DEF S
    <3>. QED
      BY <2>1, <2>2, Induction
  <2>. QED
    BY <2>3
<1>. DEFINE a == CHOOSE g : g = [i \in 0..Len(doc.lines) |->
                                    PilesUpto(g, doc.lines, i)]
<1>4. a = [i \in 0..Len(doc.lines) |-> PilesUpto(a, doc.lines, i)]
  BY <1>3
<1>5. Characters(doc) = SubSeq(a[Len(doc.lines)], 1,
                               Len(a[Len(doc.lines) - 1]) + doc.cut)
  BY DEF Characters, PilesUpto, Ended
<1>. HIDE DEF a
<1>. QED
  BY <1>4, <1>5

\* Line i of the lines that are piled up as far as n.
Piled(g, lines, i, n) ==
    /\ Len(g[i]) = Len(g[i - 1]) + Len(Written(lines[i])) + 1
    /\ Len(g[i]) <= Len(g[n])
    /\ \A k \in 1..Len(Written(lines[i])) :
          g[n][Len(g[i - 1]) + k] = Written(lines[i])[k]
    /\ g[n][Len(g[i])] = "\n"

PiledOn(a, line, b) ==
    /\ b \in Seq(Character)
    /\ Len(b) = Len(a) + Len(Written(line)) + 1
    /\ \A j \in 1..Len(a) : b[j] = a[j]
    /\ \A k \in 1..Len(Written(line)) :
          b[Len(a) + k] = Written(line)[k]
    /\ b[Len(b)] = "\n"

LEMMA PileGrows ==
    ASSUME NEW a \in Seq(Character), NEW line, IsLine(line)
    PROVE  PiledOn(a, line, a \o Ended(line))
<1>0. PICK b : b = a \o Ended(line)
  OBVIOUS
<1>1. PICK w : w = Written(line)
  OBVIOUS
<1>2. w \in Seq(Plain) /\ Len(w) \in Nat
  BY <1>1, LineTyped
<1>3. w \in Seq(Character) /\ "\n" \in Character
  BY <1>2, SeqMonotonic, WrittenAssumption DEF Plain
<1>4. PICK l, n \in Nat : l = Len(w) /\ n = Len(a)
  BY <1>2, LenProperties
<1>5. PICK e : e = Append(w, "\n")
  OBVIOUS
<1>6. /\ e \in Seq(Character) /\ Len(e) = l + 1
      /\ \A k \in 1..l : e[k] = w[k]
      /\ e[l + 1] = "\n"
  BY <1>3, <1>4, <1>5, AppendProperties
<1>7. b = a \o e
  BY <1>0, <1>1, <1>5 DEF Ended
<1>8. /\ b \in Seq(Character) /\ Len(b) = n + (l + 1)
      /\ \A i \in 1..(n + (l + 1)) : b[i] = IF i <= n THEN a[i] ELSE e[i - n]
  <2>1. PICK le \in Nat : le = l + 1
    OBVIOUS
  <2>2. /\ b \in Seq(Character) /\ Len(b) = n + le
        /\ \A i \in 1..(n + le) : b[i] = IF i <= n THEN a[i] ELSE e[i - n]
    <3>1. Len(e) = le /\ Len(a) = n /\ e \in Seq(Character)
      BY <1>4, <1>6, <2>1
    <3>. QED
      BY <1>7, <3>1, ConcatProperties
  <2>. QED
    BY <2>1, <2>2
<1>9. \A j \in 1..n : j \in 1..(n + (l + 1)) /\ j <= n
  OBVIOUS
<1>10. \A k \in 1..(l + 1) : /\ n + k \in 1..(n + (l + 1)) /\ ~(n + k <= n)
                             /\ (n + k) - n = k
  OBVIOUS
<1>11. ASSUME NEW k \in 1..(l + 1)
       PROVE  b[n + k] = e[k]
  BY <1>8, <1>10
<1>12. l + 1 \in 1..(l + 1) /\ \A k \in 1..l : k \in 1..(l + 1)
  OBVIOUS
<1>13. b[n + (l + 1)] = "\n" /\ \A k \in 1..l : b[n + k] = w[k]
  BY <1>6, <1>11, <1>12
<1>14. \A j \in 1..n : b[j] = a[j]
  BY <1>8, <1>9
<1>15. n + (l + 1) = n + l + 1
  OBVIOUS
<1>. QED
  BY <1>0, <1>1, <1>4, <1>8, <1>13, <1>14, <1>15 DEF PiledOn

AllPiled(g, lines, n) ==
    /\ Len(g[0]) = 0
    /\ \A i \in 0..n : g[i] \in Seq(Character) /\ Len(g[i]) \in Nat
    /\ \A j \in 0..n : \A i \in 1..j : Piled(g, lines, i, j)
    /\ \A i \in 1..n : g[i] = g[i - 1] \o Ended(lines[i])

LEMMA PilesTyped ==
    ASSUME NEW n \in Nat, NEW lines, \A i \in 1..n : IsLine(lines[i]),
           NEW g, g = [i \in 0..n |-> PilesUpto(g, lines, i)]
    PROVE  AllPiled(g, lines, n)
<1>1. g[0] = <<>> /\ Len(g[0]) = 0
  BY EmptySeq DEF PilesUpto
<1>2. ASSUME NEW i \in 1..n
      PROVE  g[i] = g[i - 1] \o Ended(lines[i])
  <2>1. i \in 0..n /\ i # 0
    OBVIOUS
  <2>2. g[i] = PilesUpto(g, lines, i)
    BY <2>1
  <2>. QED
    BY <2>1, <2>2 DEF PilesUpto
<1>. DEFINE Typed(j) == /\ \A i \in 0..j : g[i] \in Seq(Character)
                        /\ \A i \in 1..j : Piled(g, lines, i, j)
            S == {j \in Nat : j <= n => Typed(j)}
<1>3. Typed(0)
  BY <1>1, EmptySeq
<1>4. ASSUME NEW j \in Nat, j + 1 <= n, Typed(j)
      PROVE  Typed(j + 1)
  <2>1. j + 1 \in 1..n /\ (j + 1) - 1 = j
    BY <1>4
  <2>2. PICK k \in 1..n : k = j + 1 /\ k - 1 = j
    BY <2>1
  <2>3. /\ g[k] = g[j] \o Ended(lines[k]) /\ IsLine(lines[k])
        /\ g[j] \in Seq(Character)
    BY <1>2, <1>4, <2>2
  <2>4. /\ g[k] \in Seq(Character)
        /\ Len(g[k]) = Len(g[j]) + Len(Written(lines[k])) + 1
        /\ \A q \in 1..Len(g[j]) : g[k][q] = g[j][q]
        /\ \A q \in 1..Len(Written(lines[k])) :
              g[k][Len(g[j]) + q] = Written(lines[k])[q]
        /\ g[k][Len(g[k])] = "\n"
    <3>1. PiledOn(g[j], lines[k], g[k])
      BY <2>3, PileGrows
    <3>. QED
      BY <3>1 DEF PiledOn
  <2>5. PICK lk, lj, lw \in Nat : /\ lk = Len(g[k]) /\ lj = Len(g[j])
                                  /\ lw = Len(Written(lines[k]))
    BY <2>3, <2>4, LenProperties, LineTyped
  <2>6. lk = lj + lw + 1
    BY <2>4, <2>5
  <2>7. ASSUME NEW i \in 1..k
        PROVE  Piled(g, lines, i, k)
    <3>1. CASE i = k
      <4>1. i - 1 = j /\ g[i - 1] = g[j] /\ g[i] = g[k] /\ lines[i] = lines[k]
        BY <2>2, <3>1
      <4>2. Len(g[k]) <= Len(g[k])
        BY <2>5
      <4>. QED
        BY <2>4, <4>1, <4>2 DEF Piled
    <3>2. CASE i # k
      <4>1. i \in 1..j /\ i \in 0..j /\ i - 1 \in 0..j /\ i \in 1..n
        BY <2>2, <3>2
      <4>2. Piled(g, lines, i, j)
        BY <1>4, <4>1
      <4>3. PICK li, lp, l \in Nat : /\ li = Len(g[i]) /\ lp = Len(g[i - 1])
                                     /\ l = Len(Written(lines[i]))
        BY <1>4, <4>1, LenProperties, LineTyped
      <4>4. li = lp + l + 1 /\ li <= lj
        BY <2>5, <4>2, <4>3 DEF Piled
      <4>5. li <= lk /\ li \in 1..lj /\ \A q \in 1..l : lp + q \in 1..lj
        BY <2>6, <4>4
      <4>6. ASSUME NEW q \in 1..l
            PROVE  g[k][lp + q] = Written(lines[i])[q]
        BY <2>4, <2>5, <4>2, <4>3, <4>5 DEF Piled
      <4>7. g[k][li] = "\n"
        BY <2>4, <2>5, <4>2, <4>3, <4>5 DEF Piled
      <4>. QED
        BY <2>5, <4>3, <4>4, <4>5, <4>6, <4>7 DEF Piled
    <3>. QED
      BY <3>1, <3>2
  <2>8. \A i \in 0..k : i \in 0..j \/ i = k
    BY <2>2
  <2>9. \A i \in 0..k : g[i] \in Seq(Character)
    BY <1>4, <2>4, <2>8
  <2>. QED
    BY <2>2, <2>7, <2>9
<1>5. S = Nat
  <2>. HIDE DEF Typed
  <2>1. 0 \in S
    BY <1>3
  <2>2. ASSUME NEW j \in S
        PROVE  j + 1 \in S
    BY <1>4
  <2>3. S \in SUBSET Nat
    OBVIOUS
  <2>. HIDE DEF S
  <2>. QED
    BY <2>1, <2>2, <2>3, Induction
<1>6. ASSUME NEW j \in 0..n
      PROVE  Typed(j)
  <2>. HIDE DEF Typed
  <2>. QED
    BY <1>5
<1>. QED
  BY <1>1, <1>2, <1>6, LenProperties DEF AllPiled

\* A file made of n complete lines and the last one.
MadeOf(n, lines, cut, g, p) ==
    [n |-> n + 1, lines |-> [i \in 1..(n + 1) |-> lines[i]], cut |-> cut,
     start |-> [i \in 1..(n + 1) |-> Len(p[i - 1])],
     mean |-> [i \in 1..(n + 1) |-> g[i - 1]]]

Describe(n, lines, g, p) ==
    /\ \A i \in 1..(n + 1) : IsLine(lines[i])
    /\ g[0] = Nothing
    /\ \A i \in 1..n : g[i] = MeaningAfter(g[i - 1], lines[i])
    /\ \A i \in 0..n : MeanFor(g, i, n)
    /\ Len(p[0]) = 0
    /\ \A i \in 0..n : Len(p[i]) \in Nat
    /\ \A i \in 1..n : Piled(p, lines, i, n)

Contains(n, lines, cut, p, s) ==
    /\ Len(s) = Len(p[n]) + cut
    /\ \A j \in 1..Len(p[n]) : s[j] = p[n][j]
    /\ \A k \in 1..cut : s[Len(p[n]) + k] = Written(lines[n + 1])[k]

Says(n, lines, cut, g, m) ==
    /\ m.entries = g[n].entries
    /\ m.verdict = IF /\ g[n].verdict = "OK"
                      /\ ~MayEndIn(g[n].place, lines[n + 1], cut)
                   THEN "ERR_SYNTAX" ELSE g[n].verdict

LEMMA FileMade ==
    ASSUME NEW n \in Nat, NEW lines, NEW g, NEW p, Describe(n, lines, g, p),
           NEW cut \in Nat, cut <= Len(Written(lines[n + 1])),
           NEW s, Contains(n, lines, cut, p, s),
           NEW m, Says(n, lines, cut, g, m)
    PROVE  IsFile(MadeOf(n, lines, cut, g, p), s, m)
<1>1. PICK f : f = MadeOf(n, lines, cut, g, p)
  OBVIOUS
<1>2. PICK l \in Nat : l = n + 1
  OBVIOUS
<1>3. /\ f.n = l /\ f.cut = cut
      /\ \A i \in 1..l : /\ f.lines[i] = lines[i]
                         /\ f.start[i] = Len(p[i - 1])
                         /\ f.mean[i] = g[i - 1]
  BY <1>1, <1>2 DEF MadeOf
<1>4. /\ l \in 1..l /\ 1 \in 1..l /\ l - 1 = n /\ 1 - 1 = 0
      /\ l \in Nat \ {0} /\ n \in 0..n
  BY <1>2
<1>5. PICK ln \in Nat : ln = Len(p[n])
  BY <1>4 DEF Describe
<1>6. Len(s) = ln + cut /\ Len(s) \in Nat
  BY <1>5 DEF Contains
<1>7. Len(Written(lines[l])) \in Nat
  BY <1>2, <1>4, LineTyped DEF Describe
<1>8. ASSUME NEW i \in 1..l
      PROVE  LineIn(f, i, s, m)
  <2>1. i - 1 \in 0..n /\ IsLine(lines[i])
    BY <1>2 DEF Describe
  <2>2. /\ MeaningOK(f.mean[i]) /\ f.start[i] \in Nat /\ IsLine(f.lines[i])
        /\ f.lines[i] = lines[i]
    BY <1>3, <2>1 DEF Describe, MeanFor
  <2>3. /\ Foresees(f.mean[i].entries, m.entries)
        /\ f.mean[i].verdict # "OK" => m.verdict = f.mean[i].verdict
    <3>1. f.mean[i] = g[i - 1] /\ MeanFor(g, i - 1, n)
      BY <1>3, <2>1 DEF Describe
    <3>. QED
      BY <3>1 DEF Says, MeanFor
  <2>4. PICK w : w = Written(lines[i])
    OBVIOUS
  <2>5. PICK lw \in Nat : lw = Len(w)
    BY <2>1, <2>4, LineTyped
  <2>6. W(f, i) = w
    BY <2>2, <2>4 DEF W
  <2>7. CASE i = l
    <3>1. Width(f, i) = cut /\ f.start[i] = ln /\ ~(i < f.n)
      BY <1>3, <1>4, <1>5, <2>7 DEF Width
    <3>2. cut \in 0..lw
      BY <1>2, <2>4, <2>5, <2>7
    <3>3. \A k \in 1..cut : s[ln + k] = w[k]
      BY <1>2, <1>5, <2>4, <2>7 DEF Contains
    <3>4. ln + cut <= Len(s)
      BY <1>6
    <3>. QED
      BY <2>2, <2>3, <2>5, <2>6, <3>1, <3>2, <3>3, <3>4 DEF LineIn
  <2>8. CASE i # l
    <3>1. i \in 1..n /\ i < f.n /\ i \in 0..n /\ i + 1 \in 1..l /\ (i + 1) - 1 = i
      BY <1>2, <1>3, <2>8
    <3>2. Piled(p, lines, i, n)
      BY <3>1 DEF Describe
    <3>3. PICK a, b \in Nat : a = Len(p[i - 1]) /\ b = Len(p[i])
      BY <2>1, <3>1 DEF Describe
    <3>4. b = a + lw + 1 /\ b <= ln
      BY <1>5, <2>4, <2>5, <3>2, <3>3 DEF Piled
    <3>5. Width(f, i) = lw /\ f.start[i] = a /\ f.start[i + 1] = b
      BY <1>3, <2>5, <2>6, <3>1, <3>3 DEF Width
    <3>6. ASSUME NEW k \in 1..lw
          PROVE  s[a + k] = w[k]
      <4>1. a + k \in 1..ln
        BY <3>4
      <4>2. p[n][a + k] = w[k]
        BY <2>4, <2>5, <3>2, <3>3 DEF Piled
      <4>. QED
        BY <1>5, <4>1, <4>2 DEF Contains
    <3>7. s[b] = "\n"
      <4>1. b \in 1..ln
        BY <3>4
      <4>2. p[n][b] = "\n"
        BY <3>2, <3>3 DEF Piled
      <4>. QED
        BY <1>5, <4>1, <4>2 DEF Contains
    <3>8. f.mean[i + 1] = MeaningAfter(f.mean[i], f.lines[i])
      <4>1. f.mean[i + 1] = g[i] /\ f.mean[i] = g[i - 1]
        BY <1>3, <3>1
      <4>. QED
        BY <2>2, <3>1, <4>1 DEF Describe
    <3>9. /\ lw \in 0..lw /\ a + lw <= Len(s) /\ b <= Len(s)
      BY <1>6, <3>4
    <3>. QED
      BY <2>2, <2>3, <2>5, <2>6, <3>1, <3>4, <3>5, <3>6, <3>7, <3>8, <3>9
         DEF LineIn
  <2>. QED
    BY <2>7, <2>8
<1>9. f.start[1] = 0 /\ f.mean[1] = Nothing
  BY <1>3, <1>4 DEF Describe
<1>10. f.start[f.n] = ln /\ f.mean[f.n] = g[n] /\ f.lines[f.n] = lines[l]
  BY <1>3, <1>4, <1>5
<1>11. W(f, f.n) = Written(lines[l]) /\ f.cut \in 0..Len(W(f, f.n))
  BY <1>2, <1>3, <1>7, <1>10 DEF W
<1>12. /\ m.entries = f.mean[f.n].entries
       /\ m.verdict = IF /\ f.mean[f.n].verdict = "OK"
                         /\ ~MayEndIn(f.mean[f.n].place, f.lines[f.n], f.cut)
                      THEN "ERR_SYNTAX" ELSE f.mean[f.n].verdict
  BY <1>2, <1>3, <1>10 DEF Says
<1>13. IsFile(f, s, m)
  BY <1>3, <1>4, <1>6, <1>8, <1>9, <1>10, <1>11, <1>12 DEF IsFile
<1>. QED
  BY <1>1, <1>13

\* Every document is such a file.
LEMMA FileFound == DocumentInit => \E f : IsFile(f, source, meaning)
<1>. SUFFICES ASSUME DocumentInit
              PROVE  \E f : IsFile(f, source, meaning)
  OBVIOUS
<1>1. PICK doc \in Documents : /\ source = Characters(doc)
                               /\ meaning = MeaningOf(doc)
  BY DEF DocumentInit
<1>2. PICK ls : ls = doc.lines
  OBVIOUS
<1>3. /\ ls \in Seq({ls[i] : i \in DOMAIN ls}) /\ ls # <<>>
      /\ \A i \in DOMAIN ls : IsLine(ls[i])
      /\ doc.cut \in 0..(Len(Written(LastLine(doc))) + 1)
  BY <1>1, <1>2, DocumentAssumption
<1>4. PICK n \in Nat : n = Len(ls)
  BY <1>3, LenProperties
<1>5. n # 0 /\ DOMAIN ls = 1..n
  BY <1>3, <1>4, LenProperties, EmptySeq
<1>6. \A i \in 1..n : IsLine(ls[i])
  BY <1>3, <1>5
<1>7. PICK last : last = ls[n]
  OBVIOUS
<1>8. LastLine(doc) = last /\ n \in 1..n /\ IsLine(last)
  BY <1>2, <1>4, <1>5, <1>6, <1>7 DEF LastLine
<1>9. PICK lw \in Nat : lw = Len(Written(last))
  BY <1>8, LineTyped
<1>10. PICK cut \in 0..(lw + 1) : cut = doc.cut
  BY <1>3, <1>8, <1>9
<1>11. PICK p : /\ p = [i \in 0..n |-> PilesUpto(p, ls, i)]
                /\ source = SubSeq(p[n], 1, Len(p[n - 1]) + cut)
  BY <1>1, <1>2, <1>4, <1>10, PilesFound
<1>12. /\ Len(p[0]) = 0
       /\ \A i \in 0..n : p[i] \in Seq(Character) /\ Len(p[i]) \in Nat
       /\ \A j \in 0..n : \A i \in 1..j : Piled(p, ls, i, j)
       /\ \A i \in 1..n : p[i] = p[i - 1] \o Ended(ls[i])
  <2>1. AllPiled(p, ls, n)
    BY <1>6, <1>11, PilesTyped
  <2>. QED
    BY <2>1 DEF AllPiled
<1>13. PICK k \in Nat : k = n - 1
  BY <1>5
<1>14. n = k + 1 /\ k \in 0..n /\ n \in 0..n
  BY <1>13
<1>15. PICK a, b \in Nat : a = Len(p[k]) /\ b = Len(p[n])
  BY <1>12, <1>14
<1>16. PiledOn(p[k], last, p[n]) /\ p[n] \in Seq(Character)
  <2>1. p[n] = p[k] \o Ended(last) /\ p[k] \in Seq(Character)
    BY <1>7, <1>8, <1>12, <1>13, <1>14
  <2>. QED
    BY <1>8, <1>12, <1>14, <2>1, PileGrows
<1>17. b = a + lw + 1
  BY <1>9, <1>15, <1>16 DEF PiledOn
<1>18. /\ Len(source) = a + cut
       /\ \A j \in 1..(a + cut) : source[j] = p[n][j]
  <2>1. PICK l \in Nat : l = a + cut
    OBVIOUS
  <2>2. source = SubSeq(p[n], 1, l)
    BY <1>11, <1>13, <1>15, <2>1
  <2>3. l <= b /\ 1 \in Int /\ l \in Int
    BY <1>17, <2>1
  <2>4. \A i \in 1..l : p[n][i] \in Character
    <3>1. \A i \in 1..l : i \in 1..b
      BY <2>3
    <3>. QED
      BY <1>15, <1>16, <3>1, ElementOfSeq
  <2>5. /\ Len(source) = IF 1 <= l THEN l - 1 + 1 ELSE 0
        /\ \A i \in 1..(l - 1 + 1) : source[i] = p[n][1 + i - 1]
    BY <2>2, <2>3, <2>4, SubSeqProperties
  <2>6. /\ (IF 1 <= l THEN l - 1 + 1 ELSE 0) = l
        /\ \A i \in 1..l : i \in 1..(l - 1 + 1) /\ 1 + i - 1 = i
    OBVIOUS
  <2>7. Len(source) = l /\ \A j \in 1..l : source[j] = p[n][j]
    BY <2>5, <2>6
  <2>. QED
    BY <2>1, <2>7
<1>19. CASE cut <= lw
  <2>1. PICK lines : lines = SubSeq(ls, 1, k)
    OBVIOUS
  <2>2. Len(lines) = k /\ \A i \in 1..k : lines[i] = ls[i]
    <3>1. 1 \in Int /\ k \in Int /\ \A i \in 1..k : i \in 1..n
      BY <1>14
    <3>. DEFINE S == {ls[i] : i \in DOMAIN ls}
    <3>2. \A i \in 1..k : ls[i] \in S
      BY <1>5, <3>1
    <3>. HIDE DEF S
    <3>3. /\ Len(lines) = IF 1 <= k THEN k - 1 + 1 ELSE 0
          /\ \A i \in 1..(k - 1 + 1) : lines[i] = ls[1 + i - 1]
      BY <2>1, <3>1, <3>2, SubSeqProperties
    <3>4. /\ (IF 1 <= k THEN k - 1 + 1 ELSE 0) = k
          /\ \A i \in 1..k : i \in 1..(k - 1 + 1) /\ 1 + i - 1 = i
      OBVIOUS
    <3>. QED
      BY <3>3, <3>4
  <2>3. PICK g : /\ g = [i \in 0..k |-> MeansUpto(g, lines, i)]
                 /\ Meaning(lines) = g[k]
    BY <2>2, MeaningsFound
  <2>4. \A i \in 1..k : i \in 1..n /\ IsLine(lines[i])
    BY <1>6, <1>14, <2>2
  <2>5. /\ g[0] = Nothing
        /\ \A i \in 1..k : g[i] = MeaningAfter(g[i - 1], lines[i])
        /\ \A i \in 0..k : MeanFor(g, i, k)
    BY <2>3, <2>4, MeaningsTyped
  <2>6. Describe(k, ls, g, p)
    <3>1. \A i \in 1..(k + 1) : IsLine(ls[i])
      BY <1>6, <1>14
    <3>2. \A i \in 0..k : i \in 0..n
      BY <1>14
    <3>3. \A i \in 1..k : Piled(p, ls, i, k)
      BY <1>12, <1>14
    <3>. QED
      BY <1>12, <2>2, <2>5, <3>1, <3>2, <3>3 DEF Describe
  <2>7. Contains(k, ls, cut, p, source)
    <3>1. ASSUME NEW j \in 1..a
          PROVE  source[j] = p[k][j]
      <4>1. j \in 1..(a + cut)
        OBVIOUS
      <4>. QED
        BY <1>15, <1>16, <1>18, <4>1 DEF PiledOn
    <3>2. ASSUME NEW j \in 1..cut
          PROVE  source[a + j] = Written(last)[j]
      <4>1. a + j \in 1..(a + cut) /\ j \in 1..lw
        BY <1>19
      <4>. QED
        BY <1>9, <1>15, <1>16, <1>18, <4>1 DEF PiledOn
    <3>. QED
      BY <1>7, <1>14, <1>15, <1>18, <3>1, <3>2 DEF Contains
  <2>8. Says(k, ls, cut, g, meaning)
    <3>1. Cut(doc)
      BY <1>8, <1>9, <1>10, <1>19 DEF Cut
    <3>2. Meaning(SubSeq(doc.lines, 1, Len(doc.lines) - 1)) = g[k]
      BY <1>2, <1>4, <1>13, <2>1, <2>3
    <3>3. g[k] \in Meanings
      BY <1>14, <2>5 DEF MeanFor, MeaningOK
    <3>4. meaning = IF /\ g[k].verdict = "OK"
                       /\ ~MayEndIn(g[k].place, last, cut)
                    THEN [g[k] EXCEPT !.verdict = "ERR_SYNTAX"] ELSE g[k]
      BY <1>1, <1>8, <1>10, <3>1, <3>2, Zenon DEF MeaningOf
    <3>. QED
      BY <1>7, <1>14, <3>3, <3>4 DEF Says, Meanings
  <2>9. cut \in Nat /\ cut <= Len(Written(ls[k + 1]))
    BY <1>7, <1>9, <1>14, <1>19
  <2>10. IsFile(MadeOf(k, ls, cut, g, p), source, meaning)
    BY <2>6, <2>7, <2>8, <2>9, FileMade
  <2>. QED
    BY <2>10
<1>20. CASE ~(cut <= lw)
  <2>1. cut = lw + 1 /\ a + cut = b
    BY <1>17, <1>20
  <2>2. PICK empty : empty = [kind |-> "empty"]
    OBVIOUS
  <2>3. PICK lines : lines = [i \in 1..(n + 1) |-> IF i = n + 1 THEN empty
                                                  ELSE ls[i]]
    OBVIOUS
  <2>4. /\ \A i \in 1..n : lines[i] = ls[i]
        /\ lines[n + 1] = empty
    <3>1. n + 1 \in 1..(n + 1) /\ \A i \in 1..n : i \in 1..(n + 1) /\ i # n + 1
      OBVIOUS
    <3>. QED
      BY <2>3, <3>1
  <2>5. IsLine(empty) /\ Written(empty) = <<>> /\ Len(Written(empty)) = 0
    BY <2>2, EmptyColumns DEF IsLine
  <2>6. PICK g : /\ g = [i \in 0..n |-> MeansUpto(g, ls, i)]
                 /\ Meaning(ls) = g[n]
    BY <1>4, MeaningsFound
  <2>7. /\ g[0] = Nothing
        /\ \A i \in 1..n : g[i] = MeaningAfter(g[i - 1], ls[i])
        /\ \A i \in 0..n : MeanFor(g, i, n)
    BY <1>6, <2>6, MeaningsTyped
  <2>8. Describe(n, lines, g, p)
    <3>1. \A i \in 1..(n + 1) : i \in 1..n \/ i = n + 1
      OBVIOUS
    <3>2. \A i \in 1..(n + 1) : IsLine(lines[i])
      BY <1>6, <2>4, <2>5, <3>1
    <3>3. ASSUME NEW i \in 1..n
          PROVE  Piled(p, lines, i, n)
      <4>1. Piled(p, ls, i, n) /\ lines[i] = ls[i]
        BY <1>12, <1>14, <2>4
      <4>. QED
        BY <4>1 DEF Piled
    <3>. QED
      BY <1>12, <2>4, <2>7, <3>2, <3>3 DEF Describe
  <2>9. Contains(n, lines, 0, p, source)
    <3>1. Len(source) = b /\ \A j \in 1..b : source[j] = p[n][j]
      BY <1>18, <2>1
    <3>2. b = b + 0 /\ 1..0 = {}
      OBVIOUS
    <3>. QED
      BY <1>15, <3>1, <3>2 DEF Contains
  <2>10. Says(n, lines, 0, g, meaning)
    <3>1. ~Cut(doc)
      BY <1>8, <1>9, <1>10, <1>20 DEF Cut
    <3>2. g[n] \in Meanings
      BY <1>14, <2>7 DEF MeanFor, MeaningOK
    <3>3. meaning = IF g[n].verdict = "OK" /\ g[n].place = "dated"
                    THEN [g[n] EXCEPT !.verdict = "ERR_SYNTAX"] ELSE g[n]
      BY <1>1, <1>2, <2>6, <3>1, Zenon DEF MeaningOf
    <3>4. MayEndIn(g[n].place, empty, 0) <=> g[n].place # "dated"
      <4>1. SubSeq(Written(empty), 1, 0) = <<>>
        BY <2>5
      <4>2. Blanks(0) = <<>>
        <5>1. Blanks(0) \in Seq(Plain) /\ Len(Blanks(0)) = 0
          BY BlankChars
        <5>. QED
          BY <5>1, EmptySeq
      <4>3. g[n].place \in Place
        BY <3>2 DEF Meanings
      <4>4. SubSeq(Written(empty), 1, 0) = Blanks(0)
        BY <4>1, <4>2
      <4>5. PICK pl \in Place : pl = g[n].place
        BY <4>3
      <4>6. CASE pl = "top"
        BY <4>4, <4>5, <4>6 DEF MayEndIn
      <4>7. CASE pl = "dated"
        BY <4>4, <4>5, <4>7 DEF MayEndIn
      <4>8. CASE pl = "desc"
        BY <4>4, <4>5, <4>8 DEF MayEndIn
      <4>9. CASE pl \in {"items", "body"}
        BY <4>4, <4>5, <4>9 DEF MayEndIn
      <4>. QED
        BY <4>5, <4>6, <4>7, <4>8, <4>9 DEF Place
    <3>. QED
      BY <2>4, <3>2, <3>3, <3>4 DEF Says, Meanings
  <2>11. 0 \in Nat /\ 0 <= Len(Written(lines[n + 1]))
    BY <2>4, <2>5
  <2>12. IsFile(MadeOf(n, lines, 0, g, p), source, meaning)
    BY <2>8, <2>9, <2>10, <2>11, FileMade
  <2>. QED
    BY <2>12
<1>. QED
  BY <1>10, <1>19, <1>20

----------------------------------------------------------------------------
(* What the lexer makes of the characters of the file.                      *)

Sourced == \A k \in 1..Len(source) : file[k] = Class(source[k])

Holding == IInv /\ CacheInv /\ Sourced

CharToken(ch) == CASE Class(ch) = "newline" -> "NEWLINE"
                   [] Class(ch) = "blank" -> "BLANK"
                   [] OTHER -> "TEXT"

Now(b, i1, i2, cached, start, tok) ==
    /\ at' = b /\ indent1' = i1 /\ indent2' = i2 /\ token' = tok
    /\ cacheDeindent' = cached /\ cacheParseindent' = start
    /\ pending' /\ UNCHANGED <<source, parser>>

LEMMA Classified ==
    ASSUME NEW ch
    PROVE  /\ Class(ch) \in {"newline", "blank", "text"}
           /\ Class(ch) = "newline" <=> ch = "\n"
           /\ Class(ch) = "blank" <=> ch \in {" ", "\t"}
           /\ CharToken(ch) = "NEWLINE" <=> ch = "\n"
           /\ CharToken(ch) = "BLANK" <=> ch \in {" ", "\t"}
           /\ CharToken(ch) = "TEXT" <=> Class(ch) = "text"
           /\ CharToken(ch) \in {"NEWLINE", "BLANK", "TEXT"}
BY DEF Class, CharToken

LEMMA LexerTyped ==
    ASSUME Holding
    PROVE  /\ Len(source) \in Nat /\ at \in Nat /\ at <= Len(source)
           /\ indent1 \in Nat /\ indent2 \in Nat
           /\ cacheDeindent \in BOOLEAN /\ cacheParseindent \in BOOLEAN
           /\ Len(file) = Len(source)
<1>1. /\ source \in Seq(Character) /\ Len(file) = Len(source)
  BY DEF Holding, CacheInv, InSource
<1>2. Len(source) \in Nat
  BY <1>1, LenProperties
<1>3. LP!TypeOK
  BY DEF Holding, IInv, LP!IInv
<1>4. /\ at \in 0..Len(file) /\ indent1 \in Nat /\ indent2 \in Nat
      /\ cacheDeindent \in BOOLEAN /\ cacheParseindent \in BOOLEAN
  BY <1>3 DEF LP!TypeOK
<1>. QED
  BY <1>1, <1>2, <1>4

LEMMA CharFound ==
    ASSUME Holding, NEW n \in Nat, n <= Len(source)
    PROVE  /\ n < Len(source) =>
                 /\ Lex!CharAt(n) = Class(source[n + 1])
                 /\ Lex!PastChar(n) = n + 1
           /\ n = Len(source) => Lex!CharAt(n) = "EOF" /\ Lex!PastChar(n) = n
<1>1. Len(source) \in Nat /\ Len(file) = Len(source)
  BY LexerTyped
<1>2. n < Len(source) => n + 1 \in 1..Len(source)
  BY <1>1
<1>3. n < Len(source) => file[n + 1] = Class(source[n + 1])
  BY <1>2 DEF Holding, Sourced
<1>. QED
  BY <1>1, <1>3 DEF Lex!CharAt, Lex!PastChar, Lex!EOF

\* The character behind position b is read.
Takes(b) ==
    /\ b < Len(source) =>
          Now(b + 1, indent1, indent2, FALSE, source[b + 1] = "\n",
              CharToken(source[b + 1]))
    /\ b = Len(source) =>
          /\ indent2 # 0 => Now(b, indent1, 0, TRUE, FALSE, "DEINDENT")
          /\ indent2 = 0 /\ indent1 # 0 =>
                Now(b, 0, 0, FALSE, FALSE, "DEINDENT")
          /\ indent2 = 0 /\ indent1 = 0 => Now(b, 0, 0, FALSE, FALSE, "END")

LEMMA TakenFrom ==
    ASSUME Holding, Read, Lex!CharToToken, ~cacheDeindent,
           NEW b \in Nat, b <= Len(source),
           c' = Lex!CharAt(b), at' = Lex!PastChar(b)
    PROVE  Takes(b)
<1>1. /\ pending' = TRUE /\ UNCHANGED <<source, parser>>
  BY DEF Read
<1>2. CASE b < Len(source)
  <2>1. /\ c' = Class(source[b + 1]) /\ at' = b + 1
    BY <1>2, CharFound
  <2>2. c' \in {"newline", "blank", "text"} /\ c' # "EOF"
    BY <2>1, Classified
  <2>3. /\ indent1' = indent1 /\ indent2' = indent2
        /\ cacheDeindent' = cacheDeindent
        /\ c' = "newline" => cacheParseindent' = TRUE /\ token' = "NEWLINE"
        /\ c' = "blank" => cacheParseindent' = FALSE /\ token' = "BLANK"
        /\ c' = "text" => cacheParseindent' = FALSE /\ token' = "TEXT"
    BY <2>2 DEF Lex!CharToToken, Lex!NewLine, Lex!Other, Lex!EOFLevel2,
       Lex!EOFLevel1, Lex!EOFLevel0, Lex!AtEOF, Lex!Return, Lex!EOF
  <2>4. PICK ch : ch = source[b + 1]
    OBVIOUS
  <2>5. /\ token' = CharToken(ch)
        /\ cacheParseindent' = (ch = "\n")
    BY <2>1, <2>2, <2>3, <2>4, Classified
  <2>6. cacheDeindent' = FALSE
    BY <2>3, LexerTyped
  <2>. QED
    BY <1>1, <1>2, <2>1, <2>3, <2>4, <2>5, <2>6, LexerTyped DEF Takes, Now
<1>3. CASE b = Len(source)
  <2>1. c' = "EOF" /\ at' = b
    BY <1>3, CharFound
  <2>2. /\ cacheParseindent' = FALSE
        /\ indent2 # 0 => /\ cacheDeindent' = TRUE /\ indent2' = 0
                          /\ token' = "DEINDENT" /\ indent1' = indent1
        /\ indent2 = 0 /\ indent1 # 0 =>
              /\ indent1' = 0 /\ token' = "DEINDENT" /\ indent2' = indent2
              /\ cacheDeindent' = cacheDeindent
        /\ indent2 = 0 /\ indent1 = 0 =>
              /\ token' = "END" /\ indent1' = indent1 /\ indent2' = indent2
              /\ cacheDeindent' = cacheDeindent
    BY <2>1 DEF Lex!CharToToken, Lex!NewLine, Lex!Other, Lex!EOFLevel2,
       Lex!EOFLevel1, Lex!EOFLevel0, Lex!AtEOF, Lex!Return, Lex!EOF
  <2>. QED
    BY <1>1, <1>3, <2>1, <2>2, LexerTyped DEF Takes, Now
<1>. QED
  BY <1>2, <1>3, LexerTyped

\* Inside of a line.
LEMMA PlainRead ==
    ASSUME Holding, Read, ~cacheDeindent, ~cacheParseindent
    PROVE  Takes(at)
<1>1. Lex!yylex
  BY DEF Read
<1>2. Lex!CharToToken
  BY <1>1 DEF Lex!yylex, Lex!ReturnCached, Lex!BlankLine, Lex!IndentLine,
     Lex!Indent1, Lex!Deindent1, Lex!Indent2, Lex!DeindentBoth,
     Lex!Deindent2, Lex!IndentError, Lex!ChangeIndent, Lex!AtIndent
<1>3. Lex!ReadsChar
  BY <1>2 DEF Lex!CharToToken, Lex!NewLine, Lex!Other, Lex!EOFLevel2,
     Lex!EOFLevel1, Lex!EOFLevel0, Lex!AtEOF
<1>4. c' = Lex!CharAt(at) /\ at' = Lex!PastChar(at)
  BY <1>3 DEF Lex!ReadsChar, Lex!AtIndent
<1>. QED
  BY <1>2, <1>4, TakenFrom, LexerTyped

\* The second DEINDENT of two.
LEMMA CachedRead ==
    ASSUME Holding, Read, cacheDeindent, ~cacheParseindent
    PROVE  Now(IF at < Len(source) THEN at + 1 ELSE at, indent1, indent2,
               FALSE, FALSE, "DEINDENT")
<1>1. Lex!yylex /\ pending' = TRUE /\ UNCHANGED <<source, parser>>
  BY DEF Read
<1>2. Lex!ReturnCached
  BY <1>1 DEF Lex!yylex, Lex!BlankLine, Lex!IndentLine,
     Lex!Indent1, Lex!Deindent1, Lex!Indent2, Lex!DeindentBoth,
     Lex!Deindent2, Lex!IndentError, Lex!ChangeIndent, Lex!AtIndent,
     Lex!CharToToken, Lex!NewLine, Lex!Other, Lex!EOFLevel2,
     Lex!EOFLevel1, Lex!EOFLevel0, Lex!AtEOF, Lex!ReadsChar
<1>3. /\ at' = Lex!PastChar(at) /\ cacheDeindent' = FALSE
      /\ token' = "DEINDENT" /\ indent1' = indent1 /\ indent2' = indent2
      /\ cacheParseindent' = cacheParseindent
  BY <1>2 DEF Lex!ReturnCached, Lex!Return
<1>4. at' = IF at < Len(source) THEN at + 1 ELSE at
  BY <1>3, LexerTyped DEF Lex!PastChar
<1>. QED
  BY <1>1, <1>3, <1>4, LexerTyped DEF Now

\* At the start of a line: nb blanks, which are not more than are counted.
Blanked(nb) ==
    /\ at + nb <= Len(source)
    /\ \A j \in 1..nb : source[at + j] = " "
    /\ at + nb < Len(source) => Class(source[at + nb + 1]) # "blank"
    /\ indent2 > 0 => nb <= indent1 + indent2

\* The line is not empty, and is not indented like the open levels.
Changes(b, nb) ==
    /\ indent1 = 0 => Now(b, nb, 0, FALSE, FALSE, "INDENT")
    /\ indent1 # 0 /\ nb = 0 /\ indent2 = 0 =>
          Now(b, 0, 0, FALSE, FALSE, "DEINDENT")
    /\ indent1 # 0 /\ nb > indent1 /\ indent2 = 0 =>
          Now(b, indent1, nb - indent1, FALSE, FALSE, "INDENT")
    /\ indent1 # 0 /\ indent2 # 0 /\ nb = 0 =>
          Now(b, 0, 0, TRUE, FALSE, "DEINDENT")
    /\ indent1 # 0 /\ indent2 # 0 /\ nb = indent1 =>
          Now(b, indent1, 0, FALSE, FALSE, "DEINDENT")
    /\ /\ indent1 # 0 /\ nb # 0
       /\ indent2 = 0 => nb < indent1
       /\ indent2 # 0 => nb # indent1
       => Now(b, indent1, indent2, FALSE, FALSE, "END")

Starts(b, nb) ==
    IF b < Len(source) /\ source[b + 1] = "\n"
    THEN Now(b + 1, indent1, indent2, FALSE, TRUE, "NEWLINE")
    ELSE IF nb = indent1 + indent2 THEN Takes(b) ELSE Changes(b, nb)

LEMMA IndentRead ==
    ASSUME Holding, NEW nb \in Nat, Blanked(nb), NEW new, Lex!ReadsIndent(new)
    PROVE  new = nb
<1>1. PICK l \in Nat, a \in Nat, i1, i2 \in Nat :
         l = Len(source) /\ a = at /\ i1 = indent1 /\ i2 = indent2
  BY LexerTyped
<1>2. Len(file) = l /\ a <= l
  BY <1>1, LexerTyped
<1>3. /\ new \in 0..(l - a)
      /\ \A i \in 1..new : file[a + i] = "blank"
      /\ Lex!CharAt(a + new) # "blank" \/ (i2 > 0 /\ new = i1 + i2)
  BY <1>1, <1>2 DEF Lex!ReadsIndent
<1>4. /\ a + nb <= l
      /\ \A j \in 1..nb : source[a + j] = " "
      /\ a + nb < l => Class(source[a + nb + 1]) # "blank"
      /\ i2 > 0 => nb <= i1 + i2
  BY <1>1 DEF Blanked
<1>7. PICK n \in Nat : n = new
  BY <1>3
<1>8. /\ a + n <= l
      /\ \A i \in 1..n : file[a + i] = "blank"
      /\ Lex!CharAt(a + n) # "blank" \/ (i2 > 0 /\ n = i1 + i2)
  BY <1>3, <1>7
<1>9. a + nb <= l /\ (i2 > 0 => nb <= i1 + i2)
  BY <1>4
<1>5. CASE n < nb
  <2>1. /\ a + n < l /\ a + n \in Nat /\ a + n <= l
        /\ n + 1 \in 1..nb /\ a + (n + 1) = a + n + 1
    BY <1>5, <1>9
  <2>2. source[a + n + 1] = " "
    BY <1>4, <2>1
  <2>3. Lex!CharAt(a + n) = Class(source[a + n + 1])
    BY <1>1, <2>1, CharFound
  <2>4. Lex!CharAt(a + n) = "blank"
    BY <2>2, <2>3, Classified
  <2>. QED
    BY <1>5, <1>8, <1>9, <2>4
<1>6. CASE n > nb
  <2>1. /\ nb + 1 \in 1..n /\ a + nb < l /\ a + nb + 1 \in 1..l
        /\ a + (nb + 1) = a + nb + 1
    BY <1>8, <1>6
  <2>2. file[a + nb + 1] = "blank"
    BY <1>8, <2>1
  <2>3. file[a + nb + 1] = Class(source[a + nb + 1])
    BY <1>1, <2>1 DEF Holding, Sourced
  <2>. QED
    BY <1>4, <2>1, <2>2, <2>3
<1>. QED
  BY <1>5, <1>6, <1>7

LEMMA StartRead ==
    ASSUME Holding, Read, ~cacheDeindent, cacheParseindent,
           NEW nb \in Nat, Blanked(nb), NEW b \in Nat, b = at + nb,
           indent1 = 0 => indent2 = 0
    PROVE  Starts(b, nb)
<1>1. Lex!yylex /\ pending' = TRUE /\ UNCHANGED <<source, parser>>
  BY DEF Read
<1>2. b <= Len(source) /\ Len(source) \in Nat
  BY LexerTyped DEF Blanked
<1>3. \A new : Lex!AtIndent(new) => new = nb /\ c' = Lex!CharAt(b)
  BY IndentRead DEF Lex!AtIndent
<1>4. /\ b < Len(source) => /\ Lex!CharAt(b) = Class(source[b + 1])
                            /\ Lex!PastChar(b) = b + 1
      /\ b = Len(source) => Lex!CharAt(b) = "EOF" /\ Lex!PastChar(b) = b
  BY <1>2, CharFound
<1>5. Lex!CharAt(b) = "newline" <=> b < Len(source) /\ source[b + 1] = "\n"
  <2>1. PICK ch : ch = source[b + 1]
    OBVIOUS
  <2>2. Class(ch) = "newline" <=> ch = "\n"
    BY Classified
  <2>. QED
    BY <1>2, <1>4, <2>1, <2>2
<1>6. Lex!BlankLine \/ Lex!IndentLine \/ Lex!CharToToken
  BY <1>1 DEF Lex!yylex, Lex!ReturnCached
<1>7. CASE Lex!BlankLine
  <2>1. PICK new : Lex!AtIndent(new) /\ at' = at + new + 1
    BY <1>7 DEF Lex!BlankLine
  <2>2. c' = "newline" /\ token' = "NEWLINE"
        /\ UNCHANGED <<indent1, indent2, cacheDeindent, cacheParseindent>>
    BY <1>7 DEF Lex!BlankLine, Lex!Return
  <2>3. new = nb /\ c' = Lex!CharAt(b)
    BY <1>3, <2>1
  <2>4. at' = b + 1
    BY <2>1, <2>3, LexerTyped
  <2>. QED
    BY <1>1, <1>5, <2>2, <2>3, <2>4, LexerTyped DEF Starts, Now
<1>8. CASE Lex!IndentLine
  <2>1. PICK new : \/ Lex!Indent1(new) \/ Lex!Deindent1(new)
                   \/ Lex!Indent2(new) \/ Lex!DeindentBoth(new)
                   \/ Lex!Deindent2(new) \/ Lex!IndentError(new)
    BY <1>8 DEF Lex!IndentLine
  <2>2. Lex!ChangeIndent(new)
    BY <2>1 DEF Lex!Indent1, Lex!Deindent1, Lex!Indent2, Lex!DeindentBoth,
       Lex!Deindent2, Lex!IndentError
  <2>3. Lex!AtIndent(new) /\ c' # "newline" /\ new # indent1 + indent2
        /\ at' = at + new /\ cacheParseindent' = FALSE
    BY <2>2 DEF Lex!ChangeIndent
  <2>4. new = nb /\ c' = Lex!CharAt(b)
    BY <1>3, <2>3
  <2>5. at' = b /\ nb # indent1 + indent2
    BY <2>3, <2>4
  <2>6. Changes(b, nb)
    <3>1. CASE Lex!Indent1(new)
      BY <1>1, <2>3, <2>4, <2>5, <3>1, LexerTyped
         DEF Lex!Indent1, Lex!Return, Changes, Now
    <3>2. CASE Lex!Deindent1(new)
      BY <1>1, <2>3, <2>4, <2>5, <3>2, LexerTyped
         DEF Lex!Deindent1, Lex!Return, Changes, Now
    <3>3. CASE Lex!Indent2(new)
      BY <1>1, <2>3, <2>4, <2>5, <3>3, LexerTyped
         DEF Lex!Indent2, Lex!Return, Changes, Now
    <3>4. CASE Lex!DeindentBoth(new)
      BY <1>1, <2>3, <2>4, <2>5, <3>4, LexerTyped
         DEF Lex!DeindentBoth, Lex!Return, Changes, Now
    <3>5. CASE Lex!Deindent2(new)
      BY <1>1, <2>3, <2>4, <2>5, <3>5, LexerTyped
         DEF Lex!Deindent2, Lex!Return, Changes, Now
    <3>6. CASE Lex!IndentError(new)
      BY <1>1, <2>3, <2>4, <2>5, <3>6, LexerTyped
         DEF Lex!IndentError, Lex!Return, Changes, Now
    <3>. QED
      BY <2>1, <3>1, <3>2, <3>3, <3>4, <3>5, <3>6
  <2>. QED
    BY <1>5, <2>3, <2>4, <2>5, <2>6 DEF Starts
<1>9. CASE Lex!CharToToken
  <2>1. Lex!ReadsChar
    BY <1>9 DEF Lex!CharToToken, Lex!NewLine, Lex!Other, Lex!EOFLevel2,
       Lex!EOFLevel1, Lex!EOFLevel0, Lex!AtEOF
  <2>2. PICK new : /\ new = indent1 + indent2 /\ Lex!AtIndent(new)
                   /\ c' # "newline" /\ at' = Lex!PastChar(at + new)
    BY <2>1 DEF Lex!ReadsChar
  <2>3. new = nb /\ c' = Lex!CharAt(b)
    BY <1>3, <2>2
  <2>4. at' = Lex!PastChar(b)
    BY <2>2, <2>3
  <2>5. Takes(b)
    BY <1>2, <1>9, <2>3, <2>4, TakenFrom
  <2>. QED
    BY <1>5, <2>2, <2>3, <2>5 DEF Starts
<1>. QED
  BY <1>6, <1>7, <1>8, <1>9

----------------------------------------------------------------------------
(* The one action that takes the token, where no memory is wanting.          *)

Turn == ret = "none" /\ pending /\ Next /\ ~OutOfMemory

NumberStates == {"days", "month0", "mday0", "items", "minute0", "id0"}
DigitStates == {"year", "month", "mday", "hour", "minute", "id"}

LEMMA NumberSets == DOMAIN Number = NumberStates /\ Numbers = DigitStates
BY DEF Number, Numbers, NumberStates, DigitStates

\* The states each action begins in, and the kinds of tokens it takes.
LEMMA Choices ==
    ASSUME Turn
    PROVE  \/ Shift /\ \E s \in Shifts : s[1] = pstate /\ s[2] = Kind
           \/ FirstDigit /\ pstate \in NumberStates /\ Kind = "DIGIT"
           \/ NextDigit /\ pstate \in DigitStates /\ Kind = "DIGIT"
           \/ Date /\ pstate = "mday" /\ Kind # "DIGIT"
           \/ Time /\ pstate = "minute" /\ Kind # "DIGIT"
           \/ /\ ItemWithoutText /\ pstate \in {"timed", "work"}
              /\ Kind = "NEWLINE"
           \/ FirstChar /\ pstate \in {"work", "task"} /\ Kind \in TextChar
           \/ /\ FirstChar /\ pstate = "desc0"
              /\ Kind \in TextChar \union {"NEWLINE"}
           \/ /\ NextChar /\ pstate \in {"worktext", "tasktext"}
              /\ Kind \in TextChar
           \/ /\ NextChar /\ pstate = "desc"
              /\ Kind \in TextChar \union {"NEWLINE"}
           \/ Item /\ pstate = "worktext" /\ Kind = "NEWLINE"
           \/ Ref /\ pstate = "tasktext" /\ Kind = "NEWLINE" /\ IdAllowed
           \/ RefError /\ pstate = "tasktext" /\ Kind = "NEWLINE" /\ ~IdAllowed
           \/ NoBody /\ pstate = "body" /\ Kind # "INDENT"
           \/ Body /\ pstate = "desc" /\ Kind = "DEINDENT"
           \/ Accept /\ pstate = "days" /\ Kind = "END"
           \/ SyntaxError /\ ~Expected
<1>1. \/ Shift \/ FirstDigit \/ NextDigit \/ Date \/ Time
      \/ ItemWithoutText \/ FirstChar \/ NextChar
      \/ Item \/ Ref \/ RefError \/ NoBody \/ Body
      \/ Accept \/ SyntaxError
  BY DEF Turn, Next, Read
<1>2. Shift => \E s \in Shifts : s[1] = pstate /\ s[2] = Kind
  BY DEF Shift, Sees
<1>3. FirstDigit => pstate \in NumberStates /\ Kind = "DIGIT"
  BY NumberSets DEF FirstDigit, Sees
<1>4. NextDigit => pstate \in DigitStates /\ Kind = "DIGIT"
  BY NumberSets DEF NextDigit, Sees
<1>5. /\ Date => pstate = "mday" /\ Kind # "DIGIT"
      /\ Time => pstate = "minute" /\ Kind # "DIGIT"
  BY DEF Date, Time, EndOfNumber
<1>6. ItemWithoutText => pstate \in {"timed", "work"} /\ Kind = "NEWLINE"
  BY DEF ItemWithoutText, Sees
<1>7. FirstChar => \/ pstate \in {"work", "task"} /\ Kind \in TextChar
                   \/ /\ pstate = "desc0"
                      /\ Kind \in TextChar \union {"NEWLINE"}
  BY DEF FirstChar, Sees
<1>8. NextChar => \/ pstate \in {"worktext", "tasktext"} /\ Kind \in TextChar
                  \/ /\ pstate = "desc"
                     /\ Kind \in TextChar \union {"NEWLINE"}
  BY DEF NextChar, Sees
<1>9. /\ Item => pstate = "worktext" /\ Kind = "NEWLINE"
      /\ Ref => pstate = "tasktext" /\ Kind = "NEWLINE" /\ IdAllowed
      /\ RefError => pstate = "tasktext" /\ Kind = "NEWLINE" /\ ~IdAllowed
  BY DEF Item, Ref, RefError, EndOfText, Sees
<1>10. /\ NoBody => pstate = "body" /\ Kind # "INDENT"
       /\ Body => pstate = "desc" /\ Kind = "DEINDENT"
       /\ Accept => pstate = "days" /\ Kind = "END"
       /\ SyntaxError => ~Expected
  BY DEF NoBody, Body, Accept, SyntaxError, Sees
<1>. QED
  BY <1>1, <1>2, <1>3, <1>4, <1>5, <1>6, <1>7, <1>8, <1>9, <1>10

\* Which tokens a state expects without taking them as text.
Leads == {<<"year", "HYPHEN">>, <<"month", "HYPHEN">>, <<"padding", "SPACE">>,
          <<"padding", "NEWLINE">>, <<"emptylines", "NEWLINE">>,
          <<"emptylines", "INDENT">>, <<"items", "DEINDENT">>,
          <<"items", "NEWLINE">>, <<"items", "HASH">>, <<"hour", "COLON">>,
          <<"timed", "SPACE">>, <<"id", "SPACE">>, <<"body", "INDENT">>}

LEMMA ShiftFrom ==
    ASSUME NEW state, NEW kind
    PROVE  (\E s \in Shifts : s[1] = state /\ s[2] = kind)
              <=> <<state, kind>> \in Leads
BY DEF Shifts, Leads, DayEnd

LEMMA ExpectedIs ==
    Expected <=> \/ <<pstate, Kind>> \in Leads
                 \/ /\ pstate \in NumberStates \union DigitStates
                    /\ Kind = "DIGIT"
                 \/ pstate \in {"mday", "minute", "body"}
                 \/ /\ pstate \in {"timed", "work", "worktext", "tasktext"}
                    /\ Kind = "NEWLINE"
                 \/ /\ pstate \in {"work", "task", "worktext", "tasktext"}
                    /\ Kind \in TextChar
                 \/ /\ pstate \in {"desc0", "desc"}
                    /\ Kind \in TextChar \union {"NEWLINE"}
                 \/ pstate = "desc" /\ Kind = "DEINDENT"
                 \/ pstate = "days" /\ Kind = "END"
BY NumberSets, ShiftFrom DEF Expected

LEMMA TurnShift ==
    ASSUME Turn, <<pstate, Kind>> \in Leads
    PROVE  /\ Consume /\ UNCHANGED <<numbers, cache, tm, entries, ret>>
           /\ <<pstate, Kind, pstate'>> \in Shifts
<1>1. Expected
  BY ExpectedIs
<1>2. Shift
  BY <1>1, Choices DEF Leads, NumberStates, DigitStates, TextChar
<1>3. PICK s \in Shifts : /\ Sees({s[1]}, {s[2]}) /\ Consume /\ Enter(s[3])
                          /\ UNCHANGED <<numbers, cache, tm, entries, ret>>
  BY <1>2 DEF Shift
<1>4. s = <<s[1], s[2], s[3]>>
  BY DEF Shifts
<1>5. s[1] = pstate /\ s[2] = Kind /\ s[3] = pstate'
  BY <1>3 DEF Sees, Enter
<1>. QED
  BY <1>3, <1>4, <1>5

LEMMA TurnNumber ==
    ASSUME Turn, pstate \in NumberStates, Kind = "DIGIT"
    PROVE  FirstDigit
<1>1. Expected
  BY ExpectedIs
<1>. QED
  BY <1>1, Choices, ShiftFrom
     DEF Leads, NumberStates, DigitStates, TextChar

LEMMA TurnDigit ==
    ASSUME Turn, pstate \in DigitStates, Kind = "DIGIT"
    PROVE  NextDigit
<1>1. Expected
  BY ExpectedIs
<1>. QED
  BY <1>1, Choices, ShiftFrom
     DEF Leads, NumberStates, DigitStates, TextChar

LEMMA TurnDate ==
    ASSUME Turn, pstate = "mday", Kind # "DIGIT"
    PROVE  Date
<1>1. Expected
  BY ExpectedIs
<1>2. <<pstate, Kind>> \notin Leads
  BY DEF Leads, TextChar
<1>3. ~Shift
  BY <1>2, ShiftFrom DEF Shift, Sees
<1>4. ~SyntaxError
  BY <1>1 DEF SyntaxError
<1>. QED
  BY <1>3, <1>4, Choices DEF NumberStates, DigitStates

LEMMA TurnTime ==
    ASSUME Turn, pstate = "minute", Kind # "DIGIT"
    PROVE  Time
<1>1. Expected
  BY ExpectedIs
<1>2. <<pstate, Kind>> \notin Leads
  BY DEF Leads, TextChar
<1>3. ~Shift
  BY <1>2, ShiftFrom DEF Shift, Sees
<1>4. ~SyntaxError
  BY <1>1 DEF SyntaxError
<1>. QED
  BY <1>3, <1>4, Choices DEF NumberStates, DigitStates

LEMMA TurnNoBody ==
    ASSUME Turn, pstate = "body", Kind # "INDENT"
    PROVE  NoBody
<1>1. Expected
  BY ExpectedIs
<1>2. <<pstate, Kind>> \notin Leads
  BY DEF Leads, TextChar
<1>3. ~Shift
  BY <1>2, ShiftFrom DEF Shift, Sees
<1>4. ~SyntaxError
  BY <1>1 DEF SyntaxError
<1>. QED
  BY <1>3, <1>4, Choices DEF NumberStates, DigitStates

LEMMA TurnWithoutText ==
    ASSUME Turn, pstate \in {"timed", "work"}, Kind = "NEWLINE"
    PROVE  ItemWithoutText
<1>1. Expected
  BY ExpectedIs
<1>. QED
  BY <1>1, Choices, ShiftFrom
     DEF Leads, NumberStates, DigitStates, TextChar

LEMMA TurnFirstChar ==
    ASSUME Turn, \/ pstate \in {"work", "task"} /\ Kind \in TextChar
                 \/ pstate = "desc0" /\ Kind \in TextChar \union {"NEWLINE"}
    PROVE  FirstChar
<1>1. Expected
  BY ExpectedIs
<1>2. <<pstate, Kind>> \notin Leads
  BY DEF Leads, TextChar
<1>3. ~Shift
  BY <1>2, ShiftFrom DEF Shift, Sees
<1>4. ~SyntaxError
  BY <1>1 DEF SyntaxError
<1>. QED
  BY <1>3, <1>4, Choices DEF NumberStates, DigitStates, TextChar

LEMMA TurnNextChar ==
    ASSUME Turn, \/ pstate \in {"worktext", "tasktext"} /\ Kind \in TextChar
                 \/ pstate = "desc" /\ Kind \in TextChar \union {"NEWLINE"}
    PROVE  NextChar
<1>1. Expected
  BY ExpectedIs
<1>2. <<pstate, Kind>> \notin Leads
  BY DEF Leads, TextChar
<1>3. ~Shift
  BY <1>2, ShiftFrom DEF Shift, Sees
<1>4. ~SyntaxError
  BY <1>1 DEF SyntaxError
<1>. QED
  BY <1>3, <1>4, Choices DEF NumberStates, DigitStates, TextChar

LEMMA TurnItem ==
    ASSUME Turn, pstate = "worktext", Kind = "NEWLINE"
    PROVE  Item
<1>1. Expected
  BY ExpectedIs
<1>. QED
  BY <1>1, Choices, ShiftFrom
     DEF Leads, NumberStates, DigitStates, TextChar

LEMMA TurnRef ==
    ASSUME Turn, pstate = "tasktext", Kind = "NEWLINE"
    PROVE  (Ref /\ IdAllowed) \/ (RefError /\ ~IdAllowed)
<1>1. Expected
  BY ExpectedIs
<1>. QED
  BY <1>1, Choices, ShiftFrom
     DEF Leads, NumberStates, DigitStates, TextChar

LEMMA TurnBody ==
    ASSUME Turn, pstate = "desc", Kind = "DEINDENT"
    PROVE  Body
<1>1. Expected
  BY ExpectedIs
<1>2. <<pstate, Kind>> \notin Leads
  BY DEF Leads, TextChar
<1>3. ~Shift
  BY <1>2, ShiftFrom DEF Shift, Sees
<1>4. ~SyntaxError
  BY <1>1 DEF SyntaxError
<1>. QED
  BY <1>3, <1>4, Choices DEF NumberStates, DigitStates, TextChar

LEMMA TurnAccept ==
    ASSUME Turn, pstate = "days", Kind = "END"
    PROVE  Accept
<1>1. Expected
  BY ExpectedIs
<1>. QED
  BY <1>1, Choices, ShiftFrom
     DEF Leads, NumberStates, DigitStates, TextChar

LEMMA TurnRefused ==
    ASSUME Turn, ~Expected
    PROVE  SyntaxError
BY Choices, ExpectedIs, ShiftFrom

----------------------------------------------------------------------------
(* The kind of a token, and whether it is expected.                         *)

Expects(state, kind) ==
    \/ <<state, kind>> \in Leads
    \/ state \in NumberStates \union DigitStates /\ kind = "DIGIT"
    \/ state \in {"mday", "minute", "body"}
    \/ state \in {"timed", "work", "worktext", "tasktext"} /\ kind = "NEWLINE"
    \/ state \in {"work", "task", "worktext", "tasktext"} /\ kind \in TextChar
    \/ /\ state \in {"desc0", "desc"}
       /\ kind \in TextChar \union {"NEWLINE"}
    \/ state = "desc" /\ kind = "DEINDENT"
    \/ state = "days" /\ kind = "END"

LEMMA ExpectedNext == Expected' <=> Expects(pstate', Kind')
BY NumberSets, ShiftFrom DEF Expected, Expects

\* The kind of the token for a character, or for none.
KindIs(kind, ch) ==
    /\ kind = "NEWLINE" <=> ch = "\n"
    /\ kind = "SPACE" <=> ch \in {" ", "\t"}
    /\ kind = "DIGIT" <=> ch \in Digit
    /\ kind = "COLON" <=> ch = ":"
    /\ kind = "HYPHEN" <=> ch = "-"
    /\ kind = "HASH" <=> ch = "#"
    /\ kind \in TextChar <=> ch # "\n"
    /\ kind \notin {"INDENT", "DEINDENT", "END"}

LEMMA KindFor ==
    /\ token = CharToken(Ch) => KindIs(Kind, Ch)
    /\ token \in {"INDENT", "DEINDENT", "END"} => Kind = token
<1>1. ASSUME token = CharToken(Ch)
      PROVE  KindIs(Kind, Ch)
  <2>1. CASE Ch = "\n"
    BY <1>1, <2>1, Classified DEF KindIs, Kind, TextChar, Digit
  <2>2. CASE Ch \in {" ", "\t"}
    BY <1>1, <2>2, Classified DEF KindIs, Kind, TextChar, Digit
  <2>3. CASE Ch \notin {"\n", " ", "\t"}
    <3>1. token = "TEXT"
      BY <1>1, <2>3, Classified
    <3>2. Kind = CASE Ch \in Digit -> "DIGIT"
                   [] Ch = ":"     -> "COLON"
                   [] Ch = "-"     -> "HYPHEN"
                   [] Ch = "#"     -> "HASH"
                   [] OTHER        -> "LETTER"
      BY <3>1 DEF Kind
    <3>. QED
      BY <2>3, <3>2 DEF KindIs, TextChar, Digit
  <2>. QED
    BY <2>1, <2>2, <2>3
<1>. QED
  BY <1>1 DEF Kind

LEMMA KindNext ==
    /\ token' = CharToken(Ch') => KindIs(Kind', Ch')
    /\ token' \in {"INDENT", "DEINDENT", "END"} => Kind' = token'
<1>1. ASSUME token' = CharToken(Ch')
      PROVE  KindIs(Kind', Ch')
  <2>1. CASE Ch' = "\n"
    BY <1>1, <2>1, Classified DEF KindIs, Kind, TextChar, Digit
  <2>2. CASE Ch' \in {" ", "\t"}
    BY <1>1, <2>2, Classified DEF KindIs, Kind, TextChar, Digit
  <2>3. CASE Ch' \notin {"\n", " ", "\t"}
    <3>1. token' = "TEXT"
      BY <1>1, <2>3, Classified
    <3>2. Kind' = CASE Ch' \in Digit -> "DIGIT"
                   [] Ch' = ":"     -> "COLON"
                   [] Ch' = "-"     -> "HYPHEN"
                   [] Ch' = "#"     -> "HASH"
                   [] OTHER         -> "LETTER"
      BY <3>1 DEF Kind
    <3>. QED
      BY <2>3, <3>2 DEF KindIs, TextChar, Digit
  <2>. QED
    BY <2>1, <2>2, <2>3
<1>. QED
  BY <1>1 DEF Kind

\* States in which the tokens for levels, or for the end, are refused.
LEMMA Refuses ==
    /\ \A state \in State \ {"mday", "minute", "body"} :
          /\ state # "days" => ~Expects(state, "END")
          /\ state \notin {"items", "desc"} => ~Expects(state, "DEINDENT")
          /\ state # "emptylines" => ~Expects(state, "INDENT")
    /\ \A kind : kind \notin {"DIGIT", "END"} => ~Expects("days", kind)
    /\ \A kind : kind \notin {"INDENT", "NEWLINE"} =>
          ~Expects("emptylines", kind)
    /\ \A kind : kind \notin {"DIGIT", "HASH", "NEWLINE", "DEINDENT"} =>
          ~Expects("items", kind)
<1>1. ASSUME NEW state \in State \ {"mday", "minute", "body"}
      PROVE  /\ state # "days" => ~Expects(state, "END")
             /\ state \notin {"items", "desc"} => ~Expects(state, "DEINDENT")
             /\ state # "emptylines" => ~Expects(state, "INDENT")
  BY <1>1 DEF Expects, Leads, NumberStates, DigitStates, TextChar
<1>2. ASSUME NEW kind, kind \notin {"DIGIT", "END"}
      PROVE  ~Expects("days", kind)
  BY <1>2 DEF Expects, Leads, NumberStates, DigitStates
<1>3. ASSUME NEW kind, kind \notin {"INDENT", "NEWLINE"}
      PROVE  ~Expects("emptylines", kind)
  BY <1>3 DEF Expects, Leads, NumberStates, DigitStates
<1>4. ASSUME NEW kind, kind \notin {"DIGIT", "HASH", "NEWLINE", "DEINDENT"}
      PROVE  ~Expects("items", kind)
  BY <1>4 DEF Expects, Leads, NumberStates, DigitStates
<1>. QED
  BY <1>1, <1>2, <1>3, <1>4

----------------------------------------------------------------------------
(* The string cache while a text is read.                                   *)

CacheIs(s) == textpos = Len(s) /\ \A j \in 1..Len(s) : text[j] = s[j]

\* The cache holds b and then w from column p as far as k.
Cached(b, w, p, k) ==
    /\ textpos = Len(b) + (k - p)
    /\ \A j \in 1..Len(b) : text[j] = b[j]
    /\ \A j \in 1..(k - p) : text[Len(b) + j] = w[p + j]

LEMMA CachedFrom ==
    ASSUME NEW b, Len(b) \in Nat, CacheIs(b), NEW w, NEW p \in Nat
    PROVE  Cached(b, w, p, p)
BY DEF CacheIs, Cached

\* A character is added where the string ends.
LEMMA Added ==
    ASSUME Buffer, NEW p \in 0..Len(text), NEW ch, ch \in Character,
           AddChar(p, ch)
    PROVE  /\ textpos' = p + 1 /\ text'[p + 1] = ch
           /\ \A j \in 1..p : text'[j] = text[j]
<1>1. \A j \in 1..p : j \in 1..Len(text) /\ j # p + 1
  BY DEF Buffer
<1>. QED
  BY <1>1, PutTyped DEF AddChar, Buffer

LEMMA CachedMore ==
    ASSUME Buffer, NEW b, Len(b) \in Nat, NEW w, NEW p \in Nat,
           NEW k \in Nat, p <= k, Cached(b, w, p, k),
           NEW ch, ch \in Character, ch = w[k + 1], AddChar(textpos, ch)
    PROVE  Cached(b, w, p, k + 1)'
<1>1. PICK l \in Nat : l = Len(b)
  OBVIOUS
<1>2. PICK e \in Nat : e = k - p
  OBVIOUS
<1>3. textpos = l + e /\ textpos \in 0..Len(text)
  BY <1>1, <1>2 DEF Cached, Buffer
<1>4. /\ textpos' = l + e + 1 /\ text'[l + e + 1] = ch
      /\ \A j \in 1..(l + e) : text'[j] = text[j]
  BY <1>3, Added
<1>5. \A j \in 1..l : text'[j] = b[j]
  <2>. TAKE j \in 1..l
  <2>1. j \in 1..(l + e)
    OBVIOUS
  <2>2. text[j] = b[j]
    BY <1>1 DEF Cached
  <2>. QED
    BY <2>1, <2>2, <1>4
<1>6. ASSUME NEW j \in 1..(e + 1)
      PROVE  text'[l + j] = w[p + j]
  <2>1. CASE j = e + 1
    <3>1. l + j = l + e + 1 /\ p + j = k + 1
      BY <2>1, <1>2
    <3>. QED
      BY <3>1, <1>4
  <2>2. CASE j # e + 1
    <3>1. j \in 1..e /\ l + j \in 1..(l + e)
      BY <2>2
    <3>2. text[l + j] = w[p + j]
      BY <3>1, <1>1, <1>2 DEF Cached
    <3>. QED
      BY <3>1, <3>2, <1>4
  <2>. QED
    BY <2>1, <2>2
<1>7. (k + 1) - p = e + 1 /\ l + e + 1 = l + ((k + 1) - p)
  BY <1>2
<1>. QED
  BY <1>1, <1>4, <1>5, <1>6, <1>7 DEF Cached

LEMMA CachedFirst ==
    ASSUME Buffer, NEW w, NEW p \in Nat,
           NEW ch, ch \in Character, ch = w[p + 1], AddChar(0, ch)
    PROVE  Cached(<<>>, w, p, p + 1)'
<1>1. 0 \in 0..Len(text)
  BY DEF Buffer
<1>2. textpos' = 1 /\ text'[1] = ch
  BY <1>1, Added
<1>. QED
  BY <1>2 DEF Cached
=============================================================================
