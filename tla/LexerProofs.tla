---------------------------- MODULE LexerProofs ----------------------------
(***************************************************************************)
(* Proofs about the lexer, for every set of files.                         *)
(***************************************************************************)
EXTENDS Lexer, TLAPS

\* A step of the lexer, whichever it is, is one of these.
LEMMA Cases ==
    ASSUME yylex
    PROVE  \/ ReturnCached
           \/ BlankLine
           \/ \E new \in 0..Len(file) : Indent1(new)
           \/ \E new \in 0..Len(file) : Deindent1(new)
           \/ \E new \in 0..Len(file) : Indent2(new)
           \/ \E new \in 0..Len(file) : DeindentBoth(new)
           \/ \E new \in 0..Len(file) : Deindent2(new)
           \/ \E new \in 0..Len(file) : IndentError(new)
           \/ NewLine
           \/ Other
           \/ EOFLevel2
           \/ EOFLevel1
           \/ EOFLevel0
BY DEF yylex, IndentLine, CharToToken

\* fgetc returns a character or EOF and stays inside the file.
LEMMA Fgetc ==
    ASSUME TypeOK, NEW n \in 0..Len(file)
    PROVE  /\ CharAt(n) \in Char \union {EOF}
           /\ PastChar(n) \in 0..Len(file)
           /\ n < Len(file) => PastChar(n) = n + 1 /\ CharAt(n) = file[n + 1]
           /\ n = Len(file) => PastChar(n) = n /\ CharAt(n) = EOF
<1>1. Len(file) \in Nat
  BY DEF TypeOK
<1>2. n < Len(file) => n + 1 \in 1..Len(file) /\ file[n + 1] \in Char
  BY <1>1 DEF TypeOK
<1>. QED
  BY <1>1, <1>2 DEF CharAt, PastChar

\* The blanks in front of a line lie inside the file.
LEMMA IndentInside ==
    ASSUME TypeOK, NEW new \in Int, ReadsIndent(new)
    PROVE  /\ at + new \in 0..Len(file)
           /\ new \in Nat
           /\ new > 0 => at + new > 0 /\ file[at + new] = "blank"
<1>1. Len(file) \in Nat /\ at \in 0..Len(file)
  BY DEF TypeOK
<1>2. new \in 0..(Len(file) - at)
  BY DEF ReadsIndent
<1>3. at + new \in 0..Len(file) /\ new \in Nat
  BY <1>1, <1>2
<1>4. new > 0 => new \in 1..new /\ at + new > 0
  BY <1>1, <1>3
<1>5. \A i \in 1..new : file[at + i] = "blank"
  BY DEF ReadsIndent
<1>. QED
  BY <1>3, <1>4, <1>5

\* The character dpl_lex_char_to_token classifies and where it leaves the
\* stream.
LEMMA CharRead ==
    ASSUME TypeOK, ReadsChar
    PROVE  /\ c' \in Char \union {EOF}
           /\ at' \in 0..Len(file)
           /\ ~cacheDeindent
           /\ token # "END"
           /\ c' = EOF => /\ at' = Len(file)
                          /\ ~cacheParseindent => at = Len(file)
                          /\ cacheParseindent /\ indent1 # 0 =>
                                at' > 0 /\ file[at'] = "blank"
           /\ c' # EOF => at' > 0 /\ file[at'] = c'
<1>1. Len(file) \in Nat /\ at \in 0..Len(file) /\ EOF \notin Char
      /\ indent1 \in Nat /\ indent2 \in Nat
  BY EOFAssumption DEF TypeOK
<1>2. CASE /\ Running /\ ~cacheDeindent /\ ~cacheParseindent
           /\ c' = CharAt(at) /\ at' = PastChar(at)
  <2>1. /\ CharAt(at) \in Char \union {EOF}
        /\ PastChar(at) \in 0..Len(file)
        /\ at < Len(file) => PastChar(at) = at + 1
                             /\ CharAt(at) = file[at + 1]
        /\ at = Len(file) => PastChar(at) = at /\ CharAt(at) = EOF
    BY <1>1, Fgetc
  <2>2. at < Len(file) => file[at + 1] \in Char
    BY <1>1 DEF TypeOK
  <2>. QED
    BY <1>1, <1>2, <2>1, <2>2 DEF Running
<1>3. CASE /\ AtIndent(indent1 + indent2)
           /\ c' # "newline"
           /\ at' = PastChar(at + (indent1 + indent2))
  <2>. DEFINE new == indent1 + indent2
  <2>1. new \in Int /\ ReadsIndent(new) /\ Running /\ ~cacheDeindent
        /\ cacheParseindent
        /\ c' = CharAt(at + new) /\ at' = PastChar(at + new)
    BY <1>1, <1>3 DEF AtIndent
  <2>2. /\ at + new \in 0..Len(file)
        /\ new > 0 => at + new > 0 /\ file[at + new] = "blank"
    BY <2>1, IndentInside
  <2>3. indent1 # 0 => new > 0
    BY <1>1
  <2>4. /\ CharAt(at + new) \in Char \union {EOF}
        /\ PastChar(at + new) \in 0..Len(file)
        /\ at + new < Len(file) =>
              PastChar(at + new) = at + new + 1
              /\ CharAt(at + new) = file[at + new + 1]
        /\ at + new = Len(file) =>
              PastChar(at + new) = at + new /\ CharAt(at + new) = EOF
    BY <2>2, Fgetc
  <2>5. at + new < Len(file) => file[at + new + 1] \in Char
    BY <1>1, <2>2 DEF TypeOK
  <2>. HIDE DEF new
  <2>. QED
    BY <1>1, <2>1, <2>2, <2>3, <2>4, <2>5 DEF Running
<1>. QED
  BY <1>2, <1>3 DEF ReadsChar

----------------------------------------------------------------------------
\* The history variable extra is set only at the end of a file whose last
\* line has no newline and is in the second level.
ExtraAtEnd == extra => /\ at = Len(file)
                       /\ ~cacheParseindent
                       /\ indent2 = 0
                       /\ file[Len(file)] # "newline"

\* In a level, and past the indentation of a line, the character before the
\* stream belongs to that line.
InsideLine ==
    ~cacheParseindent /\ indent1 # 0 /\ token # "END" =>
        at > 0 /\ file[at] # "newline"

NothingCachedAtEnd == token = "END" => ~cacheDeindent

IInv == /\ TypeOK
        /\ LevelsNest
        /\ DepthExact
        /\ ExtraAtEnd
        /\ InsideLine
        /\ NothingCachedAtEnd

LEMMA InitInv == Init => IInv
<1>. SUFFICES ASSUME Init
              PROVE  IInv
  OBVIOUS
<1>1. file \in Seq(Char) /\ Len(file) \in Nat
  BY InputAssumption DEF Init
<1>2. TypeOK
  <2>1. /\ cacheDeindent \in BOOLEAN
        /\ cacheParseindent \in BOOLEAN
        /\ extra \in BOOLEAN
    BY DEF Init
  <2>. QED
    BY <1>1, <2>1 DEF Init, TypeOK, Token
<1>3. LevelsNest /\ DepthExact
  BY DEF Init, LevelsNest, DepthExact, One
<1>4. ExtraAtEnd /\ InsideLine /\ NothingCachedAtEnd
  BY DEF Init, ExtraAtEnd, InsideLine, NothingCachedAtEnd
<1>. QED
  BY <1>2, <1>3, <1>4 DEF IInv

LEMMA NextInv == IInv /\ [yylex]_vars => IInv'
<1>. SUFFICES ASSUME IInv, [yylex]_vars
              PROVE  IInv'
  OBVIOUS
<1>. USE DEF IInv, TypeOK, LevelsNest, DepthExact, ExtraAtEnd, InsideLine,
             NothingCachedAtEnd, Token, One, Return, Running
<1>0. /\ Len(file) \in Nat
      /\ EOF \notin Char
      /\ TypeOK
  BY EOFAssumption
<1>1. CASE UNCHANGED vars
  BY <1>1 DEF vars
<1>2. CASE ReturnCached
  <2>1. CharAt(at) \in Char \union {EOF} /\ PastChar(at) \in 0..Len(file)
        /\ (at = Len(file) => PastChar(at) = Len(file))
    BY <1>0, Fgetc
  <2>2. /\ token # "END" /\ cacheDeindent
        /\ ~cacheDeindent' /\ cacheDeindent' \in BOOLEAN
        /\ c' = CharAt(at) /\ at' = PastChar(at)
        /\ token' = "DEINDENT" /\ depth' = depth - 1
        /\ file' = file /\ indent1' = indent1 /\ indent2' = indent2
        /\ cacheParseindent' = cacheParseindent
        /\ lineno' = lineno /\ extra' = extra
    BY <1>2 DEF ReturnCached
  <2>11. TypeOK'
    BY <1>0, <2>1, <2>2
  <2>12. LevelsNest' /\ DepthExact'
    BY <1>0, <2>1, <2>2
  <2>13. ExtraAtEnd'
    BY <1>0, <2>1, <2>2
  <2>14. InsideLine' /\ NothingCachedAtEnd'
    BY <1>0, <2>1, <2>2
  <2>. QED
    BY <2>11, <2>12, <2>13, <2>14
<1>3. CASE BlankLine
  <2>1. PICK new \in 0..Len(file) : AtIndent(new) /\ at' = at + new + 1
    BY <1>3 DEF BlankLine
  <2>2. at + new \in 0..Len(file) /\ ReadsIndent(new)
        /\ CharAt(at + new) = "newline"
    BY <1>0, <1>3, <2>1, IndentInside DEF AtIndent, BlankLine
  <2>3. at + new < Len(file)
    BY <1>0, <2>2, Fgetc DEF Char
  <2>4. /\ token # "END" /\ ~cacheDeindent /\ cacheParseindent
        /\ c' = "newline" /\ lineno' = lineno + 1
        /\ token' = "NEWLINE" /\ depth' = depth
        /\ file' = file /\ indent1' = indent1 /\ indent2' = indent2
        /\ cacheDeindent' = cacheDeindent
        /\ cacheParseindent' = cacheParseindent /\ extra' = extra
    BY <1>3, <2>1 DEF BlankLine, AtIndent
  <2>. QED
    BY <1>0, <2>1, <2>2, <2>3, <2>4 DEF Char
<1>4. ASSUME NEW new \in 0..Len(file), ChangeIndent(new)
      PROVE  /\ at' \in 0..Len(file)
             /\ new > 0 => at' > 0 /\ file[at'] = "blank"
             /\ c' \in Char \union {EOF}
             /\ ~cacheDeindent /\ ~cacheParseindent' /\ ~extra /\ ~extra'
             /\ cacheParseindent' \in BOOLEAN /\ extra' \in BOOLEAN
             /\ file' = file /\ lineno' = lineno
  <2>1. ReadsIndent(new) /\ at' = at + new /\ c' = CharAt(at + new)
    BY <1>4 DEF ChangeIndent, AtIndent
  <2>2. /\ at + new \in 0..Len(file)
        /\ new > 0 => at + new > 0 /\ file[at + new] = "blank"
    BY <1>0, <2>1, IndentInside
  <2>3. CharAt(at + new) \in Char \union {EOF}
    BY <1>0, <2>2, Fgetc
  <2>. QED
    BY <1>4, <2>1, <2>2, <2>3 DEF ChangeIndent, AtIndent
<1>5. CASE \E new \in 0..Len(file) : Indent1(new)
  <2>1. PICK new \in 0..Len(file) : Indent1(new)
    BY <1>5
  <2>2. ChangeIndent(new) /\ new \in Nat
    BY <1>0, <2>1 DEF Indent1
  <2>3. indent1 = 0 /\ indent1' = new /\ indent2' = 0 /\ new # 0
        /\ cacheDeindent' = cacheDeindent
        /\ token' = "INDENT" /\ depth' = depth + 1
    BY <1>0, <2>1 DEF Indent1, ChangeIndent
  <2>. QED
    BY <1>0, <1>4, <2>2, <2>3
<1>6. CASE \E new \in 0..Len(file) : Deindent1(new)
  <2>1. PICK new \in 0..Len(file) : Deindent1(new)
    BY <1>6
  <2>2. ChangeIndent(new) /\ new \in Nat
    BY <1>0, <2>1 DEF Deindent1
  <2>3. indent1 # 0 /\ indent2 = 0 /\ indent1' = 0 /\ indent2' = 0
        /\ cacheDeindent' = cacheDeindent
        /\ token' = "DEINDENT" /\ depth' = depth - 1
    BY <1>0, <2>1 DEF Deindent1, ChangeIndent
  <2>. QED
    BY <1>0, <1>4, <2>2, <2>3
<1>7. CASE \E new \in 0..Len(file) : Indent2(new)
  <2>1. PICK new \in 0..Len(file) : Indent2(new)
    BY <1>7
  <2>2. ChangeIndent(new) /\ new \in Nat
    BY <1>0, <2>1 DEF Indent2
  <2>3. indent1 # 0 /\ indent2 = 0 /\ indent1' = indent1
        /\ new > indent1 /\ indent2' = new - indent1
        /\ cacheDeindent' = cacheDeindent
        /\ token' = "INDENT" /\ depth' = depth + 1
    BY <1>0, <2>1 DEF Indent2, ChangeIndent
  <2>. QED
    BY <1>0, <1>4, <2>2, <2>3
<1>8. CASE \E new \in 0..Len(file) : DeindentBoth(new)
  <2>1. PICK new \in 0..Len(file) : DeindentBoth(new)
    BY <1>8
  <2>2. ChangeIndent(new) /\ new \in Nat
    BY <1>0, <2>1 DEF DeindentBoth
  <2>3. indent2 # 0 /\ indent1' = 0 /\ indent2' = 0
        /\ cacheDeindent' /\ cacheDeindent' \in BOOLEAN
        /\ token' = "DEINDENT" /\ depth' = depth - 1
    BY <1>0, <2>1 DEF DeindentBoth, ChangeIndent
  <2>. QED
    BY <1>0, <1>4, <2>2, <2>3
<1>9. CASE \E new \in 0..Len(file) : Deindent2(new)
  <2>1. PICK new \in 0..Len(file) : Deindent2(new)
    BY <1>9
  <2>2. ChangeIndent(new) /\ new \in Nat
    BY <1>0, <2>1 DEF Deindent2
  <2>3. indent1 # 0 /\ indent2 # 0 /\ indent1' = indent1 /\ indent2' = 0
        /\ new = indent1 /\ cacheDeindent' = cacheDeindent
        /\ token' = "DEINDENT" /\ depth' = depth - 1
    BY <1>0, <2>1 DEF Deindent2, ChangeIndent
  <2>. QED
    BY <1>0, <1>4, <2>2, <2>3
<1>10. CASE \E new \in 0..Len(file) : IndentError(new)
  <2>1. PICK new \in 0..Len(file) : IndentError(new)
    BY <1>10
  <2>2. ChangeIndent(new) /\ new \in Nat
    BY <1>0, <2>1 DEF IndentError
  <2>3. indent1' = indent1 /\ indent2' = indent2
        /\ cacheDeindent' = cacheDeindent
        /\ token' = "END" /\ depth' = depth
    BY <1>0, <2>1 DEF IndentError, ChangeIndent
  <2>. QED
    BY <1>0, <1>4, <2>2, <2>3
<1>11. CASE NewLine
  <2>1. ReadsChar
    BY <1>11 DEF NewLine
  <2>2. extra => c' = EOF
    BY <1>0, <2>1, Fgetc DEF ReadsChar, AtIndent
  <2>3. c' = "newline" /\ cacheParseindent' = TRUE
        /\ lineno' = lineno + 1 /\ token' = "NEWLINE" /\ depth' = depth
        /\ file' = file /\ indent1' = indent1 /\ indent2' = indent2
        /\ cacheDeindent' = cacheDeindent /\ extra' = extra
    BY <1>11 DEF NewLine
  <2>4. /\ c' \in Char \union {EOF}
        /\ at' \in 0..Len(file)
        /\ ~cacheDeindent
        /\ token # "END"
        /\ c' = EOF => /\ at' = Len(file)
                       /\ ~cacheParseindent => at = Len(file)
                       /\ cacheParseindent /\ indent1 # 0 =>
                             at' > 0 /\ file[at'] = "blank"
        /\ c' # EOF => at' > 0 /\ file[at'] = c'
    BY <1>0, <2>1, CharRead
  <2>. QED
    BY <1>0, <2>2, <2>3, <2>4 DEF Char
<1>12. CASE Other
  <2>1. ReadsChar
    BY <1>12 DEF Other
  <2>2. extra => c' = EOF
    BY <1>0, <2>1, Fgetc DEF ReadsChar, AtIndent
  <2>3. c' \in {"blank", "text"} /\ cacheParseindent' = FALSE
        /\ lineno' = lineno /\ token' \in {"BLANK", "TEXT"}
        /\ depth' = depth
        /\ file' = file /\ indent1' = indent1 /\ indent2' = indent2
        /\ cacheDeindent' = cacheDeindent /\ extra' = extra
    BY <1>12 DEF Other
  <2>4. /\ c' \in Char \union {EOF}
        /\ at' \in 0..Len(file)
        /\ ~cacheDeindent
        /\ token # "END"
        /\ c' = EOF => /\ at' = Len(file)
                       /\ ~cacheParseindent => at = Len(file)
                       /\ cacheParseindent /\ indent1 # 0 =>
                             at' > 0 /\ file[at'] = "blank"
        /\ c' # EOF => at' > 0 /\ file[at'] = c'
    BY <1>0, <2>1, CharRead
  <2>. QED
    BY <1>0, <2>2, <2>3, <2>4 DEF Char
<1>13. CASE EOFLevel2
  <2>1. ReadsChar
    BY <1>13 DEF EOFLevel2, AtEOF
  <2>2. c' = EOF /\ ~cacheParseindent'
        /\ cacheParseindent' \in BOOLEAN
        /\ file' = file /\ lineno' = lineno
        /\ indent2 # 0 /\ indent2' = 0 /\ indent1' = indent1
        /\ cacheDeindent' /\ cacheDeindent' \in BOOLEAN
        /\ extra' /\ extra' \in BOOLEAN
        /\ token' = "DEINDENT" /\ depth' = depth - 1
    BY <1>13 DEF EOFLevel2, AtEOF
  <2>3. /\ c' \in Char \union {EOF}
        /\ at' \in 0..Len(file)
        /\ ~cacheDeindent
        /\ token # "END"
        /\ c' = EOF => /\ at' = Len(file)
                       /\ ~cacheParseindent => at = Len(file)
                       /\ cacheParseindent /\ indent1 # 0 =>
                             at' > 0 /\ file[at'] = "blank"
        /\ c' # EOF => at' > 0 /\ file[at'] = c'
    BY <1>0, <2>1, CharRead
  <2>11. TypeOK'
    BY <1>0, <2>2, <2>3
  <2>12. LevelsNest' /\ DepthExact'
    BY <1>0, <2>2, <2>3
  <2>13. ExtraAtEnd'
    BY <1>0, <2>2, <2>3
  <2>14. InsideLine' /\ NothingCachedAtEnd'
    BY <1>0, <2>2, <2>3
  <2>. QED
    BY <2>11, <2>12, <2>13, <2>14
<1>14. CASE EOFLevel1
  <2>1. ReadsChar
    BY <1>14 DEF EOFLevel1, AtEOF
  <2>2. c' = EOF /\ ~cacheParseindent'
        /\ cacheParseindent' \in BOOLEAN
        /\ file' = file /\ lineno' = lineno
        /\ indent1 # 0 /\ indent1' = 0 /\ indent2 = 0 /\ indent2' = 0
        /\ cacheDeindent' = cacheDeindent /\ extra' = extra
        /\ token' = "DEINDENT" /\ depth' = depth - 1
    BY <1>14 DEF EOFLevel1, AtEOF
  <2>3. /\ c' \in Char \union {EOF}
        /\ at' \in 0..Len(file)
        /\ ~cacheDeindent
        /\ token # "END"
        /\ c' = EOF => /\ at' = Len(file)
                       /\ ~cacheParseindent => at = Len(file)
                       /\ cacheParseindent /\ indent1 # 0 =>
                             at' > 0 /\ file[at'] = "blank"
        /\ c' # EOF => at' > 0 /\ file[at'] = c'
    BY <1>0, <2>1, CharRead
  <2>. QED
    BY <1>0, <2>2, <2>3 DEF Char
<1>15. CASE EOFLevel0
  <2>1. ReadsChar
    BY <1>15 DEF EOFLevel0, AtEOF
  <2>2. c' = EOF /\ ~cacheParseindent'
        /\ cacheParseindent' \in BOOLEAN
        /\ file' = file /\ lineno' = lineno
        /\ indent1' = indent1 /\ indent2' = indent2 /\ indent1 = 0
        /\ cacheDeindent' = cacheDeindent /\ extra' = extra
        /\ token' = "END" /\ depth' = depth
    BY <1>15 DEF EOFLevel0, AtEOF
  <2>3. /\ c' \in Char \union {EOF}
        /\ at' \in 0..Len(file)
        /\ ~cacheDeindent
        /\ token # "END"
        /\ c' = EOF => /\ at' = Len(file)
                       /\ ~cacheParseindent => at = Len(file)
                       /\ cacheParseindent /\ indent1 # 0 =>
                             at' > 0 /\ file[at'] = "blank"
        /\ c' # EOF => at' > 0 /\ file[at'] = c'
    BY <1>0, <2>1, CharRead
  <2>11. TypeOK'
    BY <1>0, <2>2, <2>3
  <2>12. LevelsNest' /\ DepthExact'
    BY <1>0, <2>2, <2>3
  <2>13. ExtraAtEnd'
    BY <1>0, <2>2, <2>3
  <2>14. InsideLine' /\ NothingCachedAtEnd'
    BY <1>0, <2>2, <2>3
  <2>. QED
    BY <2>11, <2>12, <2>13, <2>14
<1>. QED
  BY <1>1, <1>2, <1>3, <1>5, <1>6, <1>7, <1>8, <1>9, <1>10, <1>11, <1>12,
     <1>13, <1>14, <1>15, Cases

LEMMA Inductive == Spec => []IInv
BY InitInv, NextInv, PTL DEF Spec

\* The state of the lexer keeps its type: in particular the widths of the
\* levels never become negative.
THEOREM TypeCorrect == Spec => []TypeOK
<1>1. IInv => TypeOK
  BY DEF IInv
<1>. QED
  BY <1>1, Inductive, PTL

\* At every moment the grammar is as many levels deep as the lexer, when the
\* DEINDENT in the cache is counted.
THEOREM DepthCorrect == Spec => []DepthExact
<1>1. IInv => DepthExact
  BY DEF IInv
<1>. QED
  BY <1>1, Inductive, PTL

\* The second level is open only inside the first, and a DEINDENT is cached
\* only when both are closed or the file is at its end.
THEOREM NestingCorrect == Spec => []LevelsNest
<1>1. IInv => LevelsNest
  BY DEF IInv
<1>. QED
  BY <1>1, Inductive, PTL

\* The INDENT and DEINDENT tokens of a whole file match, unless the file ends
\* in the middle of a line of a description.
THEOREM BalanceCorrect == Spec => []Balanced
<1>1. IInv => Balanced
  BY DEF IInv, TypeOK, LevelsNest, DepthExact, ExtraAtEnd, NothingCachedAtEnd,
     Balanced, One
<1>. QED
  BY <1>1, Inductive, PTL

----------------------------------------------------------------------------
(* What becomes of the characters.  Indentation is only looked at in front  *)
(* of a line, and the DEINDENT that drops a character is only cached there. *)

BehindNewline == at > 0 /\ file[at] = "newline"

AtLine == /\ cacheParseindent => BehindNewline
          /\ cacheDeindent /\ at < Len(file) => BehindNewline
          /\ cacheDeindent => ~cacheParseindent

LEMMA InitAtLine == Init => AtLine
  BY DEF Init, AtLine

\* A line begins behind a newline.
LEMMA LineStarts ==
    ASSUME TypeOK, BehindNewline, NEW p \in (at + 1)..Len(file),
           \A i \in (at + 1)..(p - 1) : file[i] = "blank"
    PROVE  LineStart(p) = at + 1
<1>1. at \in Nat /\ p \in Nat /\ at + 1 <= p /\ at > 0
  BY DEF TypeOK, BehindNewline
<1>. DEFINE Starts(s) == /\ s = 1 \/ file[s - 1] = "newline"
                         /\ \A i \in s..(p - 1) : file[i] # "newline"
<1>2. at + 1 \in 1..p /\ Starts(at + 1)
  BY <1>1 DEF BehindNewline
<1>3. ASSUME NEW s \in 1..p, Starts(s)
      PROVE  s = at + 1
  <2>1. CASE s < at + 1
    <3>1. at \in s..(p - 1)
      BY <1>1, <2>1
    <3>. QED
      BY <1>3, <3>1 DEF BehindNewline
  <2>2. CASE s > at + 1
    <3>1. s - 1 \in (at + 1)..(p - 1) /\ s # 1
      BY <1>1, <2>2
    <3>. QED
      BY <1>3, <3>1
  <2>. QED
    BY <1>1, <2>1, <2>2
<1>4. LineStart(p) = CHOOSE s \in 1..p : Starts(s)
  BY DEF LineStart
<1>. HIDE DEF Starts
<1>. QED
  BY <1>2, <1>3, <1>4

\* What is counted as indentation.
LEMMA IndentRead ==
    ASSUME TypeOK, AtLine, NEW new \in Int, AtIndent(new)
    PROVE  /\ new \in Nat /\ at + new \in 0..Len(file)
           /\ \A p \in (at + 1)..(at + new) :
                 /\ file[p] = "blank"
                 /\ \A i \in LineStart(p)..p : file[i] = "blank"
                 /\ Column(p) = p - at
<1>1. /\ at \in Nat /\ Len(file) \in Nat
      /\ new \in Nat /\ at + new \in 0..Len(file)
      /\ \A i \in 1..new : file[at + i] = "blank"
      /\ BehindNewline
  BY IndentInside DEF AtIndent, ReadsIndent, TypeOK, AtLine
<1>2. ASSUME NEW p \in (at + 1)..(at + new)
      PROVE  file[p] = "blank"
  <2>1. p - at \in 1..new /\ at + (p - at) = p
    BY <1>1
  <2>. QED
    BY <1>1, <2>1
<1>3. ASSUME NEW p \in (at + 1)..(at + new)
      PROVE  /\ \A i \in LineStart(p)..p : file[i] = "blank"
             /\ Column(p) = p - at
  <2>1. /\ p \in (at + 1)..Len(file) /\ p \in Nat
        /\ \A i \in (at + 1)..p : i \in (at + 1)..(at + new)
    BY <1>1
  <2>2. LineStart(p) = at + 1
    <3>1. \A i \in (at + 1)..(p - 1) : file[i] = "blank"
      BY <1>1, <1>2, <2>1
    <3>. QED
      BY <1>1, <2>1, <3>1, LineStarts
  <2>3. Column(p) = p - at
    BY <1>1, <2>1, <2>2 DEF Column
  <2>. QED
    BY <1>2, <2>1, <2>2, <2>3
<1>. QED
  BY <1>1, <1>2, <1>3

LEMMA NextAtLine == IInv /\ AtLine /\ [yylex]_vars => AtLine'
<1>. SUFFICES ASSUME IInv, AtLine, [yylex]_vars
              PROVE  AtLine'
  OBVIOUS
<1>0. /\ TypeOK /\ at \in 0..Len(file) /\ Len(file) \in Nat
      /\ EOF \notin Char
  BY EOFAssumption DEF IInv, TypeOK
<1>1. CASE UNCHANGED vars
  BY <1>1 DEF vars, AtLine, BehindNewline
<1>2. CASE ReturnCached
  BY <1>2 DEF ReturnCached, AtLine
<1>3. CASE BlankLine
  <2>1. PICK new \in 0..Len(file) : AtIndent(new) /\ at' = at + new + 1
    BY <1>3 DEF BlankLine
  <2>2. /\ CharAt(at + new) = "newline" /\ ~cacheDeindent /\ file' = file
        /\ cacheDeindent' = cacheDeindent
    BY <1>3, <2>1 DEF BlankLine, AtIndent
  <2>3. new \in Int /\ at + new \in 0..Len(file)
    <3>1. new \in Int /\ ReadsIndent(new)
      BY <1>0, <2>1 DEF AtIndent
    <3>. QED
      BY <1>0, <3>1, IndentInside
  <2>4. file[at + new + 1] = "newline"
    <3>1. at + new < Len(file)
      <4>1. at + new = Len(file) => CharAt(at + new) = EOF
        BY <1>0, <2>3, Fgetc
      <4>2. EOF # "newline"
        BY <1>0 DEF Char
      <4>. QED
        BY <1>0, <2>2, <2>3, <4>1, <4>2
    <3>. QED
      BY <2>2, <3>1 DEF CharAt
  <2>5. at' > 0 /\ file'[at'] = "newline"
    BY <1>0, <2>1, <2>2, <2>3, <2>4
  <2>. QED
    BY <2>2, <2>5 DEF AtLine, BehindNewline
<1>4. ASSUME NEW new \in 0..Len(file), ChangeIndent(new)
      PROVE  /\ cacheParseindent' = FALSE /\ ~cacheDeindent
             /\ new = 0 => at' = at /\ file' = file /\ BehindNewline
  BY <1>0, <1>4 DEF ChangeIndent, AtIndent, AtLine
<1>5. CASE \E new \in 0..Len(file) :
              Indent1(new) \/ Deindent1(new) \/ Indent2(new) \/ Deindent2(new)
              \/ IndentError(new)
  <2>1. PICK new \in 0..Len(file) :
              /\ ChangeIndent(new)
              /\ cacheDeindent' = cacheDeindent
    BY <1>5 DEF Indent1, Deindent1, Indent2, Deindent2, IndentError
  <2>2. cacheParseindent' = FALSE /\ ~cacheDeindent
    BY <1>4, <2>1
  <2>. QED
    BY <2>1, <2>2 DEF AtLine
<1>6. CASE \E new \in 0..Len(file) : DeindentBoth(new)
  <2>1. PICK new \in 0..Len(file) : ChangeIndent(new) /\ new = 0
    BY <1>6 DEF DeindentBoth
  <2>. QED
    BY <1>4, <2>1 DEF AtLine, BehindNewline
<1>7. CASE NewLine
  <2>1. ReadsChar /\ c' = "newline" /\ cacheDeindent' = cacheDeindent
        /\ file' = file
    BY <1>7 DEF NewLine
  <2>2. /\ ~cacheDeindent
        /\ c' # EOF => at' > 0 /\ file[at'] = c'
    BY <1>0, <2>1, CharRead
  <2>3. c' # EOF
    BY <1>0, <2>1 DEF Char
  <2>. QED
    BY <2>1, <2>2, <2>3 DEF AtLine, BehindNewline
<1>8. CASE Other
  <2>1. ReadsChar /\ cacheDeindent' = cacheDeindent /\ cacheParseindent' = FALSE
    BY <1>8 DEF Other
  <2>2. ~cacheDeindent
    BY <1>0, <2>1, CharRead
  <2>. QED
    BY <2>1, <2>2 DEF AtLine
<1>9. CASE EOFLevel2 \/ EOFLevel1 \/ EOFLevel0
  <2>1. ReadsChar /\ c' = EOF /\ file' = file /\ cacheParseindent' = FALSE
    BY <1>9 DEF EOFLevel2, EOFLevel1, EOFLevel0, AtEOF
  <2>2. at' = Len(file)
    BY <1>0, <2>1, CharRead
  <2>. QED
    BY <1>0, <2>1, <2>2 DEF AtLine
<1>. QED
  BY <1>1, <1>2, <1>3, <1>5, <1>6, <1>7, <1>8, <1>9, Cases

Delivered ==
    \A p \in (at + 1)..at' :
        \/ p = at' /\ token' = CASE file[p] = "blank"   -> "BLANK"
                                 [] file[p] = "newline" -> "NEWLINE"
                                 [] file[p] = "text"    -> "TEXT"
        \/ /\ file[p] = "blank"
           /\ \A i \in LineStart(p)..p : file[i] = "blank"
           /\ \/ token' \in {"NEWLINE", "END"}
              \/ Column(p) <= indent1 + indent2
              \/ Column(p) <= indent1' + indent2'
        \/ /\ cacheDeindent
           /\ p = LineStart(p)

LEMMA NextDelivers == IInv /\ AtLine /\ [yylex]_vars => Delivered
<1>. SUFFICES ASSUME IInv, AtLine, [yylex]_vars, NEW p \in (at + 1)..at'
              PROVE
        \/ p = at' /\ token' = CASE file[p] = "blank"   -> "BLANK"
                                 [] file[p] = "newline" -> "NEWLINE"
                                 [] file[p] = "text"    -> "TEXT"
        \/ /\ file[p] = "blank"
           /\ \A i \in LineStart(p)..p : file[i] = "blank"
           /\ \/ token' \in {"NEWLINE", "END"}
              \/ Column(p) <= indent1 + indent2
              \/ Column(p) <= indent1' + indent2'
        \/ /\ cacheDeindent
           /\ p = LineStart(p)
  BY DEF Delivered
<1>0. /\ TypeOK /\ at \in 0..Len(file) /\ Len(file) \in Nat
      /\ EOF \notin Char /\ indent1 \in Nat /\ indent2 \in Nat
  BY EOFAssumption DEF IInv, TypeOK
<1>1. CASE UNCHANGED vars
  BY <1>0, <1>1 DEF vars
<1>2. CASE ReturnCached
  <2>1. at' = PastChar(at) /\ cacheDeindent
    BY <1>2 DEF ReturnCached
  <2>2. at < Len(file) /\ p = at + 1
    BY <1>0, <2>1 DEF PastChar
  <2>3. BehindNewline
    BY <2>1, <2>2 DEF AtLine
  <2>4. LineStart(p) = at + 1
    BY <1>0, <2>2, <2>3, LineStarts
  <2>. QED
    BY <2>1, <2>2, <2>4
<1>3. CASE BlankLine
  <2>1. PICK new \in 0..Len(file) : AtIndent(new) /\ at' = at + new + 1
    BY <1>3 DEF BlankLine
  <2>2. CharAt(at + new) = "newline" /\ token' = "NEWLINE"
    BY <1>3, <2>1 DEF BlankLine, AtIndent, Return
  <2>3. new \in Int /\ at + new \in 0..Len(file)
    <3>1. new \in Int /\ ReadsIndent(new)
      BY <1>0, <2>1 DEF AtIndent
    <3>. QED
      BY <1>0, <3>1, IndentInside
  <2>4. file[at + new + 1] = "newline"
    <3>1. at + new < Len(file)
      <4>1. at + new = Len(file) => CharAt(at + new) = EOF
        BY <1>0, <2>3, Fgetc
      <4>2. EOF # "newline"
        BY <1>0 DEF Char
      <4>. QED
        BY <1>0, <2>2, <2>3, <4>1, <4>2
    <3>. QED
      BY <2>2, <3>1 DEF CharAt
  <2>5. CASE p = at'
    BY <2>1, <2>2, <2>4, <2>5
  <2>6. CASE p # at'
    <3>1. p \in (at + 1)..(at + new)
      BY <1>0, <2>1, <2>3, <2>6
    <3>. QED
      BY <1>0, <2>1, <2>2, <2>3, <3>1, IndentRead
  <2>. QED
    BY <2>5, <2>6
<1>4. ASSUME NEW new \in 0..Len(file), ChangeIndent(new)
      PROVE  /\ file[p] = "blank"
             /\ \A i \in LineStart(p)..p : file[i] = "blank"
             /\ Column(p) = p - at
             /\ new # 0 /\ new \in Nat
             /\ p - at <= new
  <2>1. AtIndent(new) /\ at' = at + new /\ new \in Int
    BY <1>0, <1>4 DEF ChangeIndent
  <2>2. p \in (at + 1)..(at + new) /\ new # 0 /\ new \in Nat /\ p - at <= new
    BY <1>0, <2>1
  <2>. QED
    BY <1>0, <2>1, <2>2, IndentRead
<1>5. CASE \E new \in 0..Len(file) :
              Indent1(new) \/ Deindent1(new) \/ Indent2(new) \/ Deindent2(new)
              \/ IndentError(new) \/ DeindentBoth(new)
  <2>1. PICK new \in 0..Len(file) :
              Indent1(new) \/ Deindent1(new) \/ Indent2(new) \/ Deindent2(new)
              \/ IndentError(new) \/ DeindentBoth(new)
    BY <1>5
  <2>2. ChangeIndent(new)
    BY <2>1 DEF Indent1, Deindent1, Indent2, Deindent2, IndentError,
                DeindentBoth
  <2>3. /\ file[p] = "blank"
        /\ \A i \in LineStart(p)..p : file[i] = "blank"
        /\ Column(p) = p - at /\ p - at <= new
        /\ new # 0 /\ new \in Nat
    BY <1>4, <2>2
  <2>4. token' = "END" \/ indent1' + indent2' = new
    <3>1. CASE IndentError(new)
      BY <3>1 DEF IndentError, Return
    <3>2. CASE Indent1(new)
      BY <2>3, <3>2 DEF Indent1
    <3>3. CASE Indent2(new)
      BY <1>0, <2>3, <3>3 DEF Indent2
    <3>4. CASE Deindent2(new)
      BY <1>0, <2>3, <3>4 DEF Deindent2
    <3>5. CASE Deindent1(new) \/ DeindentBoth(new)
      BY <2>3, <3>5 DEF Deindent1, DeindentBoth
    <3>. QED
      BY <2>1, <3>1, <3>2, <3>3, <3>4, <3>5
  <2>. QED
    BY <2>3, <2>4
<1>6. CASE NewLine \/ Other \/ EOFLevel2 \/ EOFLevel1 \/ EOFLevel0
  <2>1. /\ ReadsChar
        /\ \/ c' = EOF
           \/ c' = "newline" /\ token' = "NEWLINE"
           \/ c' = "blank" /\ token' = "BLANK"
           \/ c' = "text" /\ token' = "TEXT"
    BY <1>6 DEF NewLine, Other, EOFLevel2, EOFLevel1, EOFLevel0, AtEOF, Return
  <2>2. /\ c' # EOF => at' > 0 /\ file[at'] = c'
        /\ at' \in 0..Len(file)
    BY <1>0, <2>1, CharRead
  <2>3. CASE /\ ~cacheParseindent
             /\ c' = CharAt(at) /\ at' = PastChar(at)
    <3>1. at < Len(file) /\ p = at'
      BY <1>0, <2>3 DEF PastChar
    <3>2. c' # EOF
      BY <1>0, <2>3, <3>1 DEF CharAt, TypeOK
    <3>. QED
      BY <2>1, <2>2, <3>1, <3>2
  <2>4. CASE /\ AtIndent(indent1 + indent2)
             /\ at' = PastChar(at + (indent1 + indent2))
    <3>. DEFINE new == indent1 + indent2
    <3>1. new \in Int /\ AtIndent(new) /\ c' = CharAt(at + new)
          /\ at' = PastChar(at + new)
      BY <1>0, <2>4 DEF AtIndent
    <3>2. /\ new \in Nat /\ at + new \in 0..Len(file)
          /\ \A q \in (at + 1)..(at + new) :
                /\ file[q] = "blank"
                /\ \A i \in LineStart(q)..q : file[i] = "blank"
                /\ Column(q) = q - at
      BY <1>0, <3>1, IndentRead
    <3>. HIDE DEF new
    <3>3. CASE p \in (at + 1)..(at + new)
      <4>1. p - at <= new
        BY <1>0, <3>2, <3>3
      <4>. QED
        BY <3>2, <3>3, <4>1 DEF new
    <3>4. CASE p \notin (at + 1)..(at + new)
      <4>1. at + new < Len(file) /\ p = at'
        BY <1>0, <3>1, <3>2, <3>4 DEF PastChar
      <4>2. c' # EOF
        <5>1. at + new + 1 \in 1..Len(file)
          BY <1>0, <3>2, <4>1
        <5>. QED
          BY <1>0, <3>1, <4>1, <5>1 DEF CharAt, TypeOK
      <4>. QED
        BY <2>1, <2>2, <4>1, <4>2
    <3>. QED
      BY <3>3, <3>4
  <2>. QED
    BY <2>1, <2>3, <2>4 DEF ReadsChar
<1>. QED
  BY <1>1, <1>2, <1>3, <1>5, <1>6, Cases

\* No character behind the indentation of its level is lost, or delivered out
\* of order, on any file; the one exception is the character that stands in
\* front of two DEINDENTs (parser.y:919-964).
THEOREM TextComplete == Spec => TextDelivered
<1>1. IInv /\ AtLine /\ [yylex]_vars => IInv' /\ AtLine'
  BY NextInv, NextAtLine
<1>2. IInv /\ AtLine /\ [yylex]_vars => Delivered
  BY NextDelivers
<1>3. Init => IInv /\ AtLine
  BY InitInv, InitAtLine
<1>4. TextDelivered <=> [][Delivered]_vars
  BY DEF TextDelivered, Delivered
<1>. QED
  BY <1>1, <1>2, <1>3, <1>4, PTL DEF Spec

\* A token for a character is returned right behind it.
LEMMA TokenRead ==
    ASSUME IInv, yylex, token' \in {"NEWLINE", "BLANK", "TEXT"}
    PROVE  at' \in 1..Len(file)
<1>1. at \in 0..Len(file) /\ Len(file) \in Nat
  BY DEF IInv, TypeOK
<1>2. CASE NewLine \/ Other
  <2>1. ReadsChar /\ c' # EOF
    BY <1>2 DEF NewLine, Other, EOF
  <2>. QED
    BY <1>1, <2>1, CharRead DEF IInv
<1>3. CASE BlankLine
  <2>1. PICK new \in 0..Len(file) :
            AtIndent(new) /\ at' = at + new + 1 /\ c' # EOF
    BY <1>3 DEF BlankLine, EOF
  <2>2. at + new \in 0..Len(file) /\ CharAt(at + new) # EOF
    BY <1>1, <2>1, IndentInside DEF AtIndent, IInv
  <2>. QED
    BY <1>1, <2>1, <2>2 DEF CharAt
<1>4. CASE ~(BlankLine \/ NewLine \/ Other)
  <2>1. token' \notin {"NEWLINE", "BLANK", "TEXT"}
    BY <1>4, Cases DEF Indent1, Deindent1, Indent2, DeindentBoth, Deindent2,
       IndentError, EOFLevel2, EOFLevel1, EOFLevel0, ReturnCached, Return
  <2>. QED
    BY <2>1
<1>. QED
  BY <1>2, <1>3, <1>4
=============================================================================
