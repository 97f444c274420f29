------------------------------- MODULE Lexer -------------------------------
(***************************************************************************)
(* The lexer of src/src/parser.y (yylex and the two functions it calls):   *)
(* it turns the characters of a file into the tokens of the grammar, two   *)
(* levels of indentation into INDENT and DEINDENT tokens.  A call of yylex *)
(* is one action; calls go on until one returns 0, the end of the input.   *)
(***************************************************************************)
EXTENDS Integers, Sequences

CONSTANTS Input  \* the files: sequences of characters

\* Blanks are indentation, the other characters stand for themselves.
Char == {"blank", "newline", "text"}

ASSUME InputAssumption == Input \subseteq Seq(Char)

VARIABLES file,              \* the characters of ctx->file, never changed
          at,                \* how many of them the stream is past
          c,                 \* ctx->c
          indent1,           \* ctx->indent1, 0 outside of the first level
          indent2,           \* ctx->indent2, 0 outside of the second level
          cacheDeindent,     \* ctx->cache_deindent
          cacheParseindent,  \* ctx->cache_parseindent
          lineno,            \* ctx->lineno
          token,             \* the last token returned, "none" at first
          depth,             \* history: INDENT tokens less DEINDENT tokens
          extra              \* history: a DEINDENT too many was announced

vars == <<file, at, c, indent1, indent2, cacheDeindent, cacheParseindent,
          lineno, token, depth, extra>>

EOF == "EOF"
ASSUME EOFAssumption == EOF \notin Char

Init == /\ file \in Input
        /\ at = 0
        /\ c = EOF
        /\ indent1 = 0
        /\ indent2 = 0
        /\ cacheDeindent = FALSE
        /\ cacheParseindent = FALSE
        /\ lineno = 1
        /\ token = "none"
        /\ depth = 0
        /\ extra = FALSE

\* What fgetc returns when the stream is past n characters, and what the
\* stream is past then; at the end of the file it stays where it is.
CharAt(n) == IF n < Len(file) THEN file[n + 1] ELSE EOF
PastChar(n) == IF n < Len(file) THEN n + 1 ELSE n

\* The loop of yylex over the blanks of a line that stops at the width of the
\* second level: it counts new blanks.
ReadsIndent(new) ==
    /\ new \in 0..(Len(file) - at)
    /\ \A i \in 1..new : file[at + i] = "blank"
    /\ \/ CharAt(at + new) # "blank"
       \/ indent2 > 0 /\ new = indent1 + indent2
    /\ indent2 > 0 => new <= indent1 + indent2

\* Returning a token, with the levels it opens or closes.
Return(tok) == /\ token' = tok
               /\ depth' = CASE tok = "INDENT"   -> depth + 1
                             [] tok = "DEINDENT" -> depth - 1
                             [] OTHER            -> depth

Running == token # "END"

----------------------------------------------------------------------------
\* The second DEINDENT of two.  The character read first is not put back.
ReturnCached == /\ Running
                /\ cacheDeindent
                /\ c' = CharAt(at)
                /\ at' = PastChar(at)
                /\ cacheDeindent' = FALSE
                /\ Return("DEINDENT")
                /\ UNCHANGED <<file, indent1, indent2, cacheParseindent,
                               lineno, extra>>

\* At the start of a line: its indentation, and the character behind it.
AtIndent(new) == /\ Running
                 /\ ~cacheDeindent
                 /\ cacheParseindent
                 /\ ReadsIndent(new)
                 /\ c' = CharAt(at + new)

\* A line of nothing but blanks is a NEWLINE and changes no level.
BlankLine == /\ \E new \in 0..Len(file) :
                    /\ AtIndent(new)
                    /\ at' = at + new + 1
             /\ c' = "newline"
             /\ lineno' = lineno + 1
             /\ Return("NEWLINE")
             /\ UNCHANGED <<file, indent1, indent2, cacheDeindent,
                            cacheParseindent, extra>>

\* Mutant of ChangeIndent: the character is not put back.
ChangeIndentEats(new) == /\ AtIndent(new)
                         /\ c' # "newline"
                         /\ new # indent1 + indent2
                         /\ at' = PastChar(at + new)
                         /\ cacheParseindent' = FALSE
                         /\ UNCHANGED <<file, lineno, extra>>

(***************************************************************************)
(* dpl_lex_change_indent, called for a line whose indentation is not that  *)
(* of the levels that are open.  The character behind it is put back.      *)
(***************************************************************************)
ChangeIndent(new) == /\ AtIndent(new)
                     /\ c' # "newline"
                     /\ new # indent1 + indent2
                     /\ at' = at + new
                     /\ cacheParseindent' = FALSE
                     /\ UNCHANGED <<file, lineno, extra>>

Indent1(new) == /\ ChangeIndent(new)
                /\ indent1 = 0
                /\ indent1' = new
                /\ indent2' = 0
                /\ Return("INDENT")
                /\ UNCHANGED cacheDeindent

Deindent1(new) == /\ ChangeIndent(new)
                  /\ indent1 # 0 /\ new = 0 /\ indent2 = 0
                  /\ indent1' = 0
                  /\ indent2' = 0
                  /\ Return("DEINDENT")
                  /\ UNCHANGED cacheDeindent

\* Mutant of Indent2: the width of the second level has the wrong sign.
Indent2Negative(new) == /\ ChangeIndent(new)
                        /\ indent1 # 0 /\ new > indent1 /\ indent2 = 0
                        /\ indent2' = indent1 - new
                        /\ Return("INDENT")
                        /\ UNCHANGED <<indent1, cacheDeindent>>

Indent2(new) == /\ ChangeIndent(new)
                /\ indent1 # 0 /\ new > indent1 /\ indent2 = 0
                /\ indent2' = new - indent1
                /\ Return("INDENT")
                /\ UNCHANGED <<indent1, cacheDeindent>>

\* Mutant of DeindentBoth: no second DEINDENT is cached.
DeindentOnce(new) == /\ ChangeIndent(new)
                     /\ indent2 # 0 /\ new = 0
                     /\ indent1' = 0
                     /\ indent2' = 0
                     /\ Return("DEINDENT")
                     /\ UNCHANGED cacheDeindent

DeindentBoth(new) == /\ ChangeIndent(new)
                     /\ indent2 # 0 /\ new = 0
                     /\ indent1' = 0
                     /\ indent2' = 0
                     /\ cacheDeindent' = TRUE
                     /\ Return("DEINDENT")

Deindent2(new) == /\ ChangeIndent(new)
                  /\ indent1 # 0 /\ indent2 # 0 /\ new = indent1
                  /\ indent2' = 0
                  /\ Return("DEINDENT")
                  /\ UNCHANGED <<indent1, cacheDeindent>>

\* No level fits: an error message, and 0 as the token.
IndentError(new) == /\ ChangeIndent(new)
                    /\ indent1 # 0 /\ new # 0
                    /\ IF indent2 = 0 THEN new < indent1 ELSE new # indent1
                    /\ Return("END")
                    /\ UNCHANGED <<indent1, indent2, cacheDeindent>>

IndentLine == \E new \in 0..Len(file) :
                 \/ Indent1(new)
                 \/ Deindent1(new)
                 \/ Indent2(new)
                 \/ DeindentBoth(new)
                 \/ Deindent2(new)
                 \/ IndentError(new)

----------------------------------------------------------------------------
(***************************************************************************)
(* dpl_lex_char_to_token, called with the next character of the line, at   *)
(* its start when the indentation is that of the open levels.              *)
(***************************************************************************)
ReadsChar == \/ /\ Running
                /\ ~cacheDeindent
                /\ ~cacheParseindent
                /\ c' = CharAt(at)
                /\ at' = PastChar(at)
             \/ LET new == indent1 + indent2
                IN  /\ AtIndent(new)
                    /\ c' # "newline"
                    /\ at' = PastChar(at + new)

NewLine == /\ ReadsChar
           /\ c' = "newline"
           /\ cacheParseindent' = TRUE
           /\ lineno' = lineno + 1
           /\ Return("NEWLINE")
           /\ UNCHANGED <<file, indent1, indent2, cacheDeindent, extra>>

Other == /\ ReadsChar
         /\ c' \in {"blank", "text"}
         /\ cacheParseindent' = FALSE
         /\ Return(IF c' = "blank" THEN "BLANK" ELSE "TEXT")
         /\ UNCHANGED <<file, indent1, indent2, cacheDeindent, lineno, extra>>

\* The end of the file closes the levels that are open.  In the second level
\* it announces a second DEINDENT, and leaves the first level open on top.
AtEOF == /\ ReadsChar
         /\ c' = EOF
         /\ cacheParseindent' = FALSE
         /\ UNCHANGED <<file, lineno>>

EOFLevel2 == /\ AtEOF
             /\ indent2 # 0
             /\ cacheDeindent' = TRUE
             /\ indent2' = 0
             /\ extra' = TRUE
             /\ Return("DEINDENT")
             /\ UNCHANGED indent1

\* Mutant of EOFLevel1: the first level is not closed.
EOFUnclosed == /\ AtEOF
               /\ indent2 = 0
               /\ indent1 # 0
               /\ indent1' = 0
               /\ Return("END")
               /\ UNCHANGED <<indent2, cacheDeindent, extra>>

EOFLevel1 == /\ AtEOF
             /\ indent2 = 0
             /\ indent1 # 0
             /\ indent1' = 0
             /\ Return("DEINDENT")
             /\ UNCHANGED <<indent2, cacheDeindent, extra>>

EOFLevel0 == /\ AtEOF
             /\ indent2 = 0
             /\ indent1 = 0
             /\ Return("END")
             /\ UNCHANGED <<indent1, indent2, cacheDeindent, extra>>

CharToToken == NewLine \/ Other \/ EOFLevel2 \/ EOFLevel1 \/ EOFLevel0

yylex == ReturnCached \/ BlankLine \/ IndentLine \/ CharToToken

\* yyparse asks for tokens until it has seen the end of the input.
Spec == Init /\ [][yylex]_vars /\ WF_vars(yylex)

----------------------------------------------------------------------------
Token == {"none", "INDENT", "DEINDENT", "NEWLINE", "BLANK", "TEXT", "END"}

TypeOK == /\ file \in Seq(Char)
          /\ at \in 0..Len(file)
          /\ c \in Char \union {EOF}
          /\ indent1 \in Nat
          /\ indent2 \in Nat
          /\ cacheDeindent \in BOOLEAN
          /\ cacheParseindent \in BOOLEAN
          /\ lineno \in Nat \ {0}
          /\ token \in Token
          /\ depth \in Int
          /\ extra \in BOOLEAN

One(condition) == IF condition THEN 1 ELSE 0

\* The levels the grammar is in, which follow from the tokens it was given,
\* are the levels the lexer is in, with the DEINDENT it has still to return:
\* the two indentation widths and the cache are one another's account.
DepthExact ==
    depth = One(indent1 # 0) + One(indent2 # 0) + One(cacheDeindent)
                - One(extra)

\* There is no second level outside of a first, and both are closed while a
\* DEINDENT waits in the cache, at the end of a file aside.
LevelsNest == /\ indent2 # 0 => indent1 # 0
              /\ cacheDeindent => indent2 = 0
              /\ cacheDeindent /\ indent1 # 0 => extra

\* When the lexer comes to the end of a file without an indentation error,
\* every INDENT was closed by one DEINDENT, unless the last line of the file
\* is part of a description and has no newline.
Balanced ==
    token = "END" /\ indent1 = 0 =>
        /\ depth = 0 - One(extra)
        /\ extra => file[Len(file)] # "newline"

LineStart(p) ==
    CHOOSE s \in 1..p :
        /\ s = 1 \/ file[s - 1] = "newline"
        /\ \A i \in s..(p - 1) : file[i] # "newline"

Column(p) == p - LineStart(p) + 1

\* The characters of a line behind the indentation of its level reach the
\* grammar one by one and in order, but for the first character of a line that
\* closes both levels at once.
TextDelivered ==
    [][\A p \in (at + 1)..at' :
          \/ p = at' /\ token' = CASE file[p] = "blank"   -> "BLANK"
                                   [] file[p] = "newline" -> "NEWLINE"
                                   [] file[p] = "text"    -> "TEXT"
          \/ /\ file[p] = "blank"
             /\ \A i \in LineStart(p)..p : file[i] = "blank"
             /\ \/ token' \in {"NEWLINE", "END"}
                \/ Column(p) <= indent1 + indent2
                \/ Column(p) <= indent1' + indent2'
          \/ /\ cacheDeindent
             /\ p = LineStart(p)]_vars

\* parser.y:949-950: when an indent or deindent is returned, the character
\* retrieved last is relevant for further tokens, so that it is put back.
IndentConsumesBlanks ==
    [][token' \in {"INDENT", "DEINDENT"} =>
          \A p \in (at + 1)..at' : file[p] = "blank"]_vars
=============================================================================
