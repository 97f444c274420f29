------------------------------ MODULE MCLexer ------------------------------
(* Every file of up to MaxLen characters in which the first line is empty, *)
(* and every file of up to half that length.  Ten characters hold a line   *)
(* in each of the two levels and the start of one back in none.            *)
EXTENDS Lexer, SequencesExt

CONSTANT MaxLen

Files(n) == BoundedSeq({"blank", "newline", "text"}, n)

MCInput == {<<"newline">> \o s : s \in Files(MaxLen - 1)}
               \union Files(MaxLen \div 2)

\* Files that hold the one line the violated claim is about.
DropInput == {<<"newline", "blank", "text", "newline", "blank", "blank",
                "text">> \o s : s \in Files(4)}
=============================================================================
