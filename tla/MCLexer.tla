------------------------------ MODULE MCLexer ------------------------------
(* Instance of Lexer: every text of at most MaxLength characters of a small  *)
(* alphabet, and every such text behind a byte order mark.                   *)
EXTENDS Lexer, SequencesExt

CONSTANT MaxLength

MCLetters == {"e", "x", "_"}
MCDigits == {"1"}
\* A character of every class the lexer tells apart, and '#', which it knows nothing of.
Alphabet == {"e", "x", "1", ".", "-", ">", "\"", "\\", "/", "\n", "#"}
Texts == UNION {[1..n -> Alphabet] : n \in 0..MaxLength}
MCSources == Texts \union {<<Bom>> \o t : t \in {u \in Texts : Len(u) <= 3}}
=============================================================================
