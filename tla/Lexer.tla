------------------------------- MODULE Lexer -------------------------------
(***************************************************************************)
(* The lexer of dxxcpp (tool/dxxcpp/src/Lexer.cpp): one turn of the loop   *)
(* of tokenize() is one action, in the order in which the loop tries them. *)
(* A character is a string of length one; a byte order mark, three bytes   *)
(* in the file, is one character here.                                     *)
(***************************************************************************)
EXTENDS Integers, Sequences, FiniteSets, FiniteSetsExt

CONSTANTS Letters,      \* what isalpha() accepts and '_'
          Digits,       \* '0' to '9'
          Sources       \* the texts: sequences of characters

ASSUME SourcesAssumption == Sources \subseteq Seq(STRING) /\ "\n" \notin Letters \union Digits

VARIABLES src, pos, line, col, tokens, errors, done

vars == <<src, pos, line, col, tokens, errors, done>>

Blanks == {" ", "\t", "\r", "\n"}
Symbols == {";", ",", ".", "=", "@", "{", "}", "(", ")", "<", ">"}
IdentBody == Letters \union Digits
Signs == {"+", "-"}
Exponents == {"e", "E", "p", "P"}
Bom == "BOM"
Quote == "\""

Peek(ahead) == IF pos + 1 + ahead \in 1..Len(src) THEN src[pos + 1 + ahead] ELSE "\\0"
\* The end of the longest run from position k on in which every position satisfies Goes.
RunEnd(k, Goes(_)) == Min({i \in k..Len(src) + 1 : i = Len(src) + 1 \/ ~Goes(i)}) - 1

-----------------------------------------------------------------------------
\* What each kind of token takes; pos is the number of characters taken so far.
IsComment == Peek(0) = "/" /\ Peek(1) = "/"
IsNumber ==
    \/ Peek(0) \in Digits
    \/ Peek(0) = "." /\ Peek(1) \in Digits
    \/ /\ Peek(0) \in Signs
       /\ Peek(1) \in Digits \/ (Peek(1) = "." /\ Peek(2) \in Digits)
IsArrow == Peek(0) = "-" /\ Peek(1) = ">"

CommentEnd == RunEnd(pos + 1, LAMBDA k : src[k] # "\n")
IdenEnd == RunEnd(pos + 1, LAMBDA k : src[k] \in IdentBody)
NumberEnd ==
    RunEnd(IF Peek(0) \in Signs THEN pos + 2 ELSE pos + 1,
           LAMBDA k : \/ src[k] \in IdentBody \union {"."}
                      \/ src[k] \in Signs /\ k > 1 /\ src[k - 1] \in Exponents)
\* A character of the string that starts at pos + 1 is escaped when the backslashes right
\* before it cannot be put in pairs.
Escaped(k) == Cardinality({j \in pos + 2..k - 1 : \A i \in j..k - 1 : src[i] = "\\"}) % 2 = 1
StringTo(inside) ==
    IF inside < Len(src) /\ src[inside + 1] = Quote THEN [last |-> inside + 1, closed |-> TRUE]
    ELSE [last |-> inside, closed |-> FALSE]
\* Faulty variant for the mutants: a backslash hides whatever follows it.
StringEndAcross == StringTo(RunEnd(pos + 2, LAMBDA k : src[k] \notin {Quote, "\n"} \/ Escaped(k)))
\* The last character of the string that starts at pos + 1, and whether it was closed.
StringEnd ==
    StringTo(RunEnd(pos + 2, LAMBDA k : src[k] \notin {Quote, "\n"} \/ (src[k] = Quote /\ Escaped(k))))

-----------------------------------------------------------------------------
Init ==
    /\ src \in Sources
    /\ pos = IF src # <<>> /\ src[1] = Bom THEN 1 ELSE 0
    /\ line = 1 /\ col = 1
    /\ tokens = <<>> /\ errors = <<>> /\ done = FALSE

\* Faulty variant for the mutants: the column is not reset at a line break.
AdvanceInLine(last) ==
    /\ pos' = last
    /\ line' = line + Cardinality({k \in pos + 1..last : src[k] = "\n"})
    /\ col' = col + (last - pos)
    /\ UNCHANGED <<src, done>>
\* The cursor goes on to have taken last characters; a line break resets the column.
Advance(last) ==
    LET breaks == {k \in pos + 1..last : src[k] = "\n"}
    IN  /\ pos' = last
        /\ line' = line + Cardinality(breaks)
        /\ col' = IF breaks = {} THEN col + (last - pos) ELSE last - Max(breaks) + 1
        /\ UNCHANGED <<src, done>>

Report == errors' = Append(errors, [at |-> pos + 1, line |-> line, col |-> col])
Take(kind, last) ==
    /\ tokens' = Append(tokens, [kind |-> kind, from |-> pos + 1, to |-> last,
                                 line |-> line, col |-> col])
    /\ Advance(last)

Blank == Peek(0) \in Blanks /\ Advance(pos + 1) /\ UNCHANGED <<tokens, errors>>
Comment == IsComment /\ Advance(CommentEnd) /\ UNCHANGED <<tokens, errors>>
Iden == Peek(0) \in Letters /\ Take("Iden", IdenEnd) /\ UNCHANGED errors
Number == IsNumber /\ Take("Number", NumberEnd) /\ UNCHANGED errors
String ==
    /\ Peek(0) = Quote
    /\ Take("String", StringEnd.last)
    /\ IF StringEnd.closed THEN UNCHANGED errors ELSE Report
Arrow == IsArrow /\ Take("Arrow", pos + 2) /\ UNCHANGED errors
Symbol == Peek(0) \in Symbols /\ ~IsNumber /\ Take(Peek(0), pos + 1) /\ UNCHANGED errors
\* Faulty variant for the mutants: what is not known is skipped without a word.
UnexpectedSilently ==
    /\ Peek(0) \notin Blanks \union IdentBody \union Symbols \union {Quote}
    /\ ~IsComment /\ ~IsNumber /\ ~IsArrow
    /\ Advance(pos + 1) /\ UNCHANGED <<tokens, errors>>
Unexpected ==
    /\ Peek(0) \notin Blanks \union IdentBody \union Symbols \union {Quote}
    /\ ~IsComment /\ ~IsNumber /\ ~IsArrow
    /\ Report /\ Advance(pos + 1) /\ UNCHANGED tokens
\* The End token.
Finish ==
    /\ done' = TRUE
    /\ tokens' = Append(tokens, [kind |-> "End", from |-> pos + 1, to |-> pos,
                                 line |-> line, col |-> col])
    /\ UNCHANGED <<src, pos, line, col, errors>>

Turn == Blank \/ Comment \/ Iden \/ Number \/ String \/ Arrow \/ Symbol \/ Unexpected
Next ==
    \/ pos < Len(src) /\ Turn
    \/ pos >= Len(src) /\ ~done /\ Finish

Spec == Init /\ [][Next]_vars

-----------------------------------------------------------------------------
\* The characters of a token, and those the lexer complained about.
InToken(k) == \E i \in DOMAIN tokens : k \in tokens[i].from..tokens[i].to
Reported(k) == \E i \in DOMAIN errors : errors[i].at = k
\* A comment starts at two slashes outside of every token and goes to the end of its line.
InComment(k) ==
    \E j \in 1..k : /\ j < Len(src) /\ src[j] = "/" /\ src[j + 1] = "/" /\ ~InToken(j)
                    /\ \A i \in j..k : src[i] # "\n"

(* Nothing of a source is dropped in silence: when the lexer is through,     *)
(* every character belongs to a token, to a comment or to the white space,   *)
(* or was reported, and no character belongs to two tokens (tokenize()       *)
(* skips what it does not know and goes on).                                 *)
NothingIsLost ==
    done => /\ \A k \in 1..Len(src) :
                   InToken(k) \/ src[k] \in Blanks \union {Bom} \/ InComment(k) \/ Reported(k)
            /\ \A i, j \in DOMAIN tokens : i < j => tokens[i].to < tokens[j].from

\* The line and the column a reader counts for position k.
LineOf(k) == 1 + Cardinality({i \in 1..k - 1 : src[i] = "\n"})
ColOf(k) ==
    LET starts == {i \in 1..k - 1 : src[i] = "\n" \/ (i = 1 /\ src[i] = Bom)}
    IN  IF starts = {} THEN k ELSE k - Max(starts)

(* Every token and every error carries the line and the column at which it   *)
(* starts, whatever was scanned before it (the cursor counts as it goes and  *)
(* never looks back), and the End token those of the end of the file.        *)
PositionsAreRight ==
    /\ \A i \in DOMAIN tokens : /\ tokens[i].line = LineOf(tokens[i].from)
                                /\ tokens[i].col = ColOf(tokens[i].from)
    /\ \A i \in DOMAIN errors : /\ errors[i].line = LineOf(errors[i].at)
                                /\ errors[i].col = ColOf(errors[i].at)

(* The lexer starts every line afresh: no token, comment or broken string    *)
(* takes the line break with it, so an error on one line cannot change what  *)
(* is read from the next.                                                    *)
LinesAreIndependent ==
    [][\A k \in pos + 1..pos' : src[k] = "\n" => k = pos + 1 /\ pos' = k]_vars
=============================================================================
