---------------------------- MODULE DxxcppProofs ----------------------------
(***************************************************************************)
(* Theorems about modules Lexer, Driver and Parser, the parts of dxxcpp    *)
(* that need no RECURSIVE operator: for every source and every alphabet;   *)
(* for every command line and whatever the parser and the analysis find;   *)
(* for every file of tokens, of any length and any nesting.                *)
(***************************************************************************)
EXTENDS Lexer, Parser, Driver, FiniteSetTheorems, WellFoundedInduction, SequenceTheorems, TLAPS

-----------------------------------------------------------------------------
(* Least and greatest elements                                             *)

LEMMA MinOfNaturals ==
    ASSUME NEW S, S \subseteq Nat, S # {}
    PROVE  Min(S) \in S /\ \A y \in S : Min(S) <= y
  <1> DEFINE R == {ss \in Nat \X Nat : ss[1] < ss[2]}
  <1>1. IsWellFoundedOn(R, Nat)
    BY NatLessThanWellFounded DEF OpToRel
  <1>r. \A y, x \in Nat : y < x => <<y, x>> \in R
    OBVIOUS
  <1> HIDE DEF R
  <1>2. PICK x \in S : \A y \in S : ~(<<y, x>> \in R)
    BY <1>1, WFMin
  <1>3. ASSUME NEW y \in S PROVE x <= y
    <2>1. x \in Nat /\ y \in Nat
      OBVIOUS
    <2>2. ~(y < x)
      BY <1>2, <1>r, <2>1
    <2> QED
      BY <2>1, <2>2
  <1> QED
    BY <1>3 DEF Min

LEMMA MaxOfNaturals ==
    ASSUME NEW S, S \subseteq Nat, S # {}, NEW n \in Nat, \A y \in S : y <= n
    PROVE  Max(S) \in S /\ \A y \in S : Max(S) >= y
  <1> DEFINE T == {m \in Nat : \A y \in S : y <= m}
             x == Min(T)
  <1>1. T \subseteq Nat /\ n \in T
    OBVIOUS
  <1>2. x \in T /\ \A y \in T : x <= y
    BY <1>1, MinOfNaturals
  <1> HIDE DEF x
  <1>3. x \in S
    <2> SUFFICES ASSUME x \notin S PROVE FALSE
      OBVIOUS
    <2>1. \A y \in S : y <= x - 1
      BY <1>2
    <2>2. PICK s \in S : TRUE
      OBVIOUS
    <2>3. x - 1 \in Nat
      BY <1>2, <2>1, <2>2
    <2>4. x - 1 \in T
      BY <2>1, <2>3
    <2>5. x <= x - 1
      BY <1>2, <2>4
    <2> QED
      BY <1>2, <2>5
  <1>4. \A y \in S : x >= y
    BY <1>2
  <1> QED
    BY <1>3, <1>4 DEF Max

-----------------------------------------------------------------------------
(* What a turn of the loop takes                                           *)

\* The end of the longest run from k on of positions in G.
RunIn(k, G) == Min({i \in k..Len(src) + 1 : i = Len(src) + 1 \/ i \notin G}) - 1

LEMMA RunBounds ==
    ASSUME src \in Seq(STRING), NEW k \in 1..Len(src) + 1, NEW G
    PROVE  /\ RunIn(k, G) \in k - 1..Len(src)
           /\ \A i \in k..RunIn(k, G) : i \in G
           /\ k \in G /\ k <= Len(src) => k <= RunIn(k, G)
  <1> DEFINE S == {i \in k..Len(src) + 1 : i = Len(src) + 1 \/ i \notin G}
             m == Min(S)
  <1>1. Len(src) \in Nat
    BY LenProperties
  <1>2. S \subseteq Nat /\ Len(src) + 1 \in S
    BY <1>1
  <1>3. m \in S /\ \A y \in S : m <= y
    BY <1>2, MinOfNaturals
  <1>4. RunIn(k, G) = m - 1
    BY DEF RunIn
  <1>5. m \in k..Len(src) + 1 /\ (m = Len(src) + 1 \/ m \notin G)
    BY <1>3
  <1>6. ASSUME NEW i \in k..m - 1 PROVE i \in G
    <2>1. i \in k..Len(src) + 1 /\ i < m
      BY <1>1, <1>5
    <2>2. i \notin S
      BY <1>3, <2>1
    <2> QED
      BY <2>1, <2>2
  <1> HIDE DEF m
  <1>7. m - 1 \in k - 1..Len(src)
    BY <1>1, <1>5
  <1>8. ASSUME k \in G, k <= Len(src) PROVE k <= m - 1
    BY <1>1, <1>5, <1>8
  <1> QED
    BY <1>4, <1>6, <1>7, <1>8

LEMMA CommentRun ==
    ASSUME src \in Seq(STRING), pos \in Nat
    PROVE  CommentEnd = RunIn(pos + 1, {i \in 1..Len(src) : src[i] # "\n"})
  <1>1. Len(src) \in Nat
    BY LenProperties
  <1>2. CommentEnd = Min({i \in pos + 1..Len(src) + 1 : i = Len(src) + 1 \/ ~(src[i] # "\n")}) - 1
    BY DEF CommentEnd, RunEnd
  <1>3. \A i \in pos + 1..Len(src) + 1 : i = Len(src) + 1 \/ i \in 1..Len(src)
    BY <1>1
  <1>4. {i \in pos + 1..Len(src) + 1 : i = Len(src) + 1 \/ ~(src[i] # "\n")}
        = {i \in pos + 1..Len(src) + 1 : i = Len(src) + 1 \/ i \notin {j \in 1..Len(src) : src[j] # "\n"}}
    BY <1>3
  <1> QED
    BY <1>2, <1>4 DEF RunIn

LEMMA IdenRun ==
    ASSUME src \in Seq(STRING), pos \in Nat
    PROVE  IdenEnd = RunIn(pos + 1, {i \in 1..Len(src) : src[i] \in IdentBody})
  <1>1. Len(src) \in Nat
    BY LenProperties
  <1>2. IdenEnd = Min({i \in pos + 1..Len(src) + 1 : i = Len(src) + 1 \/ ~(src[i] \in IdentBody)}) - 1
    BY DEF IdenEnd, RunEnd
  <1>3. \A i \in pos + 1..Len(src) + 1 : i = Len(src) + 1 \/ i \in 1..Len(src)
    BY <1>1
  <1>4. {i \in pos + 1..Len(src) + 1 : i = Len(src) + 1 \/ ~(src[i] \in IdentBody)}
        = {i \in pos + 1..Len(src) + 1 : i = Len(src) + 1 \/ i \notin {j \in 1..Len(src) : src[j] \in IdentBody}}
    BY <1>3
  <1> QED
    BY <1>2, <1>4 DEF RunIn

\* What a number may consist of.
InNumber(k) == \/ src[k] \in IdentBody \union {"."}
               \/ src[k] \in Signs /\ k > 1 /\ src[k - 1] \in Exponents
NumberStart == IF Peek(0) \in Signs THEN pos + 2 ELSE pos + 1

LEMMA NumberRun ==
    ASSUME src \in Seq(STRING), pos \in Nat
    PROVE  NumberEnd = RunIn(NumberStart, {i \in 1..Len(src) : InNumber(i)})
  <1>1. Len(src) \in Nat /\ NumberStart \in Nat \ {0}
    BY LenProperties DEF NumberStart
  <1>2. NumberEnd = Min({i \in NumberStart..Len(src) + 1 : i = Len(src) + 1 \/ ~InNumber(i)}) - 1
    BY DEF NumberEnd, RunEnd, NumberStart, InNumber
  <1>3. \A i \in NumberStart..Len(src) + 1 : i = Len(src) + 1 \/ i \in 1..Len(src)
    BY <1>1
  <1>4. {i \in NumberStart..Len(src) + 1 : i = Len(src) + 1 \/ ~InNumber(i)}
        = {i \in NumberStart..Len(src) + 1 : i = Len(src) + 1 \/ i \notin {j \in 1..Len(src) : InNumber(j)}}
    BY <1>3
  <1> QED
    BY <1>2, <1>4 DEF RunIn

\* What does not end a string.
InString(k) == src[k] \notin {Quote, "\n"} \/ (src[k] = Quote /\ Escaped(k))

LEMMA StringRun ==
    ASSUME src \in Seq(STRING), pos \in Nat
    PROVE  StringEnd = StringTo(RunIn(pos + 2, {i \in 1..Len(src) : InString(i)}))
  <1>1. Len(src) \in Nat
    BY LenProperties
  <1>2. StringEnd = StringTo(Min({i \in pos + 2..Len(src) + 1 : i = Len(src) + 1 \/ ~InString(i)}) - 1)
    BY DEF StringEnd, RunEnd, InString
  <1>3. \A i \in pos + 2..Len(src) + 1 : i = Len(src) + 1 \/ i \in 1..Len(src)
    BY <1>1
  <1>4. {i \in pos + 2..Len(src) + 1 : i = Len(src) + 1 \/ ~InString(i)}
        = {i \in pos + 2..Len(src) + 1 : i = Len(src) + 1 \/ i \notin {j \in 1..Len(src) : InString(j)}}
    BY <1>3
  <1> QED
    BY <1>2, <1>4 DEF RunIn

\* The kinds of tokens.
Kinds == {"Iden", "Number", "String", "Arrow", "End"} \union Symbols
\* A turn takes at least one character and none behind a line break; it skips what it took,
\* makes a token of it, or reports it.
OnOneLine(last) == \A k \in pos + 1..last : src[k] = "\n" => k = pos + 1 /\ last = k
Skips(last) ==
    /\ Advance(last) /\ UNCHANGED <<tokens, errors>>
    /\ \/ \A k \in pos + 1..last : src[k] \in Blanks
       \/ /\ pos + 1 < Len(src) /\ src[pos + 1] = "/" /\ src[pos + 2] = "/"
          /\ \A k \in pos + 1..last : src[k] # "\n"
Gives(last) == (\E kind \in Kinds : Take(kind, last)) /\ (errors' = errors \/ Report)
Rejects(last) == Advance(last) /\ Report /\ tokens' = tokens /\ last = pos + 1

LEMMA NumberTakes ==
    ASSUME src \in Seq(STRING), pos \in Nat, pos < Len(src), IsNumber
    PROVE  NumberEnd \in pos + 1..Len(src) /\ OnOneLine(NumberEnd)
  <1> DEFINE G == {i \in 1..Len(src) : InNumber(i)}
             e == RunIn(NumberStart, G)
  <1>1. Len(src) \in Nat /\ pos + 1 \in 1..Len(src) /\ Peek(0) = src[pos + 1]
    BY LenProperties DEF Peek
  <1>2. NumberEnd = e
    BY NumberRun
  <1>3. NumberStart \in 1..Len(src) + 1
    BY <1>1 DEF NumberStart
  <1>4. /\ e \in NumberStart - 1..Len(src) /\ \A i \in NumberStart..e : i \in G
        /\ NumberStart \in G /\ NumberStart <= Len(src) => NumberStart <= e
    BY <1>3, RunBounds
  <1>5. \A k \in 1..Len(src) : InNumber(k) => src[k] # "\n"
    BY SourcesAssumption DEF InNumber, IdentBody, Signs
  <1> HIDE DEF e
  <1>6. CASE Peek(0) \in Signs
    <2>1. NumberStart = pos + 2
      BY <1>6 DEF NumberStart
    <2>2. e \in pos + 1..Len(src)
      BY <1>1, <1>4, <2>1
    <2>3. src[pos + 1] # "\n"
      BY <1>1, <1>6 DEF Signs
    <2>4. \A k \in pos + 1..e : k = pos + 1 \/ k \in NumberStart..e
      BY <2>1, <2>2
    <2>5. \A k \in pos + 1..e : src[k] # "\n"
      BY <1>4, <1>5, <2>3, <2>4
    <2> QED
      BY <1>2, <2>2, <2>5 DEF OnOneLine
  <1>7. CASE Peek(0) \notin Signs
    <2>1. NumberStart = pos + 1
      BY <1>7 DEF NumberStart
    <2>2. src[pos + 1] \in IdentBody \union {"."}
      BY <1>1, <1>7 DEF IsNumber, IdentBody
    <2>3. pos + 1 \in G
      BY <1>1, <2>2 DEF InNumber
    <2>4. e \in pos + 1..Len(src)
      BY <1>1, <1>4, <2>1, <2>3
    <2>5. \A k \in pos + 1..e : src[k] # "\n"
      BY <1>4, <1>5, <2>1
    <2> QED
      BY <1>2, <2>4, <2>5 DEF OnOneLine
  <1> QED
    BY <1>6, <1>7

LEMMA QuoteIsNoBreak == Quote # "\n"
  BY Zenon DEF Quote

LEMMA StringTakes ==
    ASSUME src \in Seq(STRING), pos \in Nat, pos < Len(src), Peek(0) = Quote
    PROVE  StringEnd.last \in pos + 1..Len(src) /\ OnOneLine(StringEnd.last)
  <1> DEFINE G == {i \in 1..Len(src) : InString(i)}
             e == RunIn(pos + 2, G)
  <1>1. Len(src) \in Nat /\ pos + 1 \in 1..Len(src) /\ src[pos + 1] = Quote
    BY LenProperties DEF Peek
  <1>2. pos + 2 \in 1..Len(src) + 1
    BY <1>1
  <1>3. e \in pos + 1..Len(src) /\ \A i \in pos + 2..e : i \in G
    BY <1>1, <1>2, RunBounds
  <1>4. StringEnd = StringTo(e)
    BY StringRun
  <1>5. \A k \in 1..Len(src) : InString(k) => src[k] # "\n"
    BY QuoteIsNoBreak DEF InString
  <1> HIDE DEF e
  <1>6. \A k \in pos + 1..e : src[k] # "\n"
    <2>1. \A k \in pos + 1..e : k = pos + 1 \/ k \in pos + 2..e
      BY <1>1
    <2> QED
      BY <1>1, <1>3, <1>5, <2>1, QuoteIsNoBreak
  <1>7. CASE e < Len(src) /\ src[e + 1] = Quote
    <2>1. StringEnd.last = e + 1
      BY <1>4, <1>7 DEF StringTo
    <2>2. e + 1 \in pos + 1..Len(src)
      BY <1>1, <1>3, <1>7
    <2>3. \A k \in pos + 1..e + 1 : k = e + 1 \/ k \in pos + 1..e
      BY <1>1, <1>3
    <2>4. \A k \in pos + 1..e + 1 : src[k] # "\n"
      BY <1>6, <1>7, <2>3, QuoteIsNoBreak
    <2> QED
      BY <2>1, <2>2, <2>4 DEF OnOneLine
  <1>8. CASE ~(e < Len(src) /\ src[e + 1] = Quote)
    <2>1. StringEnd.last = e
      BY <1>4, <1>8 DEF StringTo
    <2> QED
      BY <2>1, <1>3, <1>6 DEF OnOneLine
  <1> QED
    BY <1>7, <1>8

LEMMA TurnTakes ==
    ASSUME src \in Seq(STRING), pos \in Nat, pos < Len(src), Turn
    PROVE  \E last \in pos + 1..Len(src) :
              OnOneLine(last) /\ (Skips(last) \/ Gives(last) \/ Rejects(last))
  <1>1. Len(src) \in Nat /\ pos + 1 \in 1..Len(src) /\ Peek(0) = src[pos + 1] /\ src[pos + 1] \in STRING
    BY LenProperties, ElementOfSeq DEF Peek
  <1>2. pos + 1 \in pos + 1..Len(src) /\ \A k \in pos + 1..pos + 1 : k = pos + 1
    BY <1>1
  <1>3. OnOneLine(pos + 1)
    BY <1>2 DEF OnOneLine
  <1>4. CASE Blank
    <2>1. Skips(pos + 1)
      BY <1>1, <1>2, <1>4 DEF Blank, Skips
    <2> QED
      BY <1>2, <1>3, <2>1
  <1>5. CASE Comment
    <2> DEFINE G == {i \in 1..Len(src) : src[i] # "\n"}
    <2>1. src[pos + 1] = "/" /\ pos + 1 < Len(src) /\ src[pos + 2] = "/"
      BY <1>1, <1>5 DEF Comment, IsComment, Peek
    <2>2. /\ CommentEnd \in pos..Len(src) /\ \A i \in pos + 1..CommentEnd : i \in G
          /\ pos + 1 \in G => pos + 1 <= CommentEnd
      BY <1>1, RunBounds, CommentRun
    <2>3. pos + 1 \in G
      BY <1>1, <2>1
    <2>4. PICK last \in Nat : last = CommentEnd
      BY <1>1, <2>2
    <2>5. last \in pos + 1..Len(src) /\ \A i \in pos + 1..last : src[i] # "\n"
      BY <1>1, <2>2, <2>3, <2>4
    <2>6. Skips(last)
      BY <1>5, <2>1, <2>4, <2>5 DEF Comment, Skips
    <2> QED
      BY <2>5, <2>6 DEF OnOneLine
  <1>6. CASE Iden
    <2> DEFINE G == {i \in 1..Len(src) : src[i] \in IdentBody}
    <2>1. pos + 1 \in G
      BY <1>1, <1>6 DEF Iden, IdentBody
    <2>2. /\ IdenEnd \in pos..Len(src) /\ \A i \in pos + 1..IdenEnd : i \in G
          /\ pos + 1 <= IdenEnd
      BY <1>1, <2>1, RunBounds, IdenRun
    <2>3. PICK last \in Nat : last = IdenEnd
      BY <1>1, <2>2
    <2>4. last \in pos + 1..Len(src) /\ \A i \in pos + 1..last : src[i] # "\n"
      BY <1>1, <2>2, <2>3, SourcesAssumption DEF IdentBody
    <2>5. Gives(last)
      BY <1>6, <2>3 DEF Iden, Gives, Take, Advance, Kinds
    <2> QED
      BY <2>4, <2>5 DEF OnOneLine
  <1>7. CASE Number
    <2>1. PICK last \in pos + 1..Len(src) : last = NumberEnd
      BY <1>7, NumberTakes DEF Number
    <2>2. OnOneLine(last)
      BY <1>7, <2>1, NumberTakes DEF Number
    <2>3. Gives(last)
      BY <1>7, <2>1 DEF Number, Gives, Take, Advance, Kinds
    <2> QED
      BY <2>2, <2>3
  <1>8. CASE String
    <2>1. PICK last \in pos + 1..Len(src) : last = StringEnd.last
      BY <1>8, StringTakes DEF String
    <2>2. OnOneLine(last)
      BY <1>8, <2>1, StringTakes DEF String
    <2>3. Gives(last)
      BY <1>8, <2>1 DEF String, Gives, Take, Advance, Kinds
    <2> QED
      BY <2>2, <2>3
  <1>9. CASE Arrow
    <2>1. src[pos + 1] = "-" /\ pos + 2 \in 1..Len(src) /\ src[pos + 2] = ">"
      BY <1>1, <1>9 DEF Arrow, IsArrow, Peek
    <2>2. \A k \in pos + 1..pos + 2 : src[k] # "\n"
      <3>1. \A k \in pos + 1..pos + 2 : k = pos + 1 \/ k = pos + 2
        OBVIOUS
      <3> QED
        BY <2>1, <3>1
    <2>3. Gives(pos + 2)
      BY <1>9 DEF Arrow, Gives, Take, Advance, Kinds
    <2>4. pos + 2 \in pos + 1..Len(src)
      BY <1>1, <2>1
    <2> QED
      BY <2>2, <2>3, <2>4 DEF OnOneLine
  <1>10. CASE Symbol
    <2>1. Gives(pos + 1)
      BY <1>10 DEF Symbol, Gives, Kinds
    <2> QED
      BY <1>2, <1>3, <2>1
  <1>11. CASE Unexpected
    <2>1. Rejects(pos + 1)
      BY <1>11 DEF Unexpected, Rejects
    <2> QED
      BY <1>2, <1>3, <2>1
  <1> QED
    BY <1>4, <1>5, <1>6, <1>7, <1>8, <1>9, <1>10, <1>11 DEF Turn

-----------------------------------------------------------------------------
(* Counting lines and columns                                              *)

Breaks(a, b) == {k \in a..b : src[k] = "\n"}
Starts(a) == {i \in 1..a : src[i] = "\n" \/ (i = 1 /\ src[i] = Bom)}

LEMMA CountedAs ==
    ASSUME NEW a \in Nat
    PROVE  /\ LineOf(a + 1) = 1 + Cardinality(Breaks(1, a))
           /\ ColOf(a + 1) = IF Starts(a) = {} THEN a + 1 ELSE (a + 1) - Max(Starts(a))
  <1>1. (a + 1) - 1 = a
    OBVIOUS
  <1>2. LineOf(a + 1) = 1 + Cardinality(Breaks(1, a))
    BY <1>1 DEF LineOf, Breaks
  <1>3. ColOf(a + 1) = IF Starts((a + 1) - 1) = {} THEN a + 1 ELSE (a + 1) - Max(Starts((a + 1) - 1))
    BY DEF ColOf, Starts
  <1> QED
    BY <1>1, <1>2, <1>3

LEMMA BreaksFinite ==
    ASSUME NEW a \in Nat, NEW b \in Nat
    PROVE  IsFiniteSet(Breaks(a, b)) /\ Cardinality(Breaks(a, b)) \in Nat
  <1>1. IsFiniteSet(a..b) /\ Breaks(a, b) \in SUBSET (a..b)
    BY FS_Interval DEF Breaks
  <1>2. IsFiniteSet(Breaks(a, b))
    BY <1>1, FS_Subset
  <1> QED
    BY <1>2, FS_CardinalityType

\* The line breaks up to b are those up to a and those behind it.
LEMMA LineAdvance ==
    ASSUME NEW a \in Nat, NEW b \in Nat, a <= b
    PROVE  /\ LineOf(a + 1) \in Nat
           /\ LineOf(b + 1) = LineOf(a + 1) + Cardinality(Breaks(a + 1, b))
  <1>1. /\ IsFiniteSet(Breaks(1, a)) /\ Cardinality(Breaks(1, a)) \in Nat
        /\ IsFiniteSet(Breaks(a + 1, b)) /\ Cardinality(Breaks(a + 1, b)) \in Nat
    <2>1. 1 \in Nat /\ a + 1 \in Nat
      OBVIOUS
    <2> QED
      BY <2>1, BreaksFinite
  <1>2. Breaks(1, b) = Breaks(1, a) \union Breaks(a + 1, b)
    BY DEF Breaks
  <1>3. Breaks(1, a) \cap Breaks(a + 1, b) = {}
    BY DEF Breaks
  <1>4. Cardinality(Breaks(1, a) \cap Breaks(a + 1, b)) = 0
    BY <1>3, FS_EmptySet
  <1>5. Cardinality(Breaks(1, b)) = Cardinality(Breaks(1, a)) + Cardinality(Breaks(a + 1, b))
                                    - Cardinality(Breaks(1, a) \cap Breaks(a + 1, b))
    BY <1>1, <1>2, FS_Union
  <1> HIDE DEF Breaks
  <1> QED
    BY <1>1, <1>4, <1>5, CountedAs

LEMMA StartsBounded ==
    ASSUME NEW a \in Nat, Starts(a) # {}
    PROVE  Max(Starts(a)) \in Starts(a) /\ \A y \in Starts(a) : Max(Starts(a)) >= y
  <1>1. Starts(a) \subseteq Nat /\ \A y \in Starts(a) : y <= a
    BY DEF Starts
  <1> QED
    BY <1>1, MaxOfNaturals

\* The last line break counts, wherever the column was before.
LEMMA ColAdvance ==
    ASSUME NEW a \in Nat, NEW b \in Nat, a < b, a = 0 => src[1] # Bom
    PROVE  /\ ColOf(a + 1) \in Int
           /\ ColOf(b + 1) = IF Breaks(a + 1, b) = {} THEN ColOf(a + 1) + (b - a)
                             ELSE b - Max(Breaks(a + 1, b)) + 1
           /\ ColOf(b + 1) \in Int
  <1>1. Starts(b) = Starts(a) \union Breaks(a + 1, b)
    BY DEF Starts, Breaks
  <1>2. Starts(a) \subseteq Nat /\ \A y \in Starts(a) : y <= a
    BY DEF Starts
  <1>3. Breaks(a + 1, b) \subseteq Nat /\ \A y \in Breaks(a + 1, b) : a < y /\ y <= b
    BY DEF Breaks
  <1>4. Starts(a) # {} => Max(Starts(a)) \in Nat
    BY <1>2, StartsBounded
  <1>5. ColOf(a + 1) \in Int
    BY <1>4, CountedAs
  <1>6. CASE Breaks(a + 1, b) = {}
    <2>1. Starts(b) = Starts(a)
      BY <1>1, <1>6
    <2>2. ColOf(b + 1) = ColOf(a + 1) + (b - a)
      BY <1>4, <2>1, CountedAs
    <2> QED
      BY <1>5, <1>6, <2>2
  <1>7. CASE Breaks(a + 1, b) # {}
    <2> DEFINE m == Max(Breaks(a + 1, b))
               x == Max(Starts(b))
    <2>1. m \in Breaks(a + 1, b) /\ \A y \in Breaks(a + 1, b) : m >= y
      BY <1>3, <1>7, MaxOfNaturals
    <2>2. Starts(b) # {}
      BY <1>1, <1>7
    <2>3. x \in Starts(b) /\ \A y \in Starts(b) : x >= y
      BY <2>2, StartsBounded
    <2> HIDE DEF m, x
    <2>4. x = m
      <3>1. x >= m /\ m \in Nat /\ x \in Nat /\ a < m
        BY <1>1, <1>2, <1>3, <2>1, <2>3
      <3>2. x \in Breaks(a + 1, b)
        BY <1>1, <1>2, <2>3, <3>1
      <3>3. m >= x
        BY <2>1, <3>2
      <3> QED
        BY <3>1, <3>3
    <2>5. m \in Nat
      BY <1>3, <2>1
    <2>6. ColOf(b + 1) = (b + 1) - x
      BY <2>2, CountedAs DEF x
    <2> QED
      BY <1>5, <1>7, <2>4, <2>5, <2>6 DEF m
  <1> QED
    BY <1>6, <1>7

-----------------------------------------------------------------------------
(* The inductive invariant                                                 *)

Token == [kind : Kinds, from : Nat, to : Nat, line : Nat, col : Int]
Complaint == [at : Nat, line : Nat, col : Int]

LexTypes ==
    /\ src \in Seq(STRING)
    /\ pos \in Nat /\ pos <= Len(src) /\ line \in Nat /\ col \in Int
    /\ tokens \in Seq(Token)
    /\ errors \in Seq(Complaint)
    /\ done \in BOOLEAN /\ (done => pos = Len(src))

\* The cursor knows the line and the column of what it has not taken yet.
CursorInv == line = LineOf(pos + 1) /\ col = ColOf(pos + 1) /\ (pos = 0 /\ src # <<>> => src[1] # Bom)
\* Tokens end before the cursor, one after the other.
OrderInv ==
    /\ \A i \in 1..Len(tokens) : tokens[i].to <= pos
    /\ \A i, j \in 1..Len(tokens) : i < j => tokens[i].to < tokens[j].from
\* What the cursor has passed is accounted for.
Covered(k) == InToken(k) \/ src[k] \in Blanks \union {Bom} \/ InComment(k) \/ Reported(k)
CoverInv == \A k \in 1..pos : Covered(k)
PlaceInv ==
    /\ \A i \in 1..Len(tokens) : /\ tokens[i].line = LineOf(tokens[i].from)
                                 /\ tokens[i].col = ColOf(tokens[i].from)
    /\ \A i \in 1..Len(errors) : /\ errors[i].line = LineOf(errors[i].at)
                                 /\ errors[i].col = ColOf(errors[i].at)
LexInv == LexTypes /\ CursorInv /\ OrderInv /\ CoverInv /\ PlaceInv

LEMMA LexImplies == LexInv => NothingIsLost /\ PositionsAreRight
  <1> SUFFICES ASSUME LexInv PROVE NothingIsLost /\ PositionsAreRight
    OBVIOUS
  <1>1. DOMAIN tokens = 1..Len(tokens) /\ DOMAIN errors = 1..Len(errors)
    BY LenProperties DEF LexInv, LexTypes
  <1>2. PositionsAreRight
    BY <1>1 DEF LexInv, PlaceInv, PositionsAreRight
  <1>3. NothingIsLost
    BY <1>1 DEF LexInv, LexTypes, OrderInv, CoverInv, Covered, NothingIsLost
  <1> QED
    BY <1>2, <1>3

LEMMA InitiallyLexed == Init => LexInv
  <1> SUFFICES ASSUME Init PROVE LexInv
    OBVIOUS
  <1>1. /\ src \in Seq(STRING) /\ tokens = <<>> /\ errors = <<>> /\ done = FALSE /\ line = 1 /\ col = 1
        /\ pos = IF src # <<>> /\ src[1] = Bom THEN 1 ELSE 0
    BY SourcesAssumption DEF Init
  <1>2. Len(src) \in Nat /\ (src # <<>> => Len(src) >= 1)
    BY <1>1, LenProperties, EmptySeq
  <1>3. pos \in {0, 1} /\ pos <= Len(src)
    BY <1>1, <1>2
  <1>a. tokens \in Seq(Token) /\ errors \in Seq(Complaint)
    <2>1. \A S : <<>> \in Seq(S)
      BY EmptySeq
    <2> QED
      BY <1>1, <2>1
  <1>4. LexTypes
    <2>1. pos \in Nat /\ line \in Nat /\ col \in Int
      BY <1>1, <1>3
    <2>2. done \in BOOLEAN /\ ~done
      BY <1>1
    <2> QED
      BY <1>1, <1>3, <1>a, <2>1, <2>2, Zenon DEF LexTypes
  <1>5. Breaks(1, pos) = {} /\ (pos = 0 => Starts(pos) = {}) /\ (pos = 1 => Starts(pos) = {1})
    <2>1. Bom # "\n"
      BY DEF Bom
    <2> QED
      BY <1>1, <2>1 DEF Breaks, Starts
  <1>6. Max({1}) = 1
    BY DEF Max
  <1>7. LineOf(pos + 1) = 1
    <2>1. Cardinality(Breaks(1, pos)) = 0
      BY <1>5, FS_EmptySet
    <2>2. LineOf(pos + 1) = 1 + Cardinality(Breaks(1, pos))
      BY <1>3, CountedAs
    <2> QED
      BY <2>1, <2>2
  <1>8. ColOf(pos + 1) = 1
    <2>1. ColOf(pos + 1) = IF Starts(pos) = {} THEN pos + 1 ELSE (pos + 1) - Max(Starts(pos))
      BY <1>3, CountedAs
    <2> QED
      BY <1>3, <1>5, <1>6, <2>1
  <1>9. CursorInv
    BY <1>1, <1>7, <1>8 DEF CursorInv
  <1>10. OrderInv /\ PlaceInv
    BY <1>1, EmptySeq DEF OrderInv, PlaceInv
  <1>11. CoverInv
    BY <1>1 DEF CoverInv, Covered
  <1> QED
    BY <1>4, <1>9, <1>10, <1>11 DEF LexInv

\* The cursor counts right however far it goes.
LEMMA AdvanceCounts ==
    ASSUME LexTypes, CursorInv, NEW last \in pos + 1..Len(src), Advance(last)
    PROVE  /\ src' = src /\ done' = done /\ pos' = last /\ pos' \in Nat /\ pos' <= Len(src)
           /\ line' \in Nat /\ col' \in Int
           /\ CursorInv'
  <1>1. /\ src' = src /\ done' = done /\ pos' = last
        /\ line' = line + Cardinality(Breaks(pos + 1, last))
        /\ col' = IF Breaks(pos + 1, last) = {} THEN col + (last - pos)
                  ELSE last - Max(Breaks(pos + 1, last)) + 1
    BY DEF Advance, Breaks
  <1>2. Len(src) \in Nat /\ pos \in Nat
    BY LenProperties DEF LexTypes
  <1>3. last \in Nat /\ pos < last /\ last <= Len(src)
    BY <1>2
  <1>4. src # <<>>
    BY <1>2, <1>3, EmptySeq
  <1>5. line = LineOf(pos + 1) /\ col = ColOf(pos + 1) /\ (pos = 0 => src[1] # Bom)
    BY <1>4 DEF CursorInv
  <1>6. LineOf(last + 1) = LineOf(pos + 1) + Cardinality(Breaks(pos + 1, last)) /\ LineOf(last + 1) \in Nat
    BY <1>2, <1>3, LineAdvance
  <1>7. /\ ColOf(last + 1) = IF Breaks(pos + 1, last) = {} THEN ColOf(pos + 1) + (last - pos)
                             ELSE last - Max(Breaks(pos + 1, last)) + 1
        /\ ColOf(last + 1) \in Int
    BY <1>2, <1>3, <1>5, ColAdvance
  <1>8. line' = LineOf(last + 1) /\ col' = ColOf(last + 1)
    BY <1>1, <1>5, <1>6, <1>7
  <1>9. LineOf(pos + 1)' = LineOf(last + 1) /\ ColOf(pos + 1)' = ColOf(last + 1)
    BY <1>1 DEF LineOf, ColOf
  <1>10. CursorInv'
    BY <1>1, <1>2, <1>3, <1>8, <1>9 DEF CursorInv
  <1> QED
    BY <1>1, <1>3, <1>6, <1>7, <1>8, <1>10


-----------------------------------------------------------------------------
(* What a turn keeps                                                       *)

TokenTo(kind, last) == [kind |-> kind, from |-> pos + 1, to |-> last, line |-> line, col |-> col]

\* At most one token more, which starts at the cursor.
LEMMA TokensKept ==
    ASSUME LexInv, src' = src, pos' \in Nat, pos <= pos',
           tokens' = tokens \/ \E kind \in Kinds : tokens' = Append(tokens, TokenTo(kind, pos'))
    PROVE  /\ tokens' \in Seq(Token) /\ OrderInv'
           /\ \A i \in 1..Len(tokens') : /\ tokens'[i].line = LineOf(tokens'[i].from)
                                         /\ tokens'[i].col = ColOf(tokens'[i].from)
           /\ \A k \in 1..pos : InToken(k)' <=> InToken(k)
           /\ tokens' # tokens => \A k \in pos + 1..pos' : InToken(k)'
  <1>1. /\ tokens \in Seq(Token) /\ Len(tokens) \in Nat /\ DOMAIN tokens = 1..Len(tokens)
        /\ pos \in Nat /\ line \in Nat /\ col \in Int
        /\ line = LineOf(pos + 1) /\ col = ColOf(pos + 1)
    BY LenProperties DEF LexInv, LexTypes, CursorInv
  <1>2. \A i \in 1..Len(tokens) : /\ tokens[i] \in Token /\ tokens[i].from \in Nat
                                  /\ tokens[i].to \in Nat /\ tokens[i].to <= pos
    <2>1. \A i \in 1..Len(tokens) : tokens[i] \in Token
      BY <1>1, ElementOfSeq
    <2>2. \A t \in Token : t.from \in Nat /\ t.to \in Nat
      BY DEF Token
    <2> QED
      BY <2>1, <2>2 DEF LexInv, OrderInv
  <1>3. \A i, j \in 1..Len(tokens) : i < j => tokens[i].to < tokens[j].from
    BY DEF LexInv, OrderInv
  <1>4. \A i \in 1..Len(tokens) : /\ tokens[i].line = LineOf(tokens[i].from)
                                  /\ tokens[i].col = ColOf(tokens[i].from)
    BY DEF LexInv, PlaceInv
  <1>5. CASE tokens' = tokens
    <2>1. OrderInv'
      BY <1>1, <1>2, <1>3, <1>5 DEF OrderInv
    <2>2. \A k \in 1..pos : InToken(k)' <=> InToken(k)
      BY <1>5 DEF InToken
    <2> QED
      BY <1>1, <1>4, <1>5, <2>1, <2>2
  <1>6. ASSUME NEW kind \in Kinds, tokens' = Append(tokens, TokenTo(kind, pos'))
        PROVE  /\ tokens' \in Seq(Token) /\ OrderInv'
               /\ \A i \in 1..Len(tokens') : /\ tokens'[i].line = LineOf(tokens'[i].from)
                                             /\ tokens'[i].col = ColOf(tokens'[i].from)
               /\ \A k \in 1..pos : InToken(k)' <=> InToken(k)
               /\ \A k \in pos + 1..pos' : InToken(k)'
    <2> DEFINE n == Len(tokens)
    <2>1. PICK t : t = TokenTo(kind, pos')
      OBVIOUS
    <2>2. /\ t \in Token /\ t.from = pos + 1 /\ t.to = pos' /\ t.line = line /\ t.col = col
      BY <1>1, <2>1 DEF TokenTo, Token
    <2>3. /\ tokens' \in Seq(Token) /\ Len(tokens') = n + 1
          /\ \A i \in 1..n : tokens'[i] = tokens[i]
          /\ tokens'[n + 1] = t
      <3>1. tokens' = Append(tokens, t)
        BY <1>6, <2>1
      <3>2. /\ Append(tokens, t) \in Seq(Token) /\ Len(Append(tokens, t)) = n + 1
            /\ \A i \in 1..n : Append(tokens, t)[i] = tokens[i]
            /\ Append(tokens, t)[n + 1] = t
        BY <1>1, <2>2, AppendProperties
      <3> QED
        BY <3>1, <3>2, Zenon
    <2>4. \A i \in 1..Len(tokens') : i \in 1..n \/ i = n + 1
      BY <1>1, <2>3
    <2>5. \A i \in 1..Len(tokens') : tokens'[i].to <= pos'
      BY <1>1, <1>2, <2>2, <2>3, <2>4
    <2>6. ASSUME NEW i \in 1..Len(tokens'), NEW j \in 1..Len(tokens'), i < j
          PROVE  tokens'[i].to < tokens'[j].from
      <3>1. i \in 1..n
        BY <1>1, <2>3, <2>6
      <3>2. CASE j \in 1..n
        BY <1>3, <2>3, <2>6, <3>1, <3>2
      <3>3. CASE j = n + 1
        BY <1>1, <1>2, <2>2, <2>3, <3>1, <3>3
      <3> QED
        BY <2>4, <3>2, <3>3
    <2>7. OrderInv'
      BY <2>5, <2>6 DEF OrderInv
    <2>8. ASSUME NEW i \in 1..Len(tokens')
          PROVE  tokens'[i].line = LineOf(tokens'[i].from) /\ tokens'[i].col = ColOf(tokens'[i].from)
      <3>1. CASE i \in 1..n
        BY <1>4, <2>3, <3>1
      <3>2. CASE i = n + 1
        BY <1>1, <2>2, <2>3, <3>2
      <3> QED
        BY <2>4, <3>1, <3>2
    <2>9. DOMAIN tokens' = 1..n + 1
      BY <2>3, LenProperties
    <2>10. ASSUME NEW k \in 1..pos PROVE InToken(k)' <=> InToken(k)
      <3>1. k \notin t.from..t.to
        BY <1>1, <2>2
      <3>2. InToken(k) => InToken(k)'
        BY <1>1, <2>3, <2>9 DEF InToken
      <3>3. InToken(k)' => InToken(k)
        BY <1>1, <2>3, <2>4, <2>9, <3>1 DEF InToken
      <3> QED
        BY <3>2, <3>3
    <2>11. ASSUME NEW k \in pos + 1..pos' PROVE InToken(k)'
      <3>1. n + 1 \in DOMAIN tokens' /\ k \in t.from..t.to
        BY <1>1, <2>2, <2>9
      <3> QED
        BY <2>3, <3>1 DEF InToken
    <2> QED
      BY <2>3, <2>7, <2>8, <2>10, <2>11
  <1> QED
    BY <1>5, <1>6

\* At most one error more, at the cursor.
LEMMA ErrorsKept ==
    ASSUME LexInv, src' = src, errors' = errors \/ Report
    PROVE  /\ errors' \in Seq(Complaint)
           /\ \A i \in 1..Len(errors') : /\ errors'[i].line = LineOf(errors'[i].at)
                                         /\ errors'[i].col = ColOf(errors'[i].at)
           /\ \A k : Reported(k) => Reported(k)'
           /\ \A k : Report /\ k = pos + 1 => Reported(k)'
  <1>1. /\ errors \in Seq(Complaint) /\ Len(errors) \in Nat /\ DOMAIN errors = 1..Len(errors)
        /\ pos \in Nat /\ line \in Nat /\ col \in Int
        /\ line = LineOf(pos + 1) /\ col = ColOf(pos + 1)
    BY LenProperties DEF LexInv, LexTypes, CursorInv
  <1>2. \A i \in 1..Len(errors) : /\ errors[i].line = LineOf(errors[i].at)
                                  /\ errors[i].col = ColOf(errors[i].at)
    BY DEF LexInv, PlaceInv
  <1>3. CASE errors' = errors
    <2>1. \A k : Reported(k) => Reported(k)'
      BY <1>3 DEF Reported
    <2>2. PICK e : e = [at |-> pos + 1, line |-> line, col |-> col]
      OBVIOUS
    <2>3. e \in Complaint
      BY <1>1, <2>2 DEF Complaint
    <2>4. Len(Append(errors, e)) = Len(errors) + 1 /\ Len(errors) \in Nat
      BY <1>1, <2>3, AppendProperties
    <2>5. Append(errors, e) # errors
      BY <2>4
    <2>6. ~Report
      BY <1>3, <2>2, <2>5 DEF Report
    <2> QED
      BY <1>1, <1>2, <1>3, <2>1, <2>6
  <1>4. CASE Report
    <2> DEFINE n == Len(errors)
    <2>1. PICK e : e = [at |-> pos + 1, line |-> line, col |-> col]
      OBVIOUS
    <2>2. e \in Complaint /\ e.at = pos + 1 /\ e.line = line /\ e.col = col
      BY <1>1, <2>1 DEF Complaint
    <2>3. errors' = Append(errors, e)
      BY <1>4, <2>1 DEF Report
    <2>4. /\ Append(errors, e) \in Seq(Complaint) /\ Len(Append(errors, e)) = n + 1
          /\ \A i \in 1..n : Append(errors, e)[i] = errors[i]
          /\ Append(errors, e)[n + 1] = e
      BY <1>1, <2>2, AppendProperties
    <2>5. /\ errors' \in Seq(Complaint) /\ Len(errors') = n + 1
          /\ \A i \in 1..n : errors'[i] = errors[i]
          /\ errors'[n + 1] = e
      BY <2>3, <2>4, Zenon
    <2>6. DOMAIN errors' = 1..n + 1
      BY <2>5, LenProperties
    <2>7. ASSUME NEW i \in 1..Len(errors')
          PROVE  errors'[i].line = LineOf(errors'[i].at) /\ errors'[i].col = ColOf(errors'[i].at)
      <3>1. i \in 1..n \/ i = n + 1
        BY <1>1, <2>5
      <3> QED
        BY <1>1, <1>2, <2>2, <2>5, <3>1
    <2>8. \A k : Reported(k) => Reported(k)'
      BY <1>1, <2>5, <2>6 DEF Reported
    <2>9. \A k : k = pos + 1 => Reported(k)'
      BY <1>1, <2>2, <2>5, <2>6 DEF Reported
    <2> QED
      BY <2>5, <2>7, <2>8, <2>9
  <1> QED
    BY <1>3, <1>4


\* A turn that goes on behind the cursor keeps the invariant, provided it accounts for what it
\* took.
LEMMA TurnKeeps ==
    ASSUME LexInv, NEW last \in pos + 1..Len(src), Advance(last),
           tokens' = tokens \/ \E kind \in Kinds : tokens' = Append(tokens, TokenTo(kind, last)),
           errors' = errors \/ Report,
           \A k \in pos + 1..last : Covered(k)'
    PROVE  LexInv'
  <1>1. /\ src' = src /\ done' = done /\ pos' = last /\ pos' \in Nat /\ pos' <= Len(src)
        /\ line' \in Nat /\ col' \in Int
        /\ CursorInv'
    BY AdvanceCounts DEF LexInv
  <1>2. pos \in Nat /\ Len(src) \in Nat /\ src \in Seq(STRING) /\ done \in BOOLEAN /\ (done => pos = Len(src))
    BY LenProperties DEF LexInv, LexTypes
  <1>3. pos < last /\ last <= Len(src) /\ last \in Nat
    BY <1>2
  <1>4. tokens' = tokens \/ \E kind \in Kinds : tokens' = Append(tokens, TokenTo(kind, pos'))
    BY <1>1
  <1>5. /\ tokens' \in Seq(Token) /\ OrderInv'
        /\ \A i \in 1..Len(tokens') : /\ tokens'[i].line = LineOf(tokens'[i].from)
                                      /\ tokens'[i].col = ColOf(tokens'[i].from)
        /\ \A k \in 1..pos : InToken(k)' <=> InToken(k)
    BY <1>1, <1>2, <1>3, <1>4, TokensKept
  <1>6. /\ errors' \in Seq(Complaint)
        /\ \A i \in 1..Len(errors') : /\ errors'[i].line = LineOf(errors'[i].at)
                                      /\ errors'[i].col = ColOf(errors'[i].at)
        /\ \A k : Reported(k) => Reported(k)'
    BY <1>1, ErrorsKept
  <1>7. LexTypes'
    <2>1. done' \in BOOLEAN /\ ~done
      BY <1>1, <1>2, <1>3
    <2> QED
      BY <1>1, <1>2, <1>5, <1>6, <2>1 DEF LexTypes
  <1>8. PlaceInv'
    BY <1>1, <1>5, <1>6 DEF PlaceInv, LineOf, ColOf
  <1>9. ASSUME NEW k \in 1..pos PROVE Covered(k)'
    <2>1. Covered(k)
      BY DEF LexInv, CoverInv
    <2>2. InComment(k) => InComment(k)'
      <3>1. \A j \in 1..k : InToken(j)' <=> InToken(j)
        BY <1>2, <1>5
      <3> QED
        BY <1>1, <3>1 DEF InComment
    <2> QED
      BY <1>1, <1>5, <1>6, <2>1, <2>2 DEF Covered
  <1>10. CoverInv'
    <2>1. \A k \in 1..pos' : k \in 1..pos \/ k \in pos + 1..last
      BY <1>1, <1>2
    <2> QED
      BY <1>9, <2>1 DEF CoverInv
  <1> QED
    BY <1>1, <1>5, <1>7, <1>8, <1>10 DEF LexInv

LEMMA SkipsKeeps ==
    ASSUME LexInv, NEW last \in pos + 1..Len(src), Skips(last)
    PROVE  LexInv'
  <1>1. Advance(last) /\ tokens' = tokens /\ errors' = errors /\ src' = src
    BY DEF Skips, Advance
  <1>2. /\ pos \in Nat /\ tokens \in Seq(Token) /\ DOMAIN tokens = 1..Len(tokens)
        /\ \A i \in 1..Len(tokens) : tokens[i].to <= pos
    BY LenProperties DEF LexInv, LexTypes, OrderInv
  <1>3. \A k \in pos + 1..last : Covered(k)'
    <2>1. CASE \A k \in pos + 1..last : src[k] \in Blanks
      BY <1>1, <2>1 DEF Covered
    <2>2. CASE /\ pos + 1 < Len(src) /\ src[pos + 1] = "/" /\ src[pos + 2] = "/"
               /\ \A k \in pos + 1..last : src[k] # "\n"
      <3>1. PICK j \in Nat : j = pos + 1
        BY <1>2
      <3>2. ~InToken(j)
        <4>1. \A i \in 1..Len(tokens) : tokens[i] \in Token
          BY <1>2, ElementOfSeq
        <4>2. \A t \in Token : t.from \in Nat /\ t.to \in Nat
          BY DEF Token
        <4>3. \A i \in DOMAIN tokens : j \notin tokens[i].from..tokens[i].to
          BY <1>2, <3>1, <4>1, <4>2
        <4> QED
          BY <4>3 DEF InToken
      <3>3. ~InToken(j)'
        BY <1>1, <3>2 DEF InToken
      <3>4. j < Len(src) /\ src[j] = "/" /\ src[j + 1] = "/"
        BY <1>2, <2>2, <3>1
      <3>5. ASSUME NEW k \in pos + 1..last PROVE Covered(k)'
        <4>1. j \in 1..k /\ \A i \in j..k : src[i] # "\n"
          BY <1>2, <2>2, <3>1
        <4>2. InComment(k)'
          BY <1>1, <3>3, <3>4, <4>1 DEF InComment
        <4> QED
          BY <4>2 DEF Covered
      <3> QED
        BY <3>5
    <2> QED
      BY <2>1, <2>2 DEF Skips
  <1> QED
    BY <1>1, <1>3, TurnKeeps

LEMMA GivesKeeps ==
    ASSUME LexInv, NEW last \in pos + 1..Len(src), Gives(last)
    PROVE  LexInv'
  <1>1. /\ Advance(last) /\ (errors' = errors \/ Report)
        /\ \E kind \in Kinds : tokens' = Append(tokens, TokenTo(kind, last))
    BY DEF Gives, Take, TokenTo
  <1>2. src' = src /\ pos' = last
    BY <1>1 DEF Advance
  <1>3. pos \in Nat /\ last \in Nat /\ pos <= last /\ tokens \in Seq(Token) /\ line \in Nat /\ col \in Int
    BY DEF LexInv, LexTypes
  <1>4. tokens' # tokens
    <2>1. PICK kind \in Kinds : tokens' = Append(tokens, TokenTo(kind, last))
      BY <1>1
    <2>2. PICK t : t = TokenTo(kind, last)
      OBVIOUS
    <2>3. t \in Token
      BY <1>3, <2>2 DEF TokenTo, Token
    <2>4. Len(Append(tokens, t)) = Len(tokens) + 1 /\ Len(tokens) \in Nat
      BY <1>3, <2>3, AppendProperties, LenProperties
    <2>5. Append(tokens, t) # tokens
      BY <2>4
    <2> QED
      BY <2>1, <2>2, <2>5
  <1>5. \A k \in pos + 1..pos' : InToken(k)'
    BY <1>1, <1>2, <1>3, <1>4, TokensKept
  <1>6. \A k \in pos + 1..last : Covered(k)'
    BY <1>2, <1>5 DEF Covered
  <1> QED
    BY <1>1, <1>6, TurnKeeps

LEMMA RejectsKeeps ==
    ASSUME LexInv, NEW last \in pos + 1..Len(src), Rejects(last)
    PROVE  LexInv'
  <1>1. Advance(last) /\ Report /\ tokens' = tokens /\ last = pos + 1 /\ src' = src
    BY DEF Rejects, Advance
  <1>2. \A k : k = pos + 1 => Reported(k)'
    BY <1>1, ErrorsKept
  <1>3. pos \in Nat
    BY DEF LexInv, LexTypes
  <1>4. \A k \in pos + 1..last : k = pos + 1
    BY <1>1, <1>3
  <1>5. \A k \in pos + 1..last : Covered(k)'
    BY <1>2, <1>4 DEF Covered
  <1> QED
    BY <1>1, <1>5, TurnKeeps


\* At the end of the text there is one token more, of no character.
LEMMA FinishKeeps ==
    ASSUME LexInv, pos >= Len(src), Finish
    PROVE  LexInv'
  <1>1. /\ src' = src /\ pos' = pos /\ line' = line /\ col' = col /\ errors' = errors /\ done' = TRUE
        /\ tokens' = Append(tokens, TokenTo("End", pos))
    BY DEF Finish, TokenTo
  <1>2. /\ pos \in Nat /\ pos <= Len(src) /\ Len(src) \in Nat /\ src \in Seq(STRING)
        /\ line \in Nat /\ col \in Int /\ errors \in Seq(Complaint)
    BY LenProperties DEF LexInv, LexTypes
  <1>3. pos' \in Nat /\ pos <= pos' /\ pos' = Len(src) /\ TokenTo("End", pos) = TokenTo("End", pos')
    BY <1>1, <1>2
  <1>4. "End" \in Kinds /\ tokens' = Append(tokens, TokenTo("End", pos'))
    BY <1>1, <1>3 DEF Kinds
  <1>5. /\ tokens' \in Seq(Token) /\ OrderInv'
        /\ \A i \in 1..Len(tokens') : /\ tokens'[i].line = LineOf(tokens'[i].from)
                                      /\ tokens'[i].col = ColOf(tokens'[i].from)
        /\ \A k \in 1..pos : InToken(k)' <=> InToken(k)
    BY <1>1, <1>3, <1>4, TokensKept
  <1>6. LexTypes'
    <2>1. done' \in BOOLEAN
      BY <1>1
    <2> QED
      BY <1>1, <1>2, <1>3, <1>5, <2>1 DEF LexTypes
  <1>7. CursorInv'
    BY <1>1 DEF LexInv, CursorInv, LineOf, ColOf
  <1>8. PlaceInv'
    <2>1. \A i \in 1..Len(errors') : /\ errors'[i].line = LineOf(errors'[i].at)
                                     /\ errors'[i].col = ColOf(errors'[i].at)
      BY <1>1, ErrorsKept
    <2>2. src' = src
      BY <1>1
    <2> QED
      BY <1>5, <2>1, <2>2 DEF PlaceInv, LineOf, ColOf
  <1>9. ASSUME NEW k \in 1..pos PROVE Covered(k)'
    <2>1. Covered(k)
      BY DEF LexInv, CoverInv
    <2>2. InComment(k) => InComment(k)'
      <3>1. \A j \in 1..k : InToken(j)' <=> InToken(j)
        BY <1>2, <1>5
      <3> QED
        BY <1>1, <3>1 DEF InComment
    <2>3. Reported(k) => Reported(k)'
      BY <1>1 DEF Reported
    <2> QED
      BY <1>1, <1>5, <2>1, <2>2, <2>3 DEF Covered
  <1>10. CoverInv'
    BY <1>1, <1>9 DEF CoverInv
  <1> QED
    BY <1>5, <1>6, <1>7, <1>8, <1>10 DEF LexInv

LEMMA LexStep == LexInv /\ [Next]_vars => LexInv'
  <1> SUFFICES ASSUME LexInv, [Next]_vars PROVE LexInv'
    OBVIOUS
  <1>1. CASE pos < Len(src) /\ Turn
    <2>1. src \in Seq(STRING) /\ pos \in Nat
      BY DEF LexInv, LexTypes
    <2>2. PICK last \in pos + 1..Len(src) : Skips(last) \/ Gives(last) \/ Rejects(last)
      BY <1>1, <2>1, TurnTakes
    <2> QED
      BY <2>2, SkipsKeeps, GivesKeeps, RejectsKeeps
  <1>2. CASE pos >= Len(src) /\ Finish
    BY <1>2, FinishKeeps
  <1>3. CASE UNCHANGED vars
    <2>1. LexTypes' /\ OrderInv' /\ CursorInv'
      BY <1>3 DEF vars, LexInv, LexTypes, OrderInv, CursorInv, LineOf, ColOf
    <2>2. CoverInv'
      BY <1>3 DEF vars, LexInv, CoverInv, Covered, InToken, InComment, Reported
    <2>3. PlaceInv'
      <3>1. src' = src /\ tokens' = tokens /\ errors' = errors
        BY <1>3 DEF vars
      <3>2. /\ \A i \in 1..Len(tokens') : /\ tokens'[i].line = LineOf(tokens'[i].from)
                                          /\ tokens'[i].col = ColOf(tokens'[i].from)
            /\ \A i \in 1..Len(errors') : /\ errors'[i].line = LineOf(errors'[i].at)
                                          /\ errors'[i].col = ColOf(errors'[i].at)
        BY <3>1, ErrorsKept DEF LexInv, PlaceInv
      <3>3. src' = src
        BY <3>1
      <3> QED
        BY <3>2, <3>3 DEF PlaceInv, LineOf, ColOf
    <2> QED
      BY <2>1, <2>2, <2>3 DEF LexInv
  <1> QED
    BY <1>1, <1>2, <1>3 DEF Next

-----------------------------------------------------------------------------
(* The theorems                                                            *)

LEMMA LexerAlways == Spec => []LexInv
  <1> QED
    BY InitiallyLexed, LexStep, PTL DEF Spec

(* The lexer never looks past its text: the cursor stays within it, every    *)
(* token is of a known kind and begins and ends at a position of the text,   *)
(* and the lexer is through only when it has taken all of it.                *)
THEOREM LexerTyped == Spec => []LexTypes
  <1>1. LexInv => LexTypes
    BY DEF LexInv
  <1> QED
    BY <1>1, LexerAlways, PTL

(* Whatever the text, nothing of it is dropped in silence (tokenize()): a    *)
(* character is in one token, in a comment, white space, or reported.        *)
THEOREM NothingDropped == Spec => []NothingIsLost
  BY LexImplies, LexerAlways, PTL

(* Every token and every error carries the line and the column a reader      *)
(* would count, although Cursor::advance() only ever adds to them.           *)
THEOREM PlacesCorrect == Spec => []PositionsAreRight
  BY LexImplies, LexerAlways, PTL

(* No token, comment or broken string takes a line break along: what one     *)
(* line holds cannot change how the next one is read.                        *)
THEOREM LinesApart == Spec => LinesAreIndependent
  <1> DEFINE Apart == \A k \in pos + 1..pos' : src[k] = "\n" => k = pos + 1 /\ pos' = k
  <1>1. ASSUME LexInv, [Next]_vars PROVE [Apart]_vars
    <2>1. src \in Seq(STRING) /\ pos \in Nat
      BY <1>1 DEF LexInv, LexTypes
    <2>2. CASE pos < Len(src) /\ Turn
      <3>1. PICK last \in pos + 1..Len(src) : OnOneLine(last) /\ (Skips(last) \/ Gives(last) \/ Rejects(last))
        BY <2>1, <2>2, TurnTakes
      <3>2. pos' = last
        BY <3>1 DEF Skips, Gives, Rejects, Take, Advance
      <3> QED
        BY <3>1, <3>2 DEF OnOneLine
    <2>3. CASE pos >= Len(src) /\ Finish
      <3>1. pos' = pos /\ \A k \in pos + 1..pos : FALSE
        BY <2>1, <2>3 DEF Finish
      <3> QED
        BY <3>1
    <2>4. CASE UNCHANGED vars
      BY <2>4
    <2> QED
      BY <1>1, <2>2, <2>3, <2>4 DEF Next
  <1> QED
    BY <1>1, LexerAlways, PTL DEF Spec, LinesAreIndependent


-----------------------------------------------------------------------------
(* The driver                                                              *)

Texts == {"whole", "short", "failed"}
Begun == [name : STRING, text : Texts]

DriverTypes ==
    /\ stage \in {"arguments", "read", "parse", "analyze", "output", "write", "exit"}
    /\ files \in Seq(STRING) /\ written \in Seq(Begun) /\ folder \in BOOLEAN

\* The outputs are begun in their order, each once.
InTurn == \A k \in 1..Len(written) : k <= Len(files) /\ written[k].name = files[k]
\* What the driver has decided when it comes to a stage.
StageInv ==
    /\ stage \notin {"write", "exit"} => written = <<>> /\ ~folder
    /\ stage \in {"arguments", "read", "parse", "analyze"} => files = <<>>
    /\ stage \in {"output", "write"} => files # <<>>
    /\ stage = "write" =>
          /\ folder /\ ~ParseArguments.list
          /\ \A k \in 1..Len(written) : written[k].text # "failed"
DriverInv == DriverTypes /\ InTurn /\ StageInv /\ FilesMatchExit

LEMMA InitiallyDriven == DriverInit => DriverInv
  <1> SUFFICES ASSUME DriverInit PROVE DriverInv
    OBVIOUS
  <1>1. stage = "arguments" /\ files = <<>> /\ written = <<>> /\ folder = FALSE
    BY DEF DriverInit
  <1>2. <<>> \in Seq(STRING) /\ <<>> \in Seq(Begun) /\ Len(<<>>) = 0
    BY EmptySeq
  <1>3. DriverTypes
    BY <1>1, <1>2 DEF DriverTypes
  <1>4. InTurn
    BY <1>1, <1>2 DEF InTurn
  <1>5. StageInv /\ FilesMatchExit
    BY <1>1 DEF StageInv, FilesMatchExit
  <1> QED
    BY <1>3, <1>4, <1>5 DEF DriverInv

\* One file more, the next one.
LEMMA WriteKeeps ==
    ASSUME DriverInv, NEW text \in Texts, Write(text), Len(written) < Len(files), files' = files
    PROVE  /\ written' \in Seq(Begun) /\ InTurn' /\ Len(written') = Len(written) + 1
           /\ \A k \in 1..Len(written') :
                 \/ k \in 1..Len(written) /\ written'[k] = written[k]
                 \/ written'[k].text = text
  <1> DEFINE n == Len(written)
  <1>1. files \in Seq(STRING) /\ written \in Seq(Begun) /\ n \in Nat /\ Len(files) \in Nat
    BY LenProperties DEF DriverInv, DriverTypes
  <1>2. n + 1 \in 1..Len(files)
    BY <1>1
  <1>3. files[n + 1] \in STRING
    BY <1>1, <1>2, ElementOfSeq
  <1>4. PICK e : e = [name |-> files[n + 1], text |-> text]
    OBVIOUS
  <1>5. e \in Begun /\ e.name = files[n + 1] /\ e.text = text
    BY <1>3, <1>4 DEF Begun
  <1>6. written' = Append(written, e)
    BY <1>4 DEF Write
  <1>7. /\ Append(written, e) \in Seq(Begun) /\ Len(Append(written, e)) = n + 1
        /\ \A i \in 1..n : Append(written, e)[i] = written[i]
        /\ Append(written, e)[n + 1] = e
    BY <1>1, <1>5, AppendProperties
  <1>8. /\ written' \in Seq(Begun) /\ Len(written') = n + 1
        /\ \A i \in 1..n : written'[i] = written[i]
        /\ written'[n + 1] = e
    BY <1>6, <1>7, Zenon
  <1>9. \A k \in 1..Len(written') : k <= Len(files') /\ written'[k].name = files'[k]
    <2>1. \A k \in 1..n : k <= Len(files) /\ written[k].name = files[k]
      BY DEF DriverInv, InTurn
    <2>2. \A k \in 1..n + 1 : k \in 1..n \/ k = n + 1
      BY <1>1
    <2> QED
      BY <1>1, <1>2, <1>5, <1>8, <2>1, <2>2
  <1>10. \A k \in 1..Len(written') : (k \in 1..n /\ written'[k] = written[k]) \/ written'[k].text = text
    BY <1>1, <1>5, <1>8
  <1> QED
    BY <1>8, <1>9, <1>10 DEF InTurn

\* The command line is read once.
LEMMA ArgumentsKept ==
    ASSUME args' = args
    PROVE  ParseArguments' = ParseArguments
  <1>1. \A k : IsValue(k)' <=> IsValue(k)
    BY DEF IsValue
  <1>2. Words' = Words
    BY <1>1 DEF Words
  <1>3. \A text : Given(text)' <=> Given(text)
    BY <1>2 DEF Given
  <1> QED
    BY <1>2, <1>3 DEF ParseArguments

\* What leaves the driver before it has begun to write.
LEMMA EarlyExit ==
    ASSUME DriverInv, stage # "write", stage # "exit", NEW code, ExitWith(code),
           UNCHANGED <<args, files, written, folder>>,
           code = 0 => ParseArguments.help \/ ParseArguments.list
    PROVE  DriverInv'
  <1>1. /\ stage' = "exit" /\ exit' = code /\ args' = args
        /\ files' = files /\ written' = written /\ folder' = folder
    BY DEF ExitWith
  <1>2. written = <<>> /\ ~folder /\ Len(<<>>) = 0
    BY EmptySeq DEF DriverInv, StageInv
  <1>3. DriverTypes'
    BY <1>1 DEF DriverInv, DriverTypes
  <1>4. InTurn'
    BY <1>1 DEF DriverInv, InTurn
  <1>5. StageInv'
    BY <1>1 DEF StageInv
  <1>6. ParseArguments' = ParseArguments
    BY <1>1, ArgumentsKept
  <1>7. DOMAIN written = {}
    <2>1. written \in Seq(Begun)
      BY DEF DriverInv, DriverTypes
    <2> QED
      BY <1>2, <2>1, LenProperties
  <1>8. FilesMatchExit'
    BY <1>1, <1>2, <1>6, <1>7 DEF FilesMatchExit
  <1> QED
    BY <1>3, <1>4, <1>5, <1>8 DEF DriverInv

LEMMA DriverStep == DriverInv /\ [DriverNext]_driverVars => DriverInv'
  <1> SUFFICES ASSUME DriverInv, [DriverNext]_driverVars PROVE DriverInv'
    OBVIOUS
  <1>a. /\ files \in Seq(STRING) /\ written \in Seq(Begun) /\ folder \in BOOLEAN
        /\ Len(files) \in Nat /\ Len(written) \in Nat /\ DOMAIN written = 1..Len(written)
    BY LenProperties DEF DriverInv, DriverTypes
  <1>b. InTurn /\ StageInv
    BY DEF DriverInv
  \* A stage before the first file that leads to another one of these.
  <1>c. ASSUME stage \notin {"write", "exit"}, UNCHANGED <<args, files, written, folder>>,
               stage' \in {"read", "parse", "analyze"}, files = <<>>
        PROVE  DriverInv'
    BY <1>a, <1>b, <1>c DEF DriverInv, DriverTypes, InTurn, StageInv, FilesMatchExit
  <1>1. CASE ReadArguments
    <2>1. stage = "arguments" /\ files = <<>> /\ UNCHANGED <<args, files, written, folder>>
      BY <1>1, <1>b DEF ReadArguments, StageInv
    <2>2. \/ ExitWith(2) \/ (ParseArguments.help /\ ExitWith(0)) \/ stage' = "read"
      BY <1>1 DEF ReadArguments
    <2> QED
      BY <1>c, <2>1, <2>2, EarlyExit
  <1>2. CASE ReadSource
    <2>1. stage = "read" /\ files = <<>> /\ UNCHANGED <<args, files, written, folder>>
      BY <1>2, <1>b DEF ReadSource, StageInv
    <2>2. stage' = "parse" \/ ExitWith(1)
      BY <1>2 DEF ReadSource
    <2> QED
      BY <1>c, <2>1, <2>2, EarlyExit
  <1>3. ASSUME NEW accepted \in BOOLEAN, JudgeSyntax(accepted) PROVE DriverInv'
    <2>1. stage = "parse" /\ files = <<>> /\ UNCHANGED <<args, files, written, folder>>
      BY <1>3, <1>b DEF JudgeSyntax, StageInv
    <2>2. stage' = "analyze" \/ ExitWith(1)
      BY <1>3 DEF JudgeSyntax
    <2> QED
      BY <1>c, <2>1, <2>2, EarlyExit
  <1>4. CASE AnyTree
    <2>1. PICK outcome \in {"errors", "dies", "ir"} :
              /\ JudgeTree(outcome, files')
              /\ outcome = "ir" => files' \in Seq(STRING) /\ files' # <<>>
      BY <1>4 DEF AnyTree
    <2>2. /\ stage = "analyze" /\ args' = args /\ written' = written /\ folder' = folder
          /\ written = <<>> /\ ~folder
      BY <1>b, <2>1 DEF JudgeTree, StageInv
    <2>3. CASE outcome \in {"errors", "dies"}
      <3>1. files' = files /\ (ExitWith(1) \/ ExitWith(Crashed))
        BY <2>1, <2>3 DEF JudgeTree
      <3>2. Crashed # 0
        BY DEF Crashed
      <3> QED
        BY <2>2, <3>1, <3>2, EarlyExit
    <2>4. CASE outcome = "ir"
      <3>1. stage' = "output" /\ files' \in Seq(STRING) /\ files' # <<>>
        BY <2>1, <2>4 DEF JudgeTree
      <3>2. Len(written) = 0
        BY <2>2, EmptySeq
      <3>3. DriverTypes' /\ InTurn'
        BY <1>a, <2>2, <3>1, <3>2 DEF DriverTypes, InTurn
      <3>4. StageInv' /\ FilesMatchExit'
        BY <2>2, <3>1 DEF StageInv, FilesMatchExit
      <3> QED
        BY <3>3, <3>4 DEF DriverInv
    <2> QED
      BY <2>3, <2>4
  <1>5. CASE ListOutputs
    <2>1. stage = "output" /\ ParseArguments.list /\ ExitWith(0) /\ UNCHANGED <<args, files, written, folder>>
      BY <1>5 DEF ListOutputs
    <2> QED
      BY <2>1, EarlyExit
  <1>6. CASE CreateFolder
    <2>1. stage = "output" /\ ~ParseArguments.list /\ UNCHANGED <<args, files, written>>
      BY <1>6 DEF CreateFolder
    <2>2. CASE ExitWith(1) /\ folder' = folder
      BY <2>1, <2>2, EarlyExit
    <2>3. CASE stage' = "write" /\ folder' = TRUE
      <3>1. ~ParseArguments.list'
        BY <2>1, ArgumentsKept
      <3> QED
        BY <1>a, <1>b, <2>1, <2>3, <3>1 DEF DriverInv, DriverTypes, InTurn, StageInv, FilesMatchExit
    <2> QED
      BY <1>6, <2>2, <2>3 DEF CreateFolder
  <1>7. CASE WriteFile
    <2>1. /\ stage = "write" /\ Len(written) < Len(files) /\ args' = args /\ files' = files /\ folder' = folder
          /\ folder /\ ~ParseArguments.list /\ files # <<>>
      BY <1>7, <1>b DEF WriteFile, StageInv
    <2>2. ParseArguments' = ParseArguments
      BY <2>1, ArgumentsKept
    <2>3. CASE ExitWith(1) /\ written' = written
      <3>1. stage' = "exit" /\ exit' = 1
        BY <2>3 DEF ExitWith
      <3>2. DriverTypes' /\ InTurn' /\ StageInv'
        BY <1>a, <1>b, <2>1, <2>3, <3>1 DEF DriverTypes, InTurn, StageInv
      <3>3. FilesMatchExit'
        BY <1>a, <1>b, <2>1, <2>2, <2>3, <3>1 DEF FilesMatchExit, InTurn, Crashed
      <3> QED
        BY <3>2, <3>3 DEF DriverInv
    <2>4. ASSUME NEW text \in Texts, Write(text),
                 ExitWith(1) \/ (text # "failed" /\ stage' = stage /\ exit' = exit)
          PROVE  DriverInv'
      <3>1. /\ written' \in Seq(Begun) /\ InTurn' /\ Len(written') = Len(written) + 1
            /\ \A k \in 1..Len(written') :
                  \/ k \in 1..Len(written) /\ written'[k] = written[k]
                  \/ written'[k].text = text
        BY <2>1, <2>4, WriteKeeps
      <3>6. stage' = "write" => \A k \in 1..Len(written') : written'[k].text # "failed"
        BY <1>b, <2>1, <2>4, <3>1 DEF ExitWith, StageInv
      <3>2. DriverTypes' /\ StageInv'
        BY <1>a, <2>1, <2>2, <2>4, <3>1, <3>6 DEF ExitWith, DriverTypes, StageInv
      <3>3. stage' = "exit" => exit' = 1
        BY <2>1, <2>4 DEF ExitWith
      <3>4. DOMAIN written' = 1..Len(written')
        BY <3>1, LenProperties
      <3>5. FilesMatchExit'
        BY <2>1, <2>2, <3>1, <3>3, <3>4 DEF FilesMatchExit, InTurn, Crashed
      <3> QED
        BY <3>1, <3>2, <3>5 DEF DriverInv
    <2> QED
      BY <1>7, <2>3, <2>4 DEF WriteFile, Texts
  <1>8. CASE Success
    <2>1. /\ stage = "write" /\ Len(written) = Len(files) /\ stage' = "exit" /\ exit' = 0
          /\ UNCHANGED <<args, files, written, folder>>
          /\ folder /\ ~ParseArguments.list /\ files # <<>>
      BY <1>8, <1>b DEF Success, StageInv, ExitWith
    <2>2. ParseArguments' = ParseArguments
      BY <2>1, ArgumentsKept
    <2>3. DriverTypes' /\ InTurn' /\ StageInv'
      BY <1>a, <1>b, <2>1 DEF DriverTypes, InTurn, StageInv
    <2>4. FilesMatchExit'
      BY <1>a, <1>b, <1>8, <2>1, <2>2 DEF Success, FilesMatchExit, InTurn, StageInv, Crashed
    <2> QED
      BY <2>3, <2>4 DEF DriverInv
  <1>9. CASE UNCHANGED driverVars
    <2>1. ParseArguments' = ParseArguments
      BY <1>9, ArgumentsKept DEF driverVars
    <2> QED
      BY <1>9, <2>1 DEF driverVars, DriverInv, DriverTypes, InTurn, StageInv, FilesMatchExit
  <1> QED
    BY <1>1, <1>2, <1>3, <1>4, <1>5, <1>6, <1>7, <1>8, <1>9 DEF DriverNext

LEMMA DriverAlways == DriverSpec => []DriverInv
  BY InitiallyDriven, DriverStep, PTL DEF DriverSpec

(* The exit code of dxxcpp tells what happened to the files, for any command *)
(* line, any number of output files and whatever the parser and the analysis *)
(* find (main() and generate()): a success has begun every output and met no *)
(* failure that writeFile() looks at, what was refused has written nothing,  *)
(* and no output is begun before the ones that stand before it.              *)
THEOREM ExitTellsFiles == DriverSpec => []FilesMatchExit
  <1>1. DriverInv => FilesMatchExit
    BY DEF DriverInv
  <1> QED
    BY <1>1, DriverAlways, PTL

-----------------------------------------------------------------------------
(* Induction, with the set of what is shown as the parameter               *)

LEMMA UpInduction ==
    ASSUME NEW n \in Nat, NEW S, 0 \in S, \A m \in 1..n : m - 1 \in S => m \in S
    PROVE  \A m \in 0..n : m \in S
  <1> DEFINE Rest == (0..n) \ S
  <1>1. Rest \subseteq Nat
    OBVIOUS
  <1>2. ASSUME NEW m \in Rest, \A y \in Rest : m <= y
        PROVE  FALSE
    <2>1. m \in 1..n
      BY <1>2
    <2>2. m - 1 \in 0..n /\ ~(m <= m - 1)
      BY <2>1
    <2> QED
      BY <1>2, <2>1, <2>2
  <1>3. Rest = {}
    BY <1>1, <1>2, MinOfNaturals
  <1> QED
    BY <1>3

LEMMA BackInduction ==
    ASSUME NEW n \in Nat, NEW S,
           \A i \in 1..n : (\A j \in i + 1..n : j \in S) => i \in S
    PROVE  \A i \in 1..n : i \in S
  <1> DEFINE T == {m \in 0..n : \A j \in n - m + 1..n : j \in S}
  <1>1. 0 \in T
    OBVIOUS
  <1>2. ASSUME NEW m \in 1..n, m - 1 \in T
        PROVE  m \in T
    <2> DEFINE i == n - m + 1
    <2>1. i \in 1..n /\ (n - (m - 1)) + 1 = i + 1
      OBVIOUS
    <2>2. \A j \in i + 1..n : j \in S
      BY <1>2, <2>1
    <2>3. i \in S
      BY <2>1, <2>2
    <2>4. \A j \in i..n : j = i \/ j \in i + 1..n
      BY <2>1
    <2> QED
      BY <2>2, <2>3, <2>4
  <1> HIDE DEF T
  <1>3. n \in T
    BY <1>1, <1>2, UpInduction
  <1>4. \A j \in n - n + 1..n : j \in S
    BY <1>3 DEF T
  <1> QED
    BY <1>4

-----------------------------------------------------------------------------
(* The tokens                                                              *)

\* What every state of the parser shows about the file.
LEMMA FileShape ==
    ASSUME IsFile(toks)
    PROVE  /\ Len(toks) \in Nat \ {0} /\ DOMAIN toks = 1..Len(toks)
           /\ \A i \in 1..Len(toks) : toks[i] = End <=> i = Len(toks)
  <1>1. toks \in Seq(STRING) /\ toks # <<>>
    BY DEF IsFile
  <1>2. Len(toks) \in Nat /\ DOMAIN toks = 1..Len(toks) /\ Len(toks) # 0
    BY <1>1, EmptySeq, LenProperties
  <1> QED
    BY <1>2 DEF IsFile

LEMMA OneOn ==
    ASSUME IsFile(toks), NEW i \in 1..Len(toks)
    PROVE  /\ After(i) \in i..Len(toks)
           /\ toks[i] # End => After(i) = i + 1 /\ i + 1 \in 1..Len(toks)
  <1>1. Len(toks) \in Nat /\ (toks[i] # End => i # Len(toks))
    BY FileShape
  <1>2. i \in Nat /\ 1 <= i /\ i <= Len(toks)
    BY <1>1
  <1> QED
    BY <1>1, <1>2 DEF After

\* The kinds that the parser asks for are none of End.
Asked == Marks \union {"Iden"}
LEMMA KindIsNotEnd ==
    ASSUME NEW kind \in Asked, NEW i, Is(i, kind)
    PROVE  toks[i] # End
  BY DEF Asked, Is, IsIden, Marks, End

LEMMA LiteralIsNoMark ==
    ASSUME NEW i, IsLiteral(i)
    PROVE  toks[i] \notin Marks \union {End}
  BY ParserAssumption DEF IsLiteral, IsIden

LEMMA ExpectTakes ==
    ASSUME IsFile(toks), NEW i \in 1..Len(toks), NEW kind \in Asked
    PROVE  LET r == Expect(i, kind)
           IN  \/ r.ok /\ r.i = i + 1 /\ r.i \in 1..Len(toks) /\ Is(i, kind) /\ r.v = toks[i]
               \/ ~r.ok /\ r.i = i
  <1>1. Is(i, kind) => After(i) = i + 1 /\ i + 1 \in 1..Len(toks)
    BY KindIsNotEnd, OneOn
  <1> QED
    BY <1>1 DEF Expect, Got, Failed

LEMMA FollowedTakes ==
    ASSUME IsFile(toks), NEW i \in 1..Len(toks), NEW kind \in Asked, NEW v
    PROVE  LET r == FollowedBy(i, kind, v)
           IN  \/ r.ok /\ r.i = i + 1 /\ r.i \in 1..Len(toks) /\ Is(i, kind) /\ r.v = v
               \/ ~r.ok /\ r.i = i
  <1>1. FollowedBy(i, kind, v) = IF Expect(i, kind).ok THEN Got(Expect(i, kind).i, v) ELSE Expect(i, kind)
    BY DEF FollowedBy, Then
  <1> QED
    BY <1>1, ExpectTakes DEF Got

-----------------------------------------------------------------------------
(* Loops                                                                   *)

\* What a loop finds at i when R is what it finds further on.
TurnOf(R, items, goesOn, i) ==
    IF i \notin goesOn THEN Got(i, <<>>)
    ELSE IF items[i].ok THEN Prefixed(items[i], R[items[i].i]) ELSE items[i]

\* The function that Repeat defines by recursion exists: it is built from the end of the
\* file backwards.
LEMMA RepeatTurns ==
    ASSUME IsFile(toks), NEW items, NEW goesOn,
           \A i \in 1..Len(toks) : i \in goesOn /\ items[i].ok => items[i].i \in i + 1..Len(toks)
    PROVE  \A i \in 1..Len(toks) :
               Repeat(items, goesOn)[i] = TurnOf(Repeat(items, goesOn), items, goesOn, i)
  <1> DEFINE n == Len(toks)
             Solves(g, m) == \A i \in n - m + 1..n : g[i] = TurnOf(g, items, goesOn, i)
             Solved == {m \in 0..n : \E g : Solves(g, m)}
  <1>1. n \in Nat /\ DOMAIN toks = 1..n
    BY FileShape
  <1>2. ASSUME NEW m \in 0..n, m # 0, NEW g, Solves(g, m - 1)
        PROVE  \E h : Solves(h, m)
    <2> DEFINE p == n - m + 1
               h == [i \in p..n |-> IF i = p THEN TurnOf(g, items, goesOn, p) ELSE g[i]]
    <2>1. p \in 1..n /\ (n - (m - 1)) + 1 = p + 1
      BY <1>1, <1>2
    <2>2. ASSUME NEW i \in p..n
          PROVE  TurnOf(h, items, goesOn, i) = TurnOf(g, items, goesOn, i)
      <3>1. CASE i \in goesOn /\ items[i].ok
        <4>1. items[i].i \in i + 1..n
          BY <3>1, <2>1, <1>1
        <4>2. items[i].i \in p..n /\ items[i].i # p
          BY <4>1, <2>1, <1>1
        <4>3. h[items[i].i] = g[items[i].i]
          BY <4>2
        <4> QED
          BY <3>1, <4>3 DEF TurnOf
      <3>2. CASE ~(i \in goesOn /\ items[i].ok)
        BY <3>2 DEF TurnOf
      <3> QED
        BY <3>1, <3>2
    <2>3. \A i \in p..n : i # p => g[i] = TurnOf(g, items, goesOn, i)
      BY <1>2, <2>1, <1>1
    <2>4. \A i \in p..n : h[i] = TurnOf(g, items, goesOn, i)
      BY <2>3
    <2> HIDE DEF h
    <2>5. \A i \in p..n : h[i] = TurnOf(h, items, goesOn, i)
      BY <2>2, <2>4
    <2> QED
      BY <2>5
  <1>3. \E g : Solves(g, n)
    <2>1. \A g : Solves(g, 0)
      BY <1>1
    <2> HIDE DEF Solves
    <2>2. \A m : m \in Solved <=> m \in 0..n /\ \E g : Solves(g, m)
      OBVIOUS
    <2> HIDE DEF Solved
    <2>3. 0 \in Solved
      BY <1>1, <2>1, <2>2
    <2>4. ASSUME NEW m \in 1..n, m - 1 \in Solved PROVE m \in Solved
      <3>1. PICK g : Solves(g, m - 1)
        BY <2>2, <2>4
      <3>2. m \in 0..n /\ m # 0
        BY <1>1
      <3> QED
        BY <1>2, <2>2, <3>1, <3>2
    <2>5. \A m \in 0..n : m \in Solved
      BY <1>1, <2>3, <2>4, UpInduction
    <2> QED
      BY <1>1, <2>2, <2>5
  <1>4. PICK g : \A i \in 1..n : g[i] = TurnOf(g, items, goesOn, i)
    <2>1. (n - n) + 1 = 1
      BY <1>1
    <2> QED
      BY <1>3, <2>1
  <1> DEFINE f == [i \in 1..n |-> g[i]]
  <1>5. ASSUME NEW i \in 1..n
        PROVE  TurnOf(f, items, goesOn, i) = TurnOf(g, items, goesOn, i)
    <2>1. CASE i \in goesOn /\ items[i].ok
      <3>1. items[i].i \in 1..n
        BY <1>1, <2>1
      <3> QED
        BY <2>1, <3>1 DEF TurnOf
    <2>2. CASE ~(i \in goesOn /\ items[i].ok)
      BY <2>2 DEF TurnOf
    <2> QED
      BY <2>1, <2>2
  <1>6. f = [i \in DOMAIN toks |-> TurnOf(f, items, goesOn, i)]
    BY <1>1, <1>4, <1>5
  <1> DEFINE R == Repeat(items, goesOn)
  <1>7. R = CHOOSE r : r = [i \in DOMAIN toks |-> TurnOf(r, items, goesOn, i)]
    BY Zenon DEF Repeat, TurnOf, Then
  <1> HIDE DEF R, f
  <1>8. R = [i \in DOMAIN toks |-> TurnOf(R, items, goesOn, i)]
    BY <1>6, <1>7
  <1>9. \A i \in 1..n : R[i] = TurnOf(R, items, goesOn, i)
    BY <1>1, <1>8
  <1> QED
    BY <1>9 DEF R

\* From i on up to where r stopped there is no token of the kinds in banned; and r, if it
\* succeeded, has taken one token at least.
Reads(i, r, banned) == r.i \in i..Len(toks) /\ \A k \in i..r.i - 1 : toks[k] \notin banned
Takes(i, r, banned) == Reads(i, r, banned) /\ (r.ok => r.i > i)

LEMMA ReadsOn ==
    ASSUME IsFile(toks), NEW i \in 1..Len(toks), NEW j \in i..Len(toks), NEW r, NEW banned,
           \A k \in i..j - 1 : toks[k] \notin banned, Reads(j, r, banned)
    PROVE  Reads(i, r, banned)
  <1>1. Len(toks) \in Nat
    BY FileShape
  <1>2. r.i \in j..Len(toks)
    BY DEF Reads
  <1>3. r.i \in i..Len(toks)
    BY <1>1, <1>2
  <1>4. ASSUME NEW k \in i..r.i - 1 PROVE toks[k] \notin banned
    <2>1. k \in i..j - 1 \/ k \in j..r.i - 1
      BY <1>1, <1>2
    <2> QED
      BY <2>1 DEF Reads
  <1> QED
    BY <1>3, <1>4 DEF Reads

LEMMA PrefixedReads ==
    ASSUME NEW i, NEW first, NEW rest, NEW banned
    PROVE  /\ Reads(i, Prefixed(first, rest), banned) <=> Reads(i, rest, banned)
           /\ Takes(i, Prefixed(first, rest), banned) <=> Takes(i, rest, banned)
  <1>1. Prefixed(first, rest).i = rest.i /\ Prefixed(first, rest).ok = rest.ok
    BY DEF Prefixed
  <1> QED
    BY <1>1 DEF Reads, Takes

LEMMA RepeatReads ==
    ASSUME IsFile(toks), NEW items, NEW goesOn, NEW banned,
           \A i \in 1..Len(toks) : i \in goesOn => Takes(i, items[i], banned)
    PROVE  \A i \in 1..Len(toks) : Reads(i, Repeat(items, goesOn)[i], banned)
  <1> DEFINE n == Len(toks)
             R == Repeat(items, goesOn)
             S == {i \in 1..n : Reads(i, R[i], banned)}
  <1>1. n \in Nat
    BY FileShape
  <1>2. \A i \in 1..n : i \in goesOn /\ items[i].ok => items[i].i \in i + 1..n
    <2> SUFFICES ASSUME NEW i \in 1..n, i \in goesOn, items[i].ok
                 PROVE  items[i].i \in i + 1..n
      OBVIOUS
    <2>1. items[i].i \in i..n /\ items[i].i > i
      BY DEF Takes, Reads
    <2> QED
      BY <1>1, <2>1
  <1>3. \A i \in 1..n : R[i] = TurnOf(R, items, goesOn, i)
    BY <1>2, RepeatTurns
  <1> HIDE DEF R
  <1>4. ASSUME NEW i \in 1..n, \A j \in i + 1..n : j \in S
        PROVE  i \in S
    <2>1. CASE i \notin goesOn
      <3>a. R[i] = Got(i, <<>>)
        BY <1>3, <2>1 DEF TurnOf
      <3>1. R[i].i = i
        BY <3>a DEF Got
      <3>2. i \in i..n /\ i..i - 1 = {}
        BY <1>1
      <3>3. Reads(i, R[i], banned)
        BY <3>1, <3>2 DEF Reads
      <3> QED
        BY <3>3
    <2>2. CASE i \in goesOn /\ ~items[i].ok
      <3>1. R[i] = items[i]
        BY <1>3, <2>2 DEF TurnOf
      <3> QED
        BY <2>2, <3>1 DEF Takes
    <2>3. CASE i \in goesOn /\ items[i].ok
      <3>1. R[i] = Prefixed(items[i], R[items[i].i])
        BY <1>3, <2>3 DEF TurnOf
      <3>2. items[i].i \in i + 1..n
        BY <1>2, <2>3
      <3>3. items[i].i \in i..n
        BY <1>1, <3>2
      <3>4. Reads(items[i].i, R[items[i].i], banned)
        BY <1>4, <3>2
      <3>5. \A k \in i..items[i].i - 1 : toks[k] \notin banned
        BY <2>3 DEF Takes, Reads
      <3>6. Reads(i, R[items[i].i], banned)
        BY <3>3, <3>4, <3>5, ReadsOn
      <3> QED
        BY <3>1, <3>6, PrefixedReads
    <2> QED
      BY <2>1, <2>2, <2>3
  <1> HIDE DEF S
  <1>5. \A i \in 1..n : i \in S
    BY <1>1, <1>4, BackInduction
  <1> QED
    BY <1>5 DEF S, R

LEMMA SeparatedReads ==
    ASSUME IsFile(toks), NEW items, NEW mark \in Marks, NEW banned, mark \notin banned,
           \A i \in 1..Len(toks) : Takes(i, items[i], banned)
    PROVE  \A i \in 1..Len(toks) : Takes(i, Separated(items, mark)[i], banned)
  <1> DEFINE n == Len(toks)
             next == [i \in DOMAIN toks |-> items[After(i)]]
             marked == {i \in DOMAIN toks : Is(i, mark)}
             Further == Repeat(next, marked)
  <1>1. n \in Nat /\ DOMAIN toks = 1..n
    BY FileShape
  <1>2. mark # "Iden" /\ mark # End /\ mark \in Asked
    BY DEF Marks, End, Asked
  <1>3. \A i \in 1..n : i \in marked => Takes(i, next[i], banned)
    <2> SUFFICES ASSUME NEW i \in 1..n, i \in marked
                 PROVE  Takes(i, next[i], banned)
      OBVIOUS
    <2>1. toks[i] = mark /\ next[i] = items[After(i)]
      BY <1>1, <1>2 DEF Is
    <2>2. After(i) = i + 1 /\ i + 1 \in 1..n
      BY <1>2, <2>1, OneOn
    <2>3. Takes(i + 1, next[i], banned)
      BY <2>1, <2>2
    <2>4. \A k \in i..(i + 1) - 1 : toks[k] \notin banned
      BY <2>1
    <2>5. i + 1 \in i..n
      BY <1>1, <2>2
    <2>6. Reads(i, next[i], banned)
      BY <2>3, <2>4, <2>5, ReadsOn DEF Takes
    <2>7. next[i].i > i
      BY <1>1, <2>3 DEF Takes, Reads
    <2> QED
      BY <2>6, <2>7 DEF Takes
  <1> HIDE DEF next, marked
  <1>4. \A i \in 1..n : Reads(i, Further[i], banned)
    BY <1>3, RepeatReads
  <1>5. \A i \in 1..n : Separated(items, mark)[i]
                        = IF items[i].ok THEN Prefixed(items[i], Further[items[i].i]) ELSE items[i]
    BY <1>1 DEF Separated, Then, next, marked
  <1> HIDE DEF Further
  <1> SUFFICES ASSUME NEW i \in 1..n PROVE Takes(i, Separated(items, mark)[i], banned)
    OBVIOUS
  <1>6. CASE items[i].ok
    <2> DEFINE j == items[i].i
    <2>1. j \in i..n /\ j > i /\ \A k \in i..j - 1 : toks[k] \notin banned
      BY <1>6 DEF Takes, Reads
    <2>2. Reads(j, Further[j], banned)
      BY <1>1, <1>4, <2>1
    <2>3. Reads(i, Further[j], banned)
      BY <2>1, <2>2, ReadsOn
    <2>4. Further[j].i > i
      BY <1>1, <2>1, <2>2 DEF Reads
    <2>5. Takes(i, Further[j], banned)
      BY <2>3, <2>4 DEF Takes
    <2> QED
      BY <1>5, <1>6, <2>5, PrefixedReads
  <1>7. CASE ~items[i].ok
    BY <1>5, <1>7
  <1> QED
    BY <1>6, <1>7

-----------------------------------------------------------------------------
(* Nesting                                                                 *)

\* The types of a level when g[l] are those of level l.
TypesFrom(g, levels) ==
    IF levels = 0 THEN [i \in DOMAIN toks |-> Failed(i)]
    ELSE [i \in DOMAIN toks |-> TypeOf(i, Separated(g[levels - 1], ","))]

\* The function that TypesWithin defines by recursion exists.
LEMMA TypesNest ==
    \A levels \in 0..MaxNest : TypesWithin[levels] = TypesFrom(TypesWithin, levels)
  <1> DEFINE n == MaxNest
             Solves(g, m) == \A k \in 0..m : g[k] = TypesFrom(g, k)
             Solved == {m \in 0..n : \E g : Solves(g, m)}
  <1>1. n \in Nat
    BY ParserAssumption
  <1>2. ASSUME NEW m \in 1..n, NEW g, Solves(g, m - 1)
        PROVE  \E h : Solves(h, m)
    <2> DEFINE h == [k \in 0..m |-> IF k = m THEN TypesFrom(g, m) ELSE g[k]]
    <2>1. ASSUME NEW k \in 0..m
          PROVE  TypesFrom(h, k) = TypesFrom(g, k)
      <3>1. CASE k = 0
        BY <3>1 DEF TypesFrom
      <3>2. CASE k # 0
        <4>1. k - 1 \in 0..m /\ k - 1 # m
          BY <1>1, <3>2
        <4>2. h[k - 1] = g[k - 1]
          BY <4>1
        <4> HIDE DEF h
        <4> QED
          BY <3>2, <4>2 DEF TypesFrom
      <3> QED
        BY <3>1, <3>2
    <2>2. ASSUME NEW k \in 0..m
          PROVE  h[k] = TypesFrom(g, k)
      <3>1. k # m => k \in 0..m - 1
        BY <1>1
      <3> QED
        BY <1>2, <3>1
    <2> HIDE DEF h
    <2> QED
      BY <2>1, <2>2
  <1>3. \E g : Solves(g, n)
    <2>1. ASSUME NEW g, g = [k \in 0..0 |-> TypesFrom(<<>>, 0)]
          PROVE  Solves(g, 0)
      BY <2>1 DEF TypesFrom
    <2>2. \E g : Solves(g, 0)
      BY <2>1
    <2> HIDE DEF Solves
    <2>3. \A m : m \in Solved <=> m \in 0..n /\ \E g : Solves(g, m)
      OBVIOUS
    <2> HIDE DEF Solved
    <2>4. 0 \in Solved
      BY <1>1, <2>2, <2>3
    <2>5. ASSUME NEW m \in 1..n, m - 1 \in Solved PROVE m \in Solved
      <3>1. PICK g : Solves(g, m - 1)
        BY <2>3, <2>5
      <3>2. m \in 0..n
        BY <1>1
      <3> QED
        BY <1>2, <2>3, <3>1, <3>2
    <2>6. \A m \in 0..n : m \in Solved
      BY <1>1, <2>4, <2>5, UpInduction
    <2> QED
      BY <1>1, <2>3, <2>6
  <1>4. PICK g : Solves(g, n)
    BY <1>3
  <1> DEFINE f == [k \in 0..n |-> g[k]]
  <1>5. ASSUME NEW k \in 0..n
        PROVE  TypesFrom(f, k) = TypesFrom(g, k)
    <2>1. CASE k = 0
      BY <2>1 DEF TypesFrom
    <2>2. CASE k # 0
      <3>1. k - 1 \in 0..n
        BY <1>1, <2>2
      <3>2. f[k - 1] = g[k - 1]
        BY <3>1
      <3> HIDE DEF f
      <3> QED
        BY <2>2, <3>2 DEF TypesFrom
    <2> QED
      BY <2>1, <2>2
  <1>6. f = [k \in 0..n |-> TypesFrom(f, k)]
    BY <1>4, <1>5
  <1> HIDE DEF f
  <1>7. TypesWithin = CHOOSE r : r = [k \in 0..n |-> TypesFrom(r, k)]
    BY Zenon DEF TypesWithin, TypesFrom
  <1>8. TypesWithin = [k \in 0..n |-> TypesFrom(TypesWithin, k)]
    BY <1>6, <1>7
  <1> QED
    BY <1>8

\* The tokens that no type, name, parameter list or annotation contains.
Plain == {";", "{", "}", End}

LEMMA TypesRead ==
    ASSUME IsFile(toks)
    PROVE  \A levels \in 0..MaxNest : \A i \in 1..Len(toks) : Takes(i, TypesWithin[levels][i], Plain)
  <1> DEFINE n == Len(toks)
             S == {m \in 0..MaxNest : \A i \in 1..n : Takes(i, TypesWithin[m][i], Plain)}
  <1>1. n \in Nat /\ DOMAIN toks = 1..n /\ MaxNest \in Nat
    BY FileShape, ParserAssumption
  <1>2. \A i \in 1..n : Takes(i, Failed(i), Plain)
    BY <1>1 DEF Takes, Reads, Failed
  <1>3. 0 \in S
    <2>1. TypesWithin[0] = [i \in DOMAIN toks |-> Failed(i)]
      <3>1. TypesFrom(TypesWithin, 0) = [i \in DOMAIN toks |-> Failed(i)]
        BY DEF TypesFrom
      <3> QED
        BY <1>1, <3>1, TypesNest
    <2> QED
      BY <1>1, <1>2, <2>1
  <1>4. ASSUME NEW m \in 1..MaxNest, m - 1 \in S
        PROVE  m \in S
    <2> DEFINE arguments == Separated(TypesWithin[m - 1], ",")
    <2>1. m \in 0..MaxNest /\ m # 0
      BY <1>1
    <2>2. \A i \in 1..n : TypesWithin[m][i] = TypeOf(i, arguments)
      BY <1>1, <2>1, TypesNest DEF TypesFrom
    <2>3. "," \in Marks /\ "," \notin Plain
      BY DEF Marks, Plain, End
    <2>4. \A i \in 1..n : Takes(i, TypesWithin[m - 1][i], Plain)
      BY <1>4
    <2>5. \A i \in 1..n : Takes(i, arguments[i], Plain)
      BY <2>3, <2>4, SeparatedReads
    <2> HIDE DEF arguments
    <2> SUFFICES ASSUME NEW i \in 1..n PROVE Takes(i, TypeOf(i, arguments), Plain)
      BY <2>1, <2>2
    <2>6. toks[i] \in Numbers \/ IsIden(i) => toks[i] \notin Plain \union {End}
      BY ParserAssumption DEF IsIden, Marks, Plain
    <2>7. ASSUME NEW v, toks[i] \in Numbers \/ IsIden(i) PROVE Takes(i, Got(After(i), v), Plain)
      <3>1. After(i) = i + 1 /\ i + 1 \in 1..n
        BY <2>6, <2>7, OneOn
      <3>2. Got(After(i), v).i = i + 1
        BY <3>1 DEF Got
      <3>3. i..(i + 1) - 1 = {i} /\ i + 1 \in i..n /\ i + 1 > i
        BY <3>1, <1>1
      <3> QED
        BY <2>6, <2>7, <3>2, <3>3 DEF Takes, Reads
    <2>8. CASE IsIden(i) /\ Is(After(i), "<")
      <3> DEFINE j == i + 2
                 list == arguments[j]
                 r == FollowedBy(list.i, ">", [name |-> toks[i], args |-> list.v])
      <3>1. After(i) = i + 1 /\ i + 1 \in 1..n
        BY <2>6, <2>8, OneOn
      <3>2. toks[i + 1] = "<"
        BY <2>8, <3>1 DEF Is
      <3>3. After(After(i)) = j /\ j \in 1..n /\ j \in i..n
        <4>1. toks[i + 1] # End
          BY <3>2 DEF End
        <4>2. After(i + 1) = (i + 1) + 1 /\ (i + 1) + 1 \in 1..n
          BY <3>1, <4>1, OneOn
        <4> QED
          BY <1>1, <3>1, <4>2
      <3>4. \A k \in i..j - 1 : toks[k] \notin Plain
        <4>1. \A k \in i..j - 1 : k = i \/ k = i + 1
          BY <1>1
        <4> QED
          BY <2>6, <2>8, <3>2, <4>1 DEF Plain, End
      <3>5. Takes(j, list, Plain)
        BY <2>5, <3>3
      <3>6. Reads(i, list, Plain) /\ list.i > i
        BY <1>1, <3>3, <3>4, <3>5, ReadsOn DEF Takes, Reads
      <3>7. TypeOf(i, arguments) = IF list.ok THEN r ELSE list
        BY <2>8, <3>3 DEF TypeOf, Then
      <3> HIDE DEF list, j
      <3>8. list.i \in 1..n /\ list.i \in i..n
        BY <1>1, <3>6 DEF Reads
      <3>9. \/ r.i = list.i + 1 /\ list.i + 1 \in 1..n /\ Is(list.i, ">")
            \/ r.i = list.i
        <4>1. ">" \in Asked
          BY DEF Asked, Marks
        <4> QED
          BY <3>8, <4>1, FollowedTakes
      <3> HIDE DEF r
      <3>10. Reads(list.i, r, Plain) /\ r.i > i
        <4>1. CASE r.i = list.i + 1 /\ list.i + 1 \in 1..n /\ Is(list.i, ">")
          <5>1. toks[list.i] = ">"
            BY <4>1 DEF Is
          <5>2. \A k \in list.i..r.i - 1 : k = list.i
            BY <4>1, <3>8
          <5>3. r.i \in list.i..n /\ r.i > i
            BY <1>1, <4>1, <3>8
          <5> QED
            BY <5>1, <5>2, <5>3 DEF Reads, Plain, End
        <4>2. CASE r.i = list.i
          BY <1>1, <3>6, <3>8, <4>2 DEF Reads
        <4> QED
          BY <3>9, <4>1, <4>2
      <3>11. \A k \in i..list.i - 1 : toks[k] \notin Plain
        BY <3>6 DEF Reads
      <3>12. Takes(i, r, Plain)
        BY <3>8, <3>10, <3>11, ReadsOn DEF Takes
      <3> QED
        BY <3>6, <3>7, <3>12 DEF Takes
    <2>9. CASE (toks[i] \in Numbers \/ IsIden(i)) /\ ~(IsIden(i) /\ Is(After(i), "<"))
      <3>1. TypeOf(i, arguments) = Got(After(i), [name |-> toks[i], args |-> <<>>])
        BY <2>9 DEF TypeOf, Then
      <3> QED
        BY <2>7, <2>9, <3>1
    <2>10. CASE ~IsIden(i) /\ toks[i] \notin Numbers
      <3>1. TypeOf(i, arguments) = Failed(i)
        BY <2>10 DEF TypeOf, Then
      <3> QED
        BY <1>2, <3>1
    <2> QED
      BY <2>8, <2>9, <2>10
  <1> HIDE DEF S
  <1>5. \A m \in 0..MaxNest : m \in S
    BY <1>1, <1>3, <1>4, UpInduction
  <1> QED
    BY <1>5 DEF S

-----------------------------------------------------------------------------
(* Productions                                                             *)

LEMMA StopsWithin ==
    ASSUME IsFile(toks), NEW i \in 1..Len(toks), NEW r, NEW banned, Reads(i, r, banned)
    PROVE  r.i \in 1..Len(toks) /\ r.i >= i
  <1>1. Len(toks) \in Nat
    BY FileShape
  <1> QED
    BY <1>1 DEF Reads

LEMMA NothingRead ==
    ASSUME IsFile(toks), NEW i \in 1..Len(toks), NEW r, r.i = i, NEW banned
    PROVE  Reads(i, r, banned) /\ (~r.ok => Takes(i, r, banned))
  <1>0. Len(toks) \in Nat
    BY FileShape
  <1>1. i \in i..Len(toks) /\ i..i - 1 = {}
    BY <1>0
  <1>2. Reads(i, r, banned)
    BY <1>1 DEF Reads
  <1> QED
    BY <1>2 DEF Takes

LEMMA OneTaken ==
    ASSUME IsFile(toks), NEW i \in 1..Len(toks), NEW r, NEW banned,
           r.i = i + 1, i + 1 \in 1..Len(toks), toks[i] \notin banned
    PROVE  Takes(i, r, banned)
  <1>0. Len(toks) \in Nat
    BY FileShape
  <1>1. i + 1 \in i..Len(toks) /\ i + 1 > i /\ \A k \in i..(i + 1) - 1 : k = i
    BY <1>0
  <1> QED
    BY <1>1 DEF Takes, Reads

\* What goes on where a stopped.
LEMMA ThenReads ==
    ASSUME IsFile(toks), NEW i \in 1..Len(toks), NEW a, NEW p, NEW banned,
           Reads(i, a, banned), a.ok => Reads(a.i, p, banned)
    PROVE  /\ Reads(i, IF a.ok THEN p ELSE a, banned)
           /\ Takes(i, a, banned) => Takes(i, IF a.ok THEN p ELSE a, banned)
           /\ (a.ok => Takes(a.i, p, banned)) => Takes(i, IF a.ok THEN p ELSE a, banned)
  <1>0. Len(toks) \in Nat
    BY FileShape
  <1>1. CASE a.ok
    <2>1. a.i \in i..Len(toks) /\ \A k \in i..a.i - 1 : toks[k] \notin banned
      BY DEF Reads
    <2>2. Reads(i, p, banned)
      BY <1>1, <2>1, ReadsOn
    <2>3. p.i \in a.i..Len(toks)
      BY <1>1 DEF Reads
    <2>4. a.i > i => p.i > i
      BY <1>0, <2>1, <2>3
    <2>5. p.i > a.i => p.i > i
      BY <1>0, <2>1, <2>3
    <2> QED
      BY <1>1, <2>2, <2>4, <2>5 DEF Takes
  <1>2. CASE ~a.ok
    BY <1>2 DEF Takes
  <1> QED
    BY <1>1, <1>2

LEMMA FewerBanned ==
    ASSUME NEW i, NEW r, NEW banned, NEW less, less \subseteq banned
    PROVE  /\ Reads(i, r, banned) => Reads(i, r, less)
           /\ Takes(i, r, banned) => Takes(i, r, less)
  BY DEF Reads, Takes

LEMMA MarkReads ==
    ASSUME IsFile(toks), NEW i \in 1..Len(toks), NEW kind \in Asked, NEW banned,
           kind \notin banned, banned \subseteq Marks \union {End}
    PROVE  /\ Takes(i, Expect(i, kind), banned)
           /\ \A v : Takes(i, FollowedBy(i, kind, v), banned)
  <1>1. Is(i, kind) => toks[i] \notin banned
    BY DEF Is, IsIden, Asked, Marks
  <1>2. ASSUME NEW r, \/ r.i = i + 1 /\ r.i \in 1..Len(toks) /\ Is(i, kind)
                      \/ ~r.ok /\ r.i = i
        PROVE  Takes(i, r, banned)
    BY <1>1, <1>2, OneTaken, NothingRead
  <1>3. Takes(i, Expect(i, kind), banned)
    BY <1>2, ExpectTakes
  <1>4. ASSUME NEW v PROVE Takes(i, FollowedBy(i, kind, v), banned)
    BY <1>2, FollowedTakes
  <1> QED
    BY <1>3, <1>4

\* A name and what must follow it.
LEMMA NamedReads ==
    ASSUME IsFile(toks), NEW i \in 1..Len(toks), NEW kind \in Marks, NEW banned,
           kind \notin banned, banned \subseteq Marks \union {End}
    PROVE  Takes(i, Named(i, kind), banned)
  <1> DEFINE name == Expect(i, "Iden")
  <1>1. "Iden" \in Asked /\ "Iden" \notin banned /\ kind \in Asked
    BY DEF Asked, Marks, End
  <1>2. Takes(i, name, banned)
    BY <1>1, MarkReads
  <1>3. name.ok => Takes(name.i, FollowedBy(name.i, kind, name.v), banned)
    BY <1>1, ExpectTakes, MarkReads
  <1>4. Named(i, kind) = IF name.ok THEN FollowedBy(name.i, kind, name.v) ELSE name
    BY DEF Named, Then
  <1> QED
    BY <1>2, <1>3, <1>4, ThenReads DEF Takes

LEMMA TypeReads ==
    ASSUME IsFile(toks), NEW i \in 1..Len(toks)
    PROVE  Takes(i, ParseType(i), Plain)
  <1>1. MaxNest \in 0..MaxNest
    BY ParserAssumption
  <1> QED
    BY <1>1, TypesRead DEF ParseType

LEMMA PlainMarks == Plain \subseteq Marks \union {End}
  BY DEF Plain, Marks

LEMMA FieldReads ==
    ASSUME IsFile(toks), NEW i \in 1..Len(toks)
    PROVE  Takes(i, ParseField(i), Plain)
  <1> DEFINE type == ParseType(i)
             name == Expect(type.i, "Iden")
             field == Got(name.i, [type |-> type.v, name |-> name.v])
             p == IF name.ok THEN field ELSE name
  <1>1. Takes(i, type, Plain)
    BY TypeReads
  <1>2. type.i \in 1..Len(toks)
    BY <1>1, StopsWithin DEF Takes
  <1>3. "Iden" \in Asked /\ "Iden" \notin Plain
    BY DEF Asked, Plain, End
  <1>4. Takes(type.i, name, Plain)
    BY <1>2, <1>3, MarkReads, PlainMarks
  <1>5. ParseField(i) = IF type.ok THEN p ELSE type
    BY DEF ParseField, Then
  <1> HIDE DEF type
  <1>6. name.ok => name.i \in 1..Len(toks)
    BY <1>2, <1>3, ExpectTakes
  <1> HIDE DEF name
  <1>7. field.i = name.i
    BY DEF Got
  <1> HIDE DEF field
  <1>8. name.ok => Reads(name.i, field, Plain)
    BY <1>6, <1>7, NothingRead
  <1>9. Reads(type.i, p, Plain)
    BY <1>2, <1>4, <1>8, ThenReads DEF Takes
  <1> HIDE DEF p
  <1> QED
    BY <1>1, <1>5, <1>9, ThenReads DEF Takes

LEMMA ParamsRead ==
    ASSUME IsFile(toks), NEW i \in 1..Len(toks)
    PROVE  Reads(i, ParseParams(i), Plain)
  <1> DEFINE items == [k \in DOMAIN toks |-> ParseField(k)]
  <1>1. \A k \in 1..Len(toks) : Takes(k, items[k], Plain)
    BY FieldReads, FileShape
  <1>2. "," \in Marks /\ "," \notin Plain
    BY DEF Marks, Plain, End
  <1>3. ParseParams(i) = IF Is(i, ")") THEN Got(i, <<>>) ELSE Separated(items, ",")[i]
    BY DEF ParseParams
  <1> HIDE DEF items
  <1>4. Takes(i, Separated(items, ",")[i], Plain)
    BY <1>1, <1>2, SeparatedReads
  <1>5. Got(i, <<>>).i = i
    BY DEF Got
  <1>6. Reads(i, Got(i, <<>>), Plain)
    BY <1>5, NothingRead
  <1> QED
    BY <1>3, <1>4, <1>6 DEF Takes

LEMMA DottedReads ==
    ASSUME IsFile(toks), NEW i \in 1..Len(toks)
    PROVE  Takes(i, ParseDottedName(i), Plain)
  <1> DEFINE items == [k \in DOMAIN toks |-> Expect(k, "Iden")]
  <1>1. "Iden" \in Asked /\ "Iden" \notin Plain /\ "." \in Marks /\ "." \notin Plain
    BY DEF Asked, Marks, Plain, End
  <1>2. \A k \in 1..Len(toks) : Takes(k, items[k], Plain)
    BY <1>1, MarkReads, PlainMarks, FileShape
  <1> HIDE DEF items
  <1>3. Takes(i, Separated(items, ".")[i], Plain)
    BY <1>1, <1>2, SeparatedReads
  <1> QED
    BY <1>3 DEF ParseDottedName, items

\* The tokens that the fields of a struct do not contain.
Body == {"{", "}", End}

LEMMA FieldsRead ==
    ASSUME IsFile(toks), NEW i \in 1..Len(toks)
    PROVE  Reads(i, ParseFields(i), Body)
  <1> DEFINE items == [k \in DOMAIN toks |-> ClosedField(k)]
             goesOn == {k \in DOMAIN toks : ~Is(k, "}") /\ ~Is(k, End)}
  <1>1. ASSUME NEW k \in 1..Len(toks) PROVE Takes(k, ClosedField(k), Body)
    <2> DEFINE field == ParseField(k)
               p == FollowedBy(field.i, ";", field.v)
    <2>1. ClosedField(k) = IF field.ok THEN p ELSE field
      BY DEF ClosedField, Then
    <2>2. Body \subseteq Plain /\ ";" \in Asked /\ ";" \notin Body /\ Body \subseteq Marks \union {End}
      BY DEF Body, Plain, Asked, Marks, End
    <2>3. Takes(k, field, Body)
      BY <2>2, FieldReads, FewerBanned
    <2>4. field.i \in 1..Len(toks)
      BY <2>3, StopsWithin DEF Takes
    <2> HIDE DEF field
    <2>5. Takes(field.i, p, Body)
      BY <2>2, <2>4, MarkReads
    <2> HIDE DEF p
    <2> QED
      BY <2>1, <2>3, <2>5, ThenReads DEF Takes
  <1>2. \A k \in 1..Len(toks) : Takes(k, items[k], Body)
    BY <1>1, FileShape
  <1> HIDE DEF items, goesOn
  <1>3. Reads(i, Repeat(items, goesOn)[i], Body)
    BY <1>2, RepeatReads
  <1> QED
    BY <1>3 DEF ParseFields, items, goesOn

\* The initializers of a level when g[l] are those of level l.
ValuesFrom(g, levels) ==
    IF levels = 0 THEN [i \in DOMAIN toks |-> Failed(i)]
    ELSE [i \in DOMAIN toks |->
             ValueOf(i, Separated([k \in DOMAIN toks |-> ElementOf(k, g[levels - 1])], ","))]

\* The function that ValuesWithin defines by recursion exists.
LEMMA ValuesNest ==
    \A levels \in 0..MaxNest : ValuesWithin[levels] = ValuesFrom(ValuesWithin, levels)
  <1> DEFINE n == MaxNest
             Solves(g, m) == \A k \in 0..m : g[k] = ValuesFrom(g, k)
             Solved == {m \in 0..n : \E g : Solves(g, m)}
  <1>1. n \in Nat
    BY ParserAssumption
  <1>2. ASSUME NEW m \in 1..n, NEW g, Solves(g, m - 1)
        PROVE  \E h : Solves(h, m)
    <2> DEFINE h == [k \in 0..m |-> IF k = m THEN ValuesFrom(g, m) ELSE g[k]]
    <2>1. ASSUME NEW k \in 0..m
          PROVE  ValuesFrom(h, k) = ValuesFrom(g, k)
      <3>1. CASE k = 0
        BY <3>1 DEF ValuesFrom
      <3>2. CASE k # 0
        <4>1. k - 1 \in 0..m /\ k - 1 # m
          BY <1>1, <3>2
        <4>2. h[k - 1] = g[k - 1]
          BY <4>1
        <4> HIDE DEF h
        <4> QED
          BY <3>2, <4>2 DEF ValuesFrom
      <3> QED
        BY <3>1, <3>2
    <2>2. ASSUME NEW k \in 0..m
          PROVE  h[k] = ValuesFrom(g, k)
      <3>1. k # m => k \in 0..m - 1
        BY <1>1
      <3> QED
        BY <1>2, <3>1
    <2> HIDE DEF h
    <2> QED
      BY <2>1, <2>2
  <1>3. \E g : Solves(g, n)
    <2>1. ASSUME NEW g, g = [k \in 0..0 |-> ValuesFrom(<<>>, 0)]
          PROVE  Solves(g, 0)
      BY <2>1 DEF ValuesFrom
    <2>2. \E g : Solves(g, 0)
      BY <2>1
    <2> HIDE DEF Solves
    <2>3. \A m : m \in Solved <=> m \in 0..n /\ \E g : Solves(g, m)
      OBVIOUS
    <2> HIDE DEF Solved
    <2>4. 0 \in Solved
      BY <1>1, <2>2, <2>3
    <2>5. ASSUME NEW m \in 1..n, m - 1 \in Solved PROVE m \in Solved
      <3>1. PICK g : Solves(g, m - 1)
        BY <2>3, <2>5
      <3>2. m \in 0..n
        BY <1>1
      <3> QED
        BY <1>2, <2>3, <3>1, <3>2
    <2>6. \A m \in 0..n : m \in Solved
      BY <1>1, <2>4, <2>5, UpInduction
    <2> QED
      BY <1>1, <2>3, <2>6
  <1>4. PICK g : Solves(g, n)
    BY <1>3
  <1> DEFINE f == [k \in 0..n |-> g[k]]
  <1>5. ASSUME NEW k \in 0..n
        PROVE  ValuesFrom(f, k) = ValuesFrom(g, k)
    <2>1. CASE k = 0
      BY <2>1 DEF ValuesFrom
    <2>2. CASE k # 0
      <3>1. k - 1 \in 0..n
        BY <1>1, <2>2
      <3>2. f[k - 1] = g[k - 1]
        BY <3>1
      <3> HIDE DEF f
      <3> QED
        BY <2>2, <3>2 DEF ValuesFrom
    <2> QED
      BY <2>1, <2>2
  <1>6. f = [k \in 0..n |-> ValuesFrom(f, k)]
    BY <1>4, <1>5
  <1> HIDE DEF f
  <1>7. ValuesWithin = CHOOSE r : r = [k \in 0..n |-> ValuesFrom(r, k)]
    BY Zenon DEF ValuesWithin, ValuesFrom
  <1>8. ValuesWithin = [k \in 0..n |-> ValuesFrom(ValuesWithin, k)]
    BY <1>6, <1>7
  <1> QED
    BY <1>8

\* The tokens that no initializer contains.
NoSemi == {";", End}

LEMMA ValuesRead ==
    ASSUME IsFile(toks)
    PROVE  \A levels \in 0..MaxNest : \A i \in 1..Len(toks) : Takes(i, ValuesWithin[levels][i], NoSemi)
  <1> DEFINE n == Len(toks)
             S == {m \in 0..MaxNest : \A i \in 1..n : Takes(i, ValuesWithin[m][i], NoSemi)}
  <1>1. n \in Nat /\ DOMAIN toks = 1..n /\ MaxNest \in Nat
    BY FileShape, ParserAssumption
  <1>2. ASSUME NEW i \in 1..n PROVE Takes(i, Failed(i), NoSemi)
    <2>1. Failed(i).i = i /\ ~Failed(i).ok
      BY DEF Failed
    <2> QED
      BY <2>1, NothingRead
  <1>3. 0 \in S
    <2>1. ValuesWithin[0] = [i \in DOMAIN toks |-> Failed(i)]
      <3>1. ValuesFrom(ValuesWithin, 0) = [i \in DOMAIN toks |-> Failed(i)]
        BY DEF ValuesFrom
      <3> QED
        BY <1>1, <3>1, ValuesNest
    <2> QED
      BY <1>1, <1>2, <2>1
  <1>4. ASSUME NEW m \in 1..MaxNest, m - 1 \in S
        PROVE  m \in S
    <2> DEFINE items == [k \in DOMAIN toks |-> ElementOf(k, ValuesWithin[m - 1])]
               elements == Separated(items, ",")
    <2>1. m \in 0..MaxNest /\ m # 0
      BY <1>1
    <2>2. \A i \in 1..n : ValuesWithin[m][i] = ValueOf(i, elements)
      <3>1. ValuesFrom(ValuesWithin, m) = [i \in DOMAIN toks |-> ValueOf(i, elements)]
        BY <2>1 DEF ValuesFrom
      <3> HIDE DEF elements
      <3> QED
        BY <1>1, <2>1, <3>1, ValuesNest
    <2>3. "," \in Marks /\ "," \notin NoSemi /\ NoSemi \subseteq Marks \union {End}
      BY DEF Marks, NoSemi, End
    <2>4. ASSUME NEW i \in 1..n PROVE Takes(i, ElementOf(i, ValuesWithin[m - 1]), NoSemi)
      <3>1. CASE Is(i, "{")
        <4>1. ElementOf(i, ValuesWithin[m - 1]) = ValuesWithin[m - 1][i]
          BY <3>1 DEF ElementOf
        <4> QED
          BY <1>4, <4>1
      <3>2. CASE ~Is(i, "{") /\ IsLiteral(i)
        <4>1. toks[i] \notin Marks \union {End}
          BY <3>2, LiteralIsNoMark
        <4>2. After(i) = i + 1 /\ i + 1 \in 1..n
          BY <4>1, OneOn
        <4>3. ElementOf(i, ValuesWithin[m - 1]) = Got(After(i), <<toks[i]>>)
          BY <3>2 DEF ElementOf
        <4>4. ElementOf(i, ValuesWithin[m - 1]).i = i + 1
          BY <4>2, <4>3 DEF Got
        <4>5. toks[i] \notin NoSemi
          BY <4>1, <2>3
        <4> QED
          BY <4>2, <4>4, <4>5, OneTaken
      <3>3. CASE ~Is(i, "{") /\ ~IsLiteral(i)
        <4>1. ElementOf(i, ValuesWithin[m - 1]) = Failed(i)
          BY <3>3 DEF ElementOf
        <4> QED
          BY <1>2, <4>1
      <3> QED
        BY <3>1, <3>2, <3>3
    <2>5. \A i \in 1..n : Takes(i, items[i], NoSemi)
      BY <1>1, <2>4
    <2> HIDE DEF items
    <2>6. \A i \in 1..n : Takes(i, elements[i], NoSemi)
      BY <2>3, <2>5, SeparatedReads
    <2> HIDE DEF elements
    <2> SUFFICES ASSUME NEW i \in 1..n PROVE Takes(i, ValueOf(i, elements), NoSemi)
      BY <2>1, <2>2
    <2>7. CASE ~Is(i, "{")
      <3>1. ValueOf(i, elements) = Failed(i)
        BY <2>7 DEF ValueOf
      <3> QED
        BY <1>2, <3>1
    <2>8. CASE Is(i, "{")
      <3> DEFINE brace == Expect(i, "{")
                 inner == elements[i + 1]
                 text == <<"{">> \o Listed(inner.v, ",", LAMBDA v : v) \o <<"}">>
                 close == FollowedBy(inner.i, "}", text)
                 empty == Got(After(i + 1), <<"{", "}">>)
                 p == IF Is(i + 1, "}") THEN empty ELSE IF inner.ok THEN close ELSE inner
      <3>1. "{" \in Asked /\ "{" \notin NoSemi /\ "}" \in Asked /\ "}" \notin NoSemi
        BY DEF Asked, Marks, NoSemi, End
      <3>2. Takes(i, brace, NoSemi) /\ brace.ok /\ brace.i = i + 1 /\ i + 1 \in 1..n
        BY <2>3, <2>8, <3>1, MarkReads, ExpectTakes DEF Expect, Got
      <3>3. After(i) = i + 1
        BY <2>8, <3>1, KindIsNotEnd, OneOn
      <3>4. ValueOf(i, elements) = p
        BY <2>8, <3>3 DEF ValueOf, Then
      <3>5. ASSUME Is(i + 1, "}") PROVE Takes(i + 1, empty, NoSemi)
        <4>1. toks[i + 1] = "}" /\ toks[i + 1] \notin NoSemi /\ toks[i + 1] # End
          BY <3>5 DEF Is, NoSemi, End
        <4>2. After(i + 1) = (i + 1) + 1 /\ (i + 1) + 1 \in 1..n
          BY <3>2, <4>1, OneOn
        <4>3. empty.i = (i + 1) + 1
          BY <4>2 DEF Got
        <4> HIDE DEF empty
        <4> QED
          BY <3>2, <4>1, <4>2, <4>3, OneTaken
      <3> HIDE DEF text, empty
      <3>6. Takes(i + 1, inner, NoSemi)
        BY <2>6, <3>2
      <3>7. inner.i \in 1..n
        BY <3>2, <3>6, StopsWithin DEF Takes
      <3> HIDE DEF inner
      <3>8. Takes(inner.i, close, NoSemi)
        BY <2>3, <3>1, <3>7, MarkReads
      <3> HIDE DEF close
      <3>9. Takes(i + 1, p, NoSemi)
        <4>1. Takes(i + 1, IF inner.ok THEN close ELSE inner, NoSemi)
          BY <3>2, <3>6, <3>8, ThenReads DEF Takes
        <4> QED
          BY <3>5, <4>1
      <3> HIDE DEF p, brace
      <3>10. Takes(i, IF brace.ok THEN p ELSE brace, NoSemi)
        BY <3>2, <3>9, ThenReads DEF Takes
      <3> QED
        BY <3>2, <3>4, <3>10
    <2> QED
      BY <2>7, <2>8
  <1> HIDE DEF S
  <1>5. \A m \in 0..MaxNest : m \in S
    BY <1>1, <1>3, <1>4, UpInduction
  <1> QED
    BY <1>5 DEF S

LEMMA AnnotationReads ==
    ASSUME IsFile(toks), NEW i \in 1..Len(toks), Is(i, "@")
    PROVE  Takes(i, ParseAnnotation(i), Plain)
  <1> DEFINE n == Len(toks)
             name == Expect(After(i), "Iden")
             value == After(name.i)
             With(v) == [name |-> name.v, value |-> v]
             bare == Got(name.i, With(<<>>))
             empty == Got(After(value), With(<<"">>))
             whole == FollowedBy(After(value), ")", With(<<toks[value]>>))
             p == IF ~Is(name.i, "(") THEN bare
                  ELSE IF Is(value, ")") THEN empty
                  ELSE IF ~IsLiteral(value) THEN Failed(value)
                  ELSE whole
  <1>0. n \in Nat
    BY FileShape
  <1>1. "Iden" \in Asked /\ "Iden" \notin Plain /\ "@" \in Asked /\ toks[i] \notin Plain
    BY DEF Asked, Marks, Plain, End, Is
  <1>2. After(i) = i + 1 /\ i + 1 \in 1..n
    BY <1>1, KindIsNotEnd, OneOn
  <1>3. Takes(i + 1, name, Plain) /\ (name.ok => name.i \in 1..n)
    BY <1>1, <1>2, MarkReads, PlainMarks, ExpectTakes
  <1>4. ParseAnnotation(i) = IF name.ok THEN p ELSE name
    BY DEF ParseAnnotation, Then
  <1> HIDE DEF name
  <1>5. ASSUME name.ok PROVE Reads(name.i, p, Plain)
    <2>1. bare.i = name.i /\ name.i \in 1..n
      BY <1>3, <1>5 DEF Got
    <2> HIDE DEF bare
    <2>2. CASE ~Is(name.i, "(")
      BY <2>1, <2>2, NothingRead
    <2>3. CASE Is(name.i, "(")
      <3>1. toks[name.i] = "(" /\ toks[name.i] \notin Plain /\ toks[name.i] # End
        BY <2>3 DEF Is, Plain, End
      <3>2. value = name.i + 1 /\ value \in 1..n /\ \A k \in name.i..value - 1 : k = name.i
        BY <2>1, <3>1, OneOn
      <3>3. value \in name.i..n
        BY <1>0, <2>1, <3>2
      <3>4. ASSUME NEW r, Reads(value, r, Plain) PROVE Reads(name.i, r, Plain)
        BY <2>1, <3>1, <3>2, <3>3, <3>4, ReadsOn
      <3>5. CASE Is(value, ")")
        <4>1. toks[value] = ")" /\ toks[value] \notin Plain /\ toks[value] # End
          BY <3>5 DEF Is, Plain, End
        <4>2. empty.i = value + 1 /\ value + 1 \in 1..n
          BY <3>2, <4>1, OneOn DEF Got
        <4> HIDE DEF empty
        <4>3. Takes(value, empty, Plain)
          BY <3>2, <4>1, <4>2, OneTaken
        <4> QED
          BY <2>3, <3>4, <3>5, <4>3 DEF Takes
      <3>6. CASE ~Is(value, ")") /\ ~IsLiteral(value)
        <4>1. Failed(value).i = value
          BY DEF Failed
        <4>2. Reads(value, Failed(value), Plain)
          BY <3>2, <4>1, NothingRead
        <4> QED
          BY <2>3, <3>4, <3>6, <4>2
      <3>7. CASE ~Is(value, ")") /\ IsLiteral(value)
        <4>1. toks[value] \notin Plain /\ toks[value] # End
          BY <3>7, LiteralIsNoMark, PlainMarks
        <4>2. After(value) = value + 1 /\ value + 1 \in 1..n
          BY <3>2, <4>1, OneOn
        <4>3. ")" \in Asked /\ ")" \notin Plain
          BY DEF Asked, Marks, Plain, End
        <4>4. Takes(value + 1, whole, Plain)
          BY <4>2, <4>3, MarkReads, PlainMarks
        <4> HIDE DEF whole
        <4>5. value + 1 \in value..n /\ \A k \in value..(value + 1) - 1 : k = value
          BY <1>0, <3>2, <4>2
        <4>6. Reads(value, whole, Plain)
          BY <3>2, <4>1, <4>4, <4>5, ReadsOn DEF Takes
        <4> QED
          BY <2>3, <3>4, <3>7, <4>6
      <3> QED
        BY <3>5, <3>6, <3>7
    <2> QED
      BY <2>2, <2>3
  <1> HIDE DEF p
  <1>6. Reads(i + 1, IF name.ok THEN p ELSE name, Plain)
    BY <1>2, <1>3, <1>5, ThenReads DEF Takes
  <1>7. i + 1 \in i..n /\ i + 1 > i /\ \A k \in i..(i + 1) - 1 : k = i
    BY <1>0, <1>2
  <1> DEFINE r == IF name.ok THEN p ELSE name
  <1> HIDE DEF r
  <1>8. Reads(i + 1, r, Plain)
    BY <1>6 DEF r
  <1>9. r.i >= i + 1
    BY <1>2, <1>8, StopsWithin
  <1>10. Reads(i, r, Plain)
    BY <1>1, <1>7, <1>8, ReadsOn
  <1>11. r.i > i
    BY <1>0, <1>2, <1>8, <1>9 DEF Reads
  <1> QED
    BY <1>4, <1>10, <1>11 DEF r, Takes

LEMMA AnnotationsRead ==
    ASSUME IsFile(toks), NEW i \in 1..Len(toks)
    PROVE  Reads(i, ParseAnnotations(i), Plain)
  <1> DEFINE items == [k \in DOMAIN toks |-> ParseAnnotation(k)]
             goesOn == {k \in DOMAIN toks : Is(k, "@")}
  <1>1. \A k \in 1..Len(toks) : k \in goesOn => Takes(k, items[k], Plain)
    BY AnnotationReads, FileShape
  <1> HIDE DEF items, goesOn
  <1>2. Reads(i, Repeat(items, goesOn)[i], Plain)
    BY <1>1, RepeatReads
  <1> QED
    BY <1>2 DEF ParseAnnotations, items, goesOn

LEMMA CallableReads ==
    ASSUME IsFile(toks), NEW i \in 1..Len(toks)
    PROVE  Takes(i, ParseCallable(i), NoSemi)
  <1> DEFINE name == Named(i, "(")
             params == ParseParams(name.i)
             close == FollowedBy(params.i, ")", [name |-> name.v, params |-> params.v])
             p == IF params.ok THEN close ELSE params
  <1>1. "(" \in Marks /\ "(" \notin NoSemi /\ ")" \in Asked /\ ")" \notin NoSemi
    BY DEF Asked, Marks, NoSemi, End
  <1>2. NoSemi \subseteq Plain /\ NoSemi \subseteq Marks \union {End}
    BY DEF NoSemi, Plain, Marks
  <1>3. Takes(i, name, NoSemi)
    BY <1>1, <1>2, NamedReads
  <1>4. name.i \in 1..Len(toks)
    BY <1>3, StopsWithin DEF Takes
  <1>5. ParseCallable(i) = IF name.ok THEN p ELSE name
    BY DEF ParseCallable, Then
  <1> HIDE DEF name
  <1>6. Reads(name.i, params, NoSemi)
    BY <1>2, <1>4, ParamsRead, FewerBanned
  <1>7. params.i \in 1..Len(toks)
    BY <1>4, <1>6, StopsWithin
  <1> HIDE DEF params
  <1>8. Takes(params.i, close, NoSemi)
    BY <1>1, <1>2, <1>7, MarkReads
  <1> HIDE DEF close
  <1>9. Reads(name.i, p, NoSemi)
    BY <1>4, <1>6, <1>8, ThenReads DEF Takes
  <1> HIDE DEF p
  <1> QED
    BY <1>3, <1>5, <1>9, ThenReads DEF Takes

LEMMA ResultReads ==
    ASSUME IsFile(toks), NEW i \in 1..Len(toks)
    PROVE  Reads(i, ParseResult(i), NoSemi)
  <1> DEFINE type == ParseType(i + 1)
             p == Got(type.i, <<type.v>>)
  <1>0. Len(toks) \in Nat
    BY FileShape
  <1>1. CASE Is(i, "->")
    <2>1. toks[i] = "->" /\ "->" \in Asked /\ "->" \notin NoSemi
      BY <1>1 DEF Is, Asked, Marks, NoSemi, End
    <2>2. After(i) = i + 1 /\ i + 1 \in 1..Len(toks)
      BY <1>1, <2>1, KindIsNotEnd, OneOn
    <2>3. NoSemi \subseteq Plain
      BY DEF NoSemi, Plain
    <2>4. Reads(i + 1, type, NoSemi)
      BY <2>2, <2>3, TypeReads, FewerBanned DEF Takes
    <2>5. ParseResult(i) = IF type.ok THEN p ELSE type
      BY <1>1, <2>2 DEF ParseResult, Then
    <2>6. type.i \in 1..Len(toks)
      BY <2>2, <2>4, StopsWithin
    <2> HIDE DEF type
    <2>7. p.i = type.i
      BY DEF Got
    <2> HIDE DEF p
    <2>8. Reads(i + 1, IF type.ok THEN p ELSE type, NoSemi)
      BY <2>2, <2>4, <2>6, <2>7, NothingRead, ThenReads
    <2>9. i + 1 \in i..Len(toks) /\ \A k \in i..(i + 1) - 1 : k = i
      BY <1>0, <2>2
    <2>10. \A k \in i..(i + 1) - 1 : toks[k] \notin NoSemi
      BY <2>1, <2>9
    <2> QED
      BY <2>5, <2>8, <2>9, <2>10, ReadsOn
  <1>2. CASE ~Is(i, "->")
    <2>1. ParseResult(i) = Got(i, <<>>)
      BY <1>2 DEF ParseResult
    <2>2. ParseResult(i).i = i
      BY <2>1 DEF Got
    <2> QED
      BY <2>2, NothingRead
  <1> QED
    BY <1>1, <1>2

LEMMA InitReads ==
    ASSUME IsFile(toks), NEW i \in 1..Len(toks)
    PROVE  Reads(i, ParseInit(i), NoSemi)
  <1>1. MaxNest \in 0..MaxNest
    BY ParserAssumption
  <1>2. Reads(i, ValuesWithin[MaxNest][i], NoSemi)
    BY <1>1, ValuesRead DEF Takes
  <1>3. Got(i, <<>>).i = i
    BY DEF Got
  <1>4. Reads(i, Got(i, <<>>), NoSemi)
    BY <1>3, NothingRead
  <1> QED
    BY <1>2, <1>4 DEF ParseInit

-----------------------------------------------------------------------------
(* Declarations                                                            *)

\* At most the last token that r took is a ';'.
Closed(i, r) == r.i \in i..Len(toks) /\ \A k \in i..r.i - 2 : toks[k] # ";"

LEMMA ReadsIsClosed ==
    ASSUME IsFile(toks), NEW i \in 1..Len(toks), NEW r, Reads(i, r, NoSemi)
    PROVE  Closed(i, r)
  <1>1. Len(toks) \in Nat
    BY FileShape
  <1>2. \A k \in i..r.i - 1 : toks[k] # ";"
    BY DEF Reads, NoSemi
  <1>3. r.i \in i..Len(toks)
    BY DEF Reads
  <1>4. \A k \in i..r.i - 2 : k \in i..r.i - 1
    BY <1>1, <1>3
  <1> QED
    BY <1>2, <1>3, <1>4 DEF Closed

LEMMA ClosedBySemi ==
    ASSUME IsFile(toks), NEW i \in 1..Len(toks), NEW a, NEW v, Reads(i, a, NoSemi)
    PROVE  Closed(i, IF a.ok THEN FollowedBy(a.i, ";", v) ELSE a)
  <1> DEFINE p == FollowedBy(a.i, ";", v)
  <1>0. Len(toks) \in Nat
    BY FileShape
  <1>1. a.i \in 1..Len(toks) /\ a.i \in i..Len(toks)
    BY StopsWithin DEF Reads
  <1>b. \A k \in i..a.i - 1 : toks[k] # ";"
    BY DEF Reads, NoSemi
  <1>2. ";" \in Asked
    BY DEF Asked, Marks
  <1>3. (p.i = a.i + 1 /\ p.i \in 1..Len(toks)) \/ p.i = a.i
    BY <1>1, <1>2, FollowedTakes
  <1> HIDE DEF p
  <1>4. p.i \in i..Len(toks) /\ \A k \in i..p.i - 2 : k \in i..a.i - 1
    BY <1>0, <1>1, <1>3
  <1>5. Closed(i, p)
    BY <1>b, <1>4 DEF Closed
  <1>6. Closed(i, a)
    BY ReadsIsClosed
  <1> QED
    BY <1>5, <1>6 DEF p

LEMMA ThenClosed ==
    ASSUME IsFile(toks), NEW i \in 1..Len(toks), NEW a, NEW p,
           Reads(i, a, NoSemi), a.ok => Closed(a.i, p)
    PROVE  Closed(i, IF a.ok THEN p ELSE a)
  <1>0. Len(toks) \in Nat
    BY FileShape
  <1>1. a.i \in i..Len(toks)
    BY DEF Reads
  <1>b. \A k \in i..a.i - 1 : toks[k] # ";"
    BY DEF Reads, NoSemi
  <1>2. CASE a.ok
    <2>1. p.i \in a.i..Len(toks)
      BY <1>2 DEF Closed
    <2>b. \A k \in a.i..p.i - 2 : toks[k] # ";"
      BY <1>2 DEF Closed
    <2>2. \A k \in i..p.i - 2 : k \in i..a.i - 1 \/ k \in a.i..p.i - 2
      BY <1>0, <1>1, <2>1
    <2>3. p.i \in i..Len(toks)
      BY <1>0, <1>1, <2>1
    <2> QED
      BY <1>b, <1>2, <2>b, <2>2, <2>3 DEF Closed
  <1>3. CASE ~a.ok
    BY <1>3, ReadsIsClosed
  <1> QED
    BY <1>2, <1>3

LEMMA PackageClosed ==
    ASSUME IsFile(toks), NEW i \in 1..Len(toks)
    PROVE  LET name == ParseDottedName(i)
           IN  Closed(i, Then(name, LAMBDA n : FollowedBy(n.i, ";", n.v)))
  <1> DEFINE name == ParseDottedName(i)
  <1>1. NoSemi \subseteq Plain
    BY DEF NoSemi, Plain
  <1>2. Reads(i, name, NoSemi)
    BY <1>1, DottedReads, FewerBanned DEF Takes
  <1>3. Then(name, LAMBDA n : FollowedBy(n.i, ";", n.v))
        = IF name.ok THEN FollowedBy(name.i, ";", name.v) ELSE name
    BY DEF Then
  <1> HIDE DEF name
  <1> QED
    BY <1>2, <1>3, ClosedBySemi DEF name

LEMMA AliasClosed ==
    ASSUME IsFile(toks), NEW i \in 1..Len(toks)
    PROVE  Closed(i, ParseAlias(i))
  <1> DEFINE name == Named(i, "=")
             target == ParseType(name.i)
             close == FollowedBy(target.i, ";",
                                 [name |-> name.v, target |-> target.v, at |-> i - 1])
             p == IF target.ok THEN close ELSE target
  <1>1. "=" \in Marks /\ "=" \notin NoSemi /\ NoSemi \subseteq Plain /\ NoSemi \subseteq Marks \union {End}
    BY DEF Marks, NoSemi, Plain, End
  <1>2. Reads(i, name, NoSemi)
    BY <1>1, NamedReads DEF Takes
  <1>3. name.i \in 1..Len(toks)
    BY <1>2, StopsWithin
  <1>4. ParseAlias(i) = IF name.ok THEN p ELSE name
    BY DEF ParseAlias, Then
  <1> HIDE DEF name
  <1>5. Reads(name.i, target, NoSemi)
    BY <1>1, <1>3, TypeReads, FewerBanned DEF Takes
  <1> HIDE DEF target
  <1>6. Closed(name.i, p)
    BY <1>3, <1>5, ClosedBySemi
  <1> HIDE DEF p
  <1> QED
    BY <1>2, <1>4, <1>6, ThenClosed

LEMMA MethodClosed ==
    ASSUME IsFile(toks), NEW i \in 1..Len(toks), NEW anns
    PROVE  Closed(i, ParseMethod(i, anns))
  <1> DEFINE head == ParseCallable(i)
             ret == ParseResult(head.i)
             v == [name |-> head.v.name, params |-> head.v.params,
                   ret |-> ret.v, annotations |-> anns, at |-> i - 1]
             p == IF ret.ok THEN FollowedBy(ret.i, ";", v) ELSE ret
  <1>1. Reads(i, head, NoSemi)
    BY CallableReads DEF Takes
  <1>2. head.i \in 1..Len(toks)
    BY <1>1, StopsWithin
  <1>3. ParseMethod(i, anns) = IF head.ok THEN p ELSE head
    BY DEF ParseMethod, Then
  <1> HIDE DEF head
  <1>4. Reads(head.i, ret, NoSemi)
    BY <1>2, ResultReads
  <1> HIDE DEF ret, v
  <1>5. Closed(head.i, p)
    BY <1>2, <1>4, ClosedBySemi
  <1> HIDE DEF p
  <1> QED
    BY <1>1, <1>3, <1>5, ThenClosed

LEMMA SignalClosed ==
    ASSUME IsFile(toks), NEW i \in 1..Len(toks), NEW anns
    PROVE  Closed(i, ParseSignal(i, anns))
  <1> DEFINE head == ParseCallable(i)
             v == [name |-> head.v.name, params |-> head.v.params,
                   annotations |-> anns, at |-> i - 1]
  <1>1. Reads(i, head, NoSemi)
    BY CallableReads DEF Takes
  <1>2. ParseSignal(i, anns) = IF head.ok THEN FollowedBy(head.i, ";", v) ELSE head
    BY DEF ParseSignal, Then
  <1> HIDE DEF head, v
  <1> QED
    BY <1>1, <1>2, ClosedBySemi

LEMMA PropertyClosed ==
    ASSUME IsFile(toks), NEW i \in 1..Len(toks), NEW anns
    PROVE  Closed(i, ParseProperty(i, anns))
  <1> DEFINE name == Named(i, "->")
             type == ParseType(name.i)
             init == ParseInit(type.i)
             v == [name |-> name.v, type |-> type.v, init |-> init.v,
                   annotations |-> anns, at |-> i - 1]
             q == IF init.ok THEN FollowedBy(init.i, ";", v) ELSE init
             p == IF type.ok THEN q ELSE type
  <1>1. "->" \in Marks /\ "->" \notin NoSemi /\ NoSemi \subseteq Plain /\ NoSemi \subseteq Marks \union {End}
    BY DEF Marks, NoSemi, Plain, End
  <1>2. Reads(i, name, NoSemi)
    BY <1>1, NamedReads DEF Takes
  <1>3. name.i \in 1..Len(toks)
    BY <1>2, StopsWithin
  <1>4. ParseProperty(i, anns) = IF name.ok THEN p ELSE name
    BY DEF ParseProperty, Then
  <1> HIDE DEF name
  <1>5. Reads(name.i, type, NoSemi)
    BY <1>1, <1>3, TypeReads, FewerBanned DEF Takes
  <1>6. type.i \in 1..Len(toks)
    BY <1>3, <1>5, StopsWithin
  <1> HIDE DEF type
  <1>7. Reads(type.i, init, NoSemi)
    BY <1>6, InitReads
  <1> HIDE DEF init, v
  <1>8. Closed(type.i, q)
    BY <1>6, <1>7, ClosedBySemi
  <1> HIDE DEF q
  <1>9. Closed(name.i, p)
    BY <1>3, <1>5, <1>8, ThenClosed
  <1> HIDE DEF p
  <1> QED
    BY <1>2, <1>4, <1>9, ThenClosed

-----------------------------------------------------------------------------
(* Braces                                                                  *)

\* The tokens from i up to before k that are c.
Those(i, k, c) == {j \in i..k - 1 : toks[j] = c}

LEMMA ThoseCount ==
    ASSUME NEW i \in Int, NEW k \in Int, NEW c
    PROVE  IsFiniteSet(Those(i, k, c)) /\ Cardinality(Those(i, k, c)) \in Nat
  <1>1. IsFiniteSet(i..k - 1)
    BY FS_Interval
  <1>2. Those(i, k, c) \subseteq i..k - 1
    BY DEF Those
  <1>3. IsFiniteSet(Those(i, k, c))
    BY <1>1, <1>2, FS_Subset
  <1> QED
    BY <1>3, FS_CardinalityType

LEMMA ThoseSplit ==
    ASSUME NEW i \in Int, NEW m \in Int, NEW k \in Int, i <= m, m <= k, NEW c
    PROVE  Cardinality(Those(i, k, c))
           = Cardinality(Those(i, m, c)) + Cardinality(Those(m, k, c))
  <1>1. \A j \in Int : j \in i..k - 1 <=> j \in i..m - 1 \/ j \in m..k - 1
    OBVIOUS
  <1>2. \A j \in Int : ~(j \in i..m - 1 /\ j \in m..k - 1)
    OBVIOUS
  <1>3. Those(i, k, c) = Those(i, m, c) \union Those(m, k, c)
    BY <1>1 DEF Those
  <1>4. Those(i, m, c) \intersect Those(m, k, c) = {}
    BY <1>2 DEF Those
  <1>5. Cardinality(Those(i, m, c) \union Those(m, k, c))
        = Cardinality(Those(i, m, c)) + Cardinality(Those(m, k, c))
          - Cardinality(Those(i, m, c) \intersect Those(m, k, c))
    BY ThoseCount, FS_Union
  <1>6. Cardinality(Those(i, m, c) \intersect Those(m, k, c)) = 0
    BY <1>4, FS_EmptySet
  <1>7. Cardinality(Those(i, m, c)) \in Nat /\ Cardinality(Those(m, k, c)) \in Nat
    BY ThoseCount
  <1> QED
    BY <1>3, <1>5, <1>6, <1>7

LEMMA ThoseOne ==
    ASSUME NEW i \in Int, NEW c
    PROVE  Cardinality(Those(i, i + 1, c)) = IF toks[i] = c THEN 1 ELSE 0
  <1>1. \A j \in Int : j \in i..(i + 1) - 1 <=> j = i
    OBVIOUS
  <1>2. CASE toks[i] = c
    <2>1. Those(i, i + 1, c) = {i}
      BY <1>1, <1>2 DEF Those
    <2>2. Cardinality({i}) = 1
      BY FS_Singleton
    <2> QED
      BY <1>2, <2>1, <2>2
  <1>3. CASE toks[i] # c
    <2>1. Those(i, i + 1, c) = {}
      BY <1>1, <1>3 DEF Those
    <2> QED
      BY <1>3, <2>1, FS_EmptySet
  <1> QED
    BY <1>2, <1>3

Opens(i, k) == Cardinality(Those(i, k, "{"))
Closes(i, k) == Cardinality(Those(i, k, "}"))

LEMMA OpenedCounts ==
    ASSUME NEW i, NEW k
    PROVE  Opened(i, k) = Opens(i, k) - Closes(i, k)
  BY DEF Opened, Those, Opens, Closes

LEMMA DepthIsOpened ==
    ASSUME NEW k
    PROVE  Depth(k) = Opened(1, k)
  BY DEF Depth, Opened

LEMMA OpenedSplit ==
    ASSUME NEW i \in Int, NEW m \in Int, NEW k \in Int, i <= m, m <= k
    PROVE  /\ Opened(i, m) \in Int /\ Opened(m, k) \in Int
           /\ Opened(i, k) = Opened(i, m) + Opened(m, k)
  <1>0. \A c : /\ Cardinality(Those(i, m, c)) \in Nat /\ Cardinality(Those(m, k, c)) \in Nat
               /\ Cardinality(Those(i, k, c))
                  = Cardinality(Those(i, m, c)) + Cardinality(Those(m, k, c))
    BY ThoseCount, ThoseSplit
  <1>1. /\ Opens(i, m) \in Nat /\ Opens(m, k) \in Nat
        /\ Opens(i, k) = Opens(i, m) + Opens(m, k)
    BY Zenon, <1>0 DEF Opens
  <1>2. /\ Closes(i, m) \in Nat /\ Closes(m, k) \in Nat
        /\ Closes(i, k) = Closes(i, m) + Closes(m, k)
    BY Zenon, <1>0 DEF Closes
  <1>3. /\ Opened(i, m) = Opens(i, m) - Closes(i, m)
        /\ Opened(m, k) = Opens(m, k) - Closes(m, k)
        /\ Opened(i, k) = Opens(i, k) - Closes(i, k)
    BY OpenedCounts
  <1> QED
    BY <1>1, <1>2, <1>3

\* There is no brace from i up to before k.
BraceFree(i, k) == \A j \in i..k - 1 : toks[j] \notin {"{", "}"}

LEMMA OpenedNone ==
    ASSUME NEW i \in Int, NEW k \in Int, BraceFree(i, k)
    PROVE  Opened(i, k) = 0
  <1>1. Those(i, k, "{") = {} /\ Those(i, k, "}") = {}
    BY DEF Those, BraceFree
  <1>2. Opens(i, k) = 0 /\ Closes(i, k) = 0
    BY <1>1, FS_EmptySet DEF Opens, Closes
  <1> QED
    BY <1>2, OpenedCounts

LEMMA OpenedNothing ==
    ASSUME NEW i \in Int
    PROVE  Opened(i, i) = 0
  <1>1. \A j \in i..i - 1 : FALSE
    OBVIOUS
  <1>2. BraceFree(i, i)
    BY <1>1 DEF BraceFree
  <1> QED
    BY <1>2, OpenedNone

LEMMA OpenedOne ==
    ASSUME NEW i \in Int
    PROVE  Opened(i, i + 1) = IF toks[i] = "{" THEN 1 ELSE IF toks[i] = "}" THEN -1 ELSE 0
  <1>1. Opens(i, i + 1) = IF toks[i] = "{" THEN 1 ELSE 0
    BY ThoseOne DEF Opens
  <1>2. Closes(i, i + 1) = IF toks[i] = "}" THEN 1 ELSE 0
    BY ThoseOne DEF Closes
  <1>3. /\ Opens(i, i + 1) = 1 /\ Closes(i, i + 1) = 0 => Opened(i, i + 1) = 1
        /\ Opens(i, i + 1) = 0 /\ Closes(i, i + 1) = 1 => Opened(i, i + 1) = -1
        /\ Opens(i, i + 1) = 0 /\ Closes(i, i + 1) = 0 => Opened(i, i + 1) = 0
    BY OpenedCounts
  <1>4. CASE toks[i] = "{"
    BY <1>1, <1>2, <1>3, <1>4
  <1>5. CASE toks[i] = "}"
    BY <1>1, <1>2, <1>3, <1>5
  <1>6. CASE toks[i] # "{" /\ toks[i] # "}"
    BY <1>1, <1>2, <1>3, <1>6
  <1> QED
    BY <1>4, <1>5, <1>6

-----------------------------------------------------------------------------
(* Recovery                                                                *)

LEMMA MarkIs ==
    ASSUME NEW i, NEW kind \in Marks \union {End}
    PROVE  Is(i, kind) <=> toks[i] = kind
  BY DEF Is, Marks, End

\* What is skipped has closed nothing that was open before.
LEMMA SkippedIsOpen ==
    ASSUME NEW i \in Nat, NEW k \in Nat, i <= k,
           \A j \in i..k - 1 : ~ResumesAt(i, j)
    PROVE  \A j \in i..k : Opened(i, j) \in Int /\ Opened(i, j) >= 0
  <1> DEFINE S == {m \in 0..k - i : Opened(i, i + m) \in Int /\ Opened(i, i + m) >= 0}
  <1>1. 0 \in S
    <2>1. Opened(i, i) = 0 /\ i + 0 = i
      BY OpenedNothing
    <2> QED
      BY <2>1
  <1>2. ASSUME NEW m \in 1..k - i, m - 1 \in S PROVE m \in S
    <2> DEFINE j == i + (m - 1)
    <2>1. j \in i..k - 1 /\ j + 1 = i + m /\ i \in Int /\ j + 1 \in Int /\ m \in 0..k - i
      OBVIOUS
    <2>2. Opened(i, j) \in Int /\ Opened(i, j) >= 0
      BY <1>2
    <2> HIDE DEF j, S
    <2>3. j \in Int /\ i <= j /\ j <= j + 1
      BY <2>1
    <2>4. Opened(i, j + 1) = Opened(i, j) + Opened(j, j + 1) /\ Opened(j, j + 1) \in Int
      BY <2>1, <2>3, OpenedSplit
    <2>5. Opened(j, j + 1) \in {0, 1} \/ (Opened(j, j + 1) = -1 /\ ~(Opened(i, j) <= 1))
      <3>1. Opened(j, j + 1) = IF toks[j] = "{" THEN 1 ELSE IF toks[j] = "}" THEN -1 ELSE 0
        BY <2>3, OpenedOne
      <3>2. toks[j] = "}" => ~(Opened(i, j) <= 1)
        BY <2>1, MarkIs DEF ResumesAt, Marks
      <3> QED
        BY <3>1, <3>2
    <2>7. Opened(i, j + 1) \in Int /\ Opened(i, j + 1) >= 0
      BY <2>2, <2>4, <2>5
    <2> QED
      BY <2>1, <2>7 DEF S
  <1> HIDE DEF S
  <1>3. k - i \in Nat
    OBVIOUS
  <1>4. \A m \in 0..k - i : m \in S
    BY <1>1, <1>2, <1>3, UpInduction
  <1>5. ASSUME NEW j \in i..k PROVE Opened(i, j) \in Int /\ Opened(i, j) >= 0
    <2>1. j - i \in 0..k - i /\ i + (j - i) = j
      OBVIOUS
    <2> QED
      BY <1>4, <2>1 DEF S
  <1> QED
    BY <1>5

\* The tokens at which a declaration of the file can start.
Starters == {"package", "struct", "using", "interface"}

LEMMA ResumeStops ==
    ASSUME IsFile(toks), NEW i \in 1..Len(toks)
    PROVE  \E k \in i..Len(toks) :
              /\ ResumesAt(i, k) /\ \A j \in i..k - 1 : ~ResumesAt(i, j)
              /\ \/ Resume(i) = k /\ toks[k] \notin {"}", ";"}
                 \/ Resume(i) = k + 1 /\ toks[k] \in {"}", ";"} /\ k + 1 \in 1..Len(toks)
                 \/ /\ Resume(i) = k + 2 /\ toks[k] = "}" /\ toks[k + 1] = ";"
                    /\ k + 2 \in 1..Len(toks)
  <1> DEFINE n == Len(toks)
             S == {j \in i..n : ResumesAt(i, j)}
             k == Min(S)
  <1>0. n \in Nat \ {0}
    BY FileShape
  <1>e. toks[n] = End
    <2>1. n \in 1..n
      BY <1>0
    <2> QED
      BY <2>1, FileShape
  <1>1. S \subseteq Nat /\ n \in S
    <2>1. ResumesAt(i, n)
      BY <1>e, MarkIs DEF ResumesAt
    <2>2. n \in i..n
      BY <1>0
    <2>3. S \subseteq Nat
      BY <1>0
    <2> QED
      BY <2>1, <2>2, <2>3
  <1>2. k \in S /\ \A j \in S : k <= j
    BY <1>1, MinOfNaturals
  <1>3. Resume(i) = CASE Is(k, "}") -> SkipIf(After(k), ";")
                      [] Is(k, ";") -> After(k)
                      [] OTHER -> k
    BY DEF Resume
  <1> HIDE DEF S
  <1>4. k \in i..n /\ ResumesAt(i, k)
    BY <1>2 DEF S
  <1>5. \A j \in i..k - 1 : ~ResumesAt(i, j)
    <2> SUFFICES ASSUME NEW j \in i..k - 1, ResumesAt(i, j) PROVE FALSE
      OBVIOUS
    <2>1. j \in i..n /\ ~(k <= j)
      BY <1>0, <1>4
    <2> QED
      BY <1>2, <2>1 DEF S
  <1> HIDE DEF k
  <1>6. k \in 1..n
    BY <1>0, <1>4
  <1>n. (k + 1) + 1 = k + 2
    BY <1>6
  <1>7. Resume(i) = IF toks[k] = "}" THEN SkipIf(After(k), ";")
                    ELSE IF toks[k] = ";" THEN After(k) ELSE k
    <2>1. (Is(k, "}") <=> toks[k] = "}") /\ (Is(k, ";") <=> toks[k] = ";")
      BY MarkIs DEF Marks
    <2> QED
      BY <1>3, <2>1
  <1>8. toks[k] \in {"}", ";"} => After(k) = k + 1 /\ k + 1 \in 1..n
    <2>1. toks[k] \in {"}", ";"} => toks[k] # End
      BY DEF End
    <2> QED
      BY <1>6, <2>1, OneOn
  <1>9. k + 1 \in 1..n =>
           \/ SkipIf(k + 1, ";") = k + 1
           \/ SkipIf(k + 1, ";") = k + 2 /\ toks[k + 1] = ";" /\ k + 2 \in 1..n
    <2> SUFFICES ASSUME k + 1 \in 1..n, Is(k + 1, ";")
                 PROVE  SkipIf(k + 1, ";") = k + 2 /\ toks[k + 1] = ";" /\ k + 2 \in 1..n
      BY DEF SkipIf
    <2>1. toks[k + 1] = ";" /\ toks[k + 1] # End
      BY MarkIs DEF Marks, End
    <2>2. After(k + 1) = (k + 1) + 1 /\ (k + 1) + 1 \in 1..n
      BY <2>1, OneOn
    <2> QED
      BY <1>n, <2>1, <2>2 DEF SkipIf
  <1>10. \/ Resume(i) = k /\ toks[k] \notin {"}", ";"}
         \/ Resume(i) = k + 1 /\ toks[k] \in {"}", ";"} /\ k + 1 \in 1..n
         \/ Resume(i) = k + 2 /\ toks[k] = "}" /\ toks[k + 1] = ";" /\ k + 2 \in 1..n
    BY <1>7, <1>8, <1>9
  <1> QED
    BY <1>4, <1>5, <1>10

\* The recovery stays in the file, leaves the token it starts from unless a declaration or
\* the end of the file is there, and does not run over a declaration that starts on its own.
LEMMA ResumeKeeps ==
    ASSUME IsFile(toks), NEW i \in 1..Len(toks)
    PROVE  /\ Resume(i) \in i..Len(toks)
           /\ toks[i] \notin Starters \union {End} => Resume(i) > i
           /\ \A j \in i..Resume(i) - 1 : ~Declares(j)
  <1> DEFINE n == Len(toks)
  <1>0. n \in Nat
    BY FileShape
  <1>1. PICK k \in i..n :
              /\ ResumesAt(i, k) /\ \A j \in i..k - 1 : ~ResumesAt(i, j)
              /\ \/ Resume(i) = k /\ toks[k] \notin {"}", ";"}
                 \/ Resume(i) = k + 1 /\ toks[k] \in {"}", ";"} /\ k + 1 \in 1..n
                 \/ Resume(i) = k + 2 /\ toks[k] = "}" /\ toks[k + 1] = ";" /\ k + 2 \in 1..n
    BY ResumeStops
  <1>2. Resume(i) \in {k, k + 1, k + 2} /\ Resume(i) \in 1..n
    <2>1. k \in 1..n
      BY <1>0
    <2> QED
      BY <1>1, <2>1
  <1>3. Resume(i) \in i..n
    BY <1>0, <1>2
  <1>4. ASSUME toks[i] \notin Starters \union {End} PROVE Resume(i) > i
    <2>1. CASE k = i
      <3>1. toks[i] \in {"}", ";"}
        BY <1>1, <1>4, <2>1, MarkIs DEF ResumesAt, Starters, Marks
      <3>2. Resume(i) = k + 1 \/ Resume(i) = k + 2
        BY <1>1, <2>1, <3>1
      <3> QED
        BY <1>0, <2>1, <3>2
    <2>2. CASE k # i
      BY <1>0, <1>2, <2>2
    <2> QED
      BY <2>1, <2>2
  <1>5. ASSUME NEW j \in i..k - 1, Declares(j) PROVE FALSE
    <2>1. toks[j] \in {"struct", "using", "interface"} /\ Depth(j) = 0
          /\ \A m \in 1..j - 1 : Depth(m) >= 0
      BY <1>5 DEF Declares
    <2>2. j \in Nat /\ i \in Nat /\ i <= j /\ j < k /\ j \in i..k /\ k \in Nat
      BY <1>0
    <2>3. Opened(i, j) \in Int /\ Opened(i, j) >= 0
      <3>1. \A p \in i..k - 1 : ~ResumesAt(i, p)
        BY <1>1
      <3>2. i <= k
        BY <2>2
      <3>3. \A p \in i..k : Opened(i, p) \in Int /\ Opened(i, p) >= 0
        BY <2>2, <3>1, <3>2, SkippedIsOpen
      <3> QED
        BY <2>2, <3>3
    <2>4. ~ResumesAt(i, j)
      BY <1>1
    <2>5. Opened(i, j) # 0
      BY <2>1, <2>4 DEF ResumesAt
    <2>6. Opened(1, j) = Opened(1, i) + Opened(i, j) /\ Opened(1, i) \in Int
      <3>1. 1 \in Int /\ i \in Int /\ j \in Int /\ 1 <= i
        BY <2>2
      <3> QED
        BY <2>2, <3>1, OpenedSplit
    <2>7. i # j
      BY <2>2, <2>5, OpenedNothing
    <2>8. i \in 1..j - 1
      BY <2>2, <2>7
    <2>9. Opened(1, i) >= 0 /\ Opened(1, j) = 0
      BY <2>1, <2>8, DepthIsOpened
    <2> QED
      BY <2>3, <2>5, <2>6, <2>9
  <1>6. ASSUME NEW j \in i..Resume(i) - 1 PROVE ~Declares(j)
    <2>1. j \in i..k - 1 \/ (j = k /\ Resume(i) # k) \/ (j = k + 1 /\ Resume(i) = k + 2)
      BY <1>0, <1>2
    <2>2. ASSUME j = k, Resume(i) # k PROVE ~Declares(j)
      <3>1. toks[j] \in {"}", ";"}
        BY <1>1, <2>2
      <3> QED
        BY <3>1 DEF Declares
    <2>3. ASSUME j = k + 1, Resume(i) = k + 2 PROVE ~Declares(j)
      <3>1. k + 2 # k /\ k + 2 # k + 1
        BY <1>0
      <3>2. toks[j] = ";"
        BY <1>1, <2>3, <3>1
      <3> QED
        BY <3>2 DEF Declares
    <2> QED
      BY <1>5, <2>1, <2>2, <2>3
  <1> QED
    BY <1>3, <1>4, <1>6

-----------------------------------------------------------------------------
(* What a step passes                                                      *)

\* One starts behind a ';': between p and q there is none, unless at the end.
SemiFree(p, q) == \A k \in p..q - 2 : toks[k] # ";"
\* p is a token that neither ends a declaration nor the file; b opens a brace.
Within(p) == toks[p] \notin {";", End}
Opening(b) == toks[b] = "{"

LEMMA KeptWithoutSemi ==
    ASSUME NEW p \in Int, NEW q \in Int, SemiFree(p, q)
    PROVE  NoneBetween(p, q)
  <1>1. ASSUME NEW j \in p + 1..q - 1 PROVE j - 1 \in p..q - 2
    OBVIOUS
  <1>2. ASSUME NEW j \in p + 1..q - 1 PROVE ~Declares(j)
    BY <1>1, <1>2 DEF Declares, SemiFree
  <1> QED
    BY <1>2 DEF NoneBetween

\* A declaration whose keyword is at p.
LEMMA ClosedIsKept ==
    ASSUME IsFile(toks), NEW p \in 1..Len(toks), Within(p), NEW r, Closed(p + 1, r)
    PROVE  r.i \in p + 1..Len(toks) /\ NoneBetween(p, r.i)
  <1>0. Len(toks) \in Nat
    BY FileShape
  <1>1. r.i \in p + 1..Len(toks)
    BY DEF Closed
  <1>2. \A k \in p..r.i - 2 : k = p \/ k \in p + 1..r.i - 2
    BY <1>0, <1>1
  <1>3. SemiFree(p, r.i)
    BY <1>2 DEF Closed, Within, SemiFree
  <1>4. p \in Int /\ r.i \in Int
    BY <1>0, <1>1
  <1> QED
    BY <1>1, <1>3, <1>4, KeptWithoutSemi

\* The recovery at q of what was kept up to there.
LEMMA KeptOn ==
    ASSUME IsFile(toks), NEW p \in 1..Len(toks), NEW q \in p..Len(toks), NoneBetween(p, q)
    PROVE  /\ Resume(q) \in q..Len(toks) /\ Resume(q) \in p..Len(toks)
           /\ NoneBetween(p, Resume(q))
  <1>0. Len(toks) \in Nat
    BY FileShape
  <1>1. q \in 1..Len(toks)
    BY <1>0
  <1>2. Resume(q) \in q..Len(toks) /\ \A j \in q..Resume(q) - 1 : ~Declares(j)
    BY <1>1, ResumeKeeps
  <1>3. ASSUME NEW j \in p + 1..Resume(q) - 1
        PROVE  j \in p + 1..q - 1 \/ j \in q..Resume(q) - 1
    BY <1>0, <1>2
  <1>4. Resume(q) \in p..Len(toks)
    BY <1>0, <1>2
  <1> QED
    BY <1>2, <1>3, <1>4 DEF NoneBetween

\* Within braces no declaration starts on its own.
LEMMA NoneInBraces ==
    ASSUME NEW b \in Nat \ {0}, Opening(b), NEW j \in Nat, b < j, BraceFree(b + 1, j)
    PROVE  ~Declares(j)
  <1>1. Opened(b, b + 1) = 1
    <2>1. b \in Int
      OBVIOUS
    <2>2. Opened(b, b + 1) = IF toks[b] = "{" THEN 1 ELSE IF toks[b] = "}" THEN -1 ELSE 0
      BY <2>1, OpenedOne
    <2> QED
      BY Zenon, <2>2 DEF Opening
  <1>2. Opened(b + 1, j) = 0
    BY OpenedNone
  <1>3. /\ Opened(1, j) = Opened(1, b) + Opened(b, j) /\ Opened(1, b) \in Int
        /\ Opened(b, j) = Opened(b, b + 1) + Opened(b + 1, j)
    <2>1. 1 \in Int /\ b \in Int /\ j \in Int /\ b + 1 \in Int /\ 1 <= b /\ b <= j
          /\ b <= b + 1 /\ b + 1 <= j
      OBVIOUS
    <2>0. ASSUME NEW i \in Int, i <= b
          PROVE  Opened(i, j) = Opened(i, b) + Opened(b, j) /\ Opened(i, b) \in Int
      <3>1. i \in Int /\ b \in Int /\ j \in Int /\ i <= b /\ b <= j
        BY <2>0, <2>1
      <3> QED
        BY <3>1, OpenedSplit
    <2>2. Opened(1, j) = Opened(1, b) + Opened(b, j) /\ Opened(1, b) \in Int
      BY <2>0, <2>1
    <2>3. Opened(b, j) = Opened(b, b + 1) + Opened(b + 1, j)
      BY <2>1, OpenedSplit
    <2> QED
      BY <2>2, <2>3
  <1>4. Opened(1, j) = Opened(1, b) + 1
    BY <1>1, <1>2, <1>3
  <1>5. b \in 1..j - 1
    OBVIOUS
  <1>6. ~(Opened(1, b) >= 0 /\ Opened(1, j) = 0)
    BY <1>3, <1>4
  <1> QED
    BY <1>5, <1>6, DepthIsOpened DEF Declares

\* Where a name and its mark were read.
LEMMA NamedEnds ==
    ASSUME IsFile(toks), NEW i \in 1..Len(toks), NEW kind \in Marks, Named(i, kind).ok
    PROVE  /\ Named(i, kind).i - 1 \in i..Len(toks) /\ Named(i, kind).i \in 1..Len(toks)
           /\ toks[Named(i, kind).i - 1] = kind
  <1> DEFINE name == Expect(i, "Iden")
             r == FollowedBy(name.i, kind, name.v)
  <1>0. Len(toks) \in Nat
    BY FileShape
  <1>1. "Iden" \in Asked /\ kind \in Asked
    BY DEF Asked
  <1>2. Named(i, kind) = IF name.ok THEN r ELSE name
    BY DEF Named, Then
  <1>3. name.ok /\ name.i = i + 1 /\ i + 1 \in 1..Len(toks)
    BY <1>1, <1>2, ExpectTakes
  <1>4. r.ok /\ r.i = name.i + 1 /\ r.i \in 1..Len(toks) /\ Is(name.i, kind)
    BY <1>1, <1>2, <1>3, FollowedTakes
  <1>5. toks[name.i] = kind
    BY <1>4, MarkIs
  <1> HIDE DEF r
  <1>6. name.i = r.i - 1 /\ r.i - 1 \in i..Len(toks)
    BY <1>0, <1>3, <1>4
  <1> QED
    BY <1>2, <1>3, <1>4, <1>5, <1>6

\* A struct, whose fields each end with a ';'.
LEMMA StructIsKept ==
    ASSUME IsFile(toks), NEW p \in 1..Len(toks), Within(p), p + 1 \in 1..Len(toks)
    PROVE  ParseStruct(p + 1).i \in p + 1..Len(toks) /\ NoneBetween(p, ParseStruct(p + 1).i)
  <1> DEFINE n == Len(toks)
             i == p + 1
             name == Named(i, "{")
             fields == ParseFields(name.i)
             close == Expect(fields.i, "}")
             v == [name |-> name.v, fields |-> fields.v, at |-> i - 1]
             r == FollowedBy(close.i, ";", v)
             s == IF close.ok THEN r ELSE close
             t == IF fields.ok THEN s ELSE fields
  <1>0. n \in Nat
    BY FileShape
  <1>1. "{" \in Marks /\ "{" \notin NoSemi /\ NoSemi \subseteq Marks \union {End}
        /\ "}" \in Asked /\ ";" \in Asked /\ "}" \in Marks
    BY DEF Marks, NoSemi, End, Asked
  <1>2. Reads(i, name, NoSemi)
    BY <1>1, NamedReads DEF Takes
  <1>3. name.i \in 1..n /\ name.i \in i..n
    BY <1>2, StopsWithin DEF Reads
  <1>4. ParseStruct(i) = IF name.ok THEN t ELSE name
    BY DEF ParseStruct, Then
  <1>5. name.ok => name.i - 1 \in i..n /\ Opening(name.i - 1)
    BY <1>1, NamedEnds DEF Opening
  <1> HIDE DEF name
  <1>6. Reads(name.i, fields, Body)
    BY <1>3, FieldsRead
  <1>7. fields.i \in 1..n /\ fields.i \in name.i..n
    BY <1>3, <1>6, StopsWithin DEF Reads
  <1>8. BraceFree(name.i, fields.i)
    BY <1>6 DEF Reads, Body, BraceFree
  <1> HIDE DEF fields, v
  <1>9. \/ close.ok /\ close.i = fields.i + 1 /\ close.i \in 1..n /\ toks[fields.i] = "}"
        \/ ~close.ok /\ close.i = fields.i
    BY <1>1, <1>7, ExpectTakes, MarkIs
  <1> HIDE DEF close
  <1>10. close.ok => (r.i = close.i + 1 /\ r.i \in 1..n) \/ r.i = close.i
    <2> SUFFICES ASSUME close.ok PROVE (r.i = close.i + 1 /\ r.i \in 1..n) \/ r.i = close.i
      OBVIOUS
    <2>1. close.i \in 1..n
      BY <1>9
    <2> QED
      BY <1>1, <2>1, FollowedTakes
  <1> HIDE DEF r
  <1>11. \/ t.i = fields.i
         \/ t.i \in {fields.i + 1, fields.i + 2} /\ toks[fields.i] = "}" /\ t.i \in 1..n
    <2>1. close.i = fields.i + 1 => close.i + 1 = fields.i + 2
      BY <1>7
    <2> QED
      BY <1>9, <1>10, <2>1
  <1>12. t.i \in {fields.i, fields.i + 1, fields.i + 2} /\ t.i \in 1..n
    BY <1>7, <1>11
  <1> HIDE DEF t
  <1>13. CASE ~name.ok
    <2>1. Closed(i, name)
      BY <1>2, ReadsIsClosed
    <2> QED
      BY <1>4, <1>13, <2>1, ClosedIsKept
  <1>14. CASE name.ok
    <2>1. t.i \in i..n
      BY <1>0, <1>3, <1>7, <1>12
    <2>2. ASSUME NEW j \in p + 1..t.i - 1
          PROVE  j \in i..name.i \/ j \in name.i + 1..fields.i \/ (j = fields.i + 1 /\ t.i # fields.i)
      BY <1>0, <1>3, <1>7, <1>12
    <2>3. ASSUME NEW j \in i..name.i PROVE ~Declares(j)
      <3>1. j - 1 = p \/ j - 1 \in i..name.i - 1
        BY <1>0, <1>3
      <3>2. toks[j - 1] # ";"
        BY <1>2, <3>1 DEF Reads, NoSemi, Within
      <3> QED
        BY <3>2 DEF Declares
    <2>4. ASSUME NEW j \in name.i + 1..fields.i PROVE ~Declares(j)
      <3> DEFINE b == name.i - 1
      <3>1. b \in Nat \ {0} /\ j \in Nat /\ b < j /\ b + 1 = name.i
        BY <1>0, <1>3, <1>5, <1>14, <1>7
      <3>2. \A k \in name.i..j - 1 : k \in name.i..fields.i - 1
        BY <1>0, <1>3, <1>7
      <3>3. BraceFree(name.i, j)
        BY <1>8, <3>2 DEF BraceFree
      <3>4. Opening(b)
        BY <1>5, <1>14
      <3> HIDE DEF b
      <3> QED
        BY <3>1, <3>3, <3>4, NoneInBraces
    <2>5. ASSUME NEW j, j = fields.i + 1, t.i # fields.i PROVE ~Declares(j)
      <3>1. j - 1 = fields.i
        BY <1>7, <2>5
      <3>2. toks[j - 1] = "}"
        BY <1>11, <2>5, <3>1
      <3> QED
        BY <3>2 DEF Declares
    <2>6. NoneBetween(p, t.i)
      BY <2>2, <2>3, <2>4, <2>5 DEF NoneBetween
    <2> QED
      BY <1>4, <1>14, <2>1, <2>6
  <1> QED
    BY <1>13, <1>14

-----------------------------------------------------------------------------
(* The steps                                                               *)

\* The errors are reported at tokens up to bound, in the order of the file.
ErrorsUpTo(list, bound) ==
    /\ list \in Seq(Nat \ {0}) /\ \A k \in 1..Len(list) : list[k] <= bound
    /\ \A j, k \in 1..Len(list) : j <= k => list[j] <= list[k]
ParserTypes ==
    /\ IsFile(toks) /\ at \in 1..Len(toks)
    /\ phase \in {"package", "root", "members", "parsed"}
ParserInv == ParserTypes /\ ErrorsUpTo(errs, at)

\* What every step of the parser is shown to do.
Onward ==
    /\ toks' = toks /\ at' \in at..Len(toks) /\ NoneBetween(at, at')
    /\ phase' \in {"root", "members", "parsed"}
    /\ Remaining' < Remaining
    /\ ErrorsUpTo(errs', at')

LEMMA ErrorsUpToMore ==
    ASSUME NEW list, NEW b \in Nat, NEW c \in Nat, b <= c, ErrorsUpTo(list, b)
    PROVE  ErrorsUpTo(list, c)
  <1>1. \A k \in 1..Len(list) : list[k] \in Nat
    BY DEF ErrorsUpTo
  <1>2. \A k \in 1..Len(list) : list[k] <= c
    BY <1>1 DEF ErrorsUpTo
  <1> QED
    BY <1>2 DEF ErrorsUpTo

LEMMA ErrorReported ==
    ASSUME NEW list, NEW b \in Nat, NEW e \in Nat \ {0}, b <= e, ErrorsUpTo(list, b)
    PROVE  ErrorsUpTo(Append(list, e), e)
  <1> DEFINE more == Append(list, e)
  <1>1. list \in Seq(Nat \ {0}) /\ Len(list) \in Nat
    BY DEF ErrorsUpTo
  <1>2. /\ more \in Seq(Nat \ {0}) /\ Len(more) = Len(list) + 1
        /\ more[Len(list) + 1] = e /\ \A k \in 1..Len(list) : more[k] = list[k]
    BY <1>1
  <1> HIDE DEF more
  <1>3. \A k \in 1..Len(more) : k \in 1..Len(list) \/ k = Len(list) + 1
    BY <1>1, <1>2
  <1>4. \A k \in 1..Len(list) : list[k] \in Nat /\ list[k] <= e
    BY <1>1 DEF ErrorsUpTo
  <1>5. \A k \in 1..Len(more) : more[k] <= e /\ more[k] \in Nat
    BY <1>2, <1>3, <1>4
  <1>6. ASSUME NEW j \in 1..Len(more), NEW k \in 1..Len(more), j <= k
        PROVE  more[j] <= more[k]
    <2>1. CASE k = Len(list) + 1
      BY <1>2, <1>5, <2>1
    <2>2. CASE k \in 1..Len(list)
      <3>1. j \in 1..Len(list)
        BY <1>1, <1>2, <1>6, <2>2
      <3> QED
        BY <1>2, <1>6, <2>2, <3>1 DEF ErrorsUpTo
    <2> QED
      BY <1>3, <2>1, <2>2
  <1> QED
    BY <1>2, <1>5, <1>6 DEF ErrorsUpTo, more

\* The position at which a read ended, after which the parser goes on there or recovers.
LEMMA GoesOn ==
    ASSUME ParserTypes, NEW list, ErrorsUpTo(list, at), NEW q \in at..Len(toks), NoneBetween(at, q),
           NEW next, NEW known,
           \/ next = q /\ known = list
           \/ next = Resume(q) /\ known = Append(list, q)
    PROVE  /\ next \in q..Len(toks) /\ next \in at..Len(toks) /\ NoneBetween(at, next)
           /\ ErrorsUpTo(known, next)
  <1>0. IsFile(toks) /\ at \in 1..Len(toks) /\ Len(toks) \in Nat
    BY FileShape DEF ParserTypes
  <1>1. q \in Nat \ {0} /\ at \in Nat /\ at <= q
    BY <1>0
  <1>2. CASE next = q /\ known = list
    <2>1. next \in q..Len(toks) /\ next \in at..Len(toks)
      BY <1>0, <1>2
    <2>2. ErrorsUpTo(list, q)
      BY <1>1, ErrorsUpToMore
    <2> QED
      BY <1>2, <2>1, <2>2
  <1>3. CASE next = Resume(q) /\ known = Append(list, q)
    <2>1. next \in q..Len(toks) /\ next \in at..Len(toks) /\ NoneBetween(at, next)
      BY <1>0, <1>3, KeptOn
    <2>2. ErrorsUpTo(known, q)
      BY <1>1, <1>3, ErrorReported
    <2>3. q \in Nat /\ next \in Nat /\ q <= next
      BY <1>1, <2>1
    <2>4. ErrorsUpTo(known, next)
      BY <2>2, <2>3, ErrorsUpToMore
    <2> QED
      BY <2>1, <2>4
  <1> QED
    BY <1>2, <1>3

LEMMA FallsByCase ==
    ASSUME NEW n \in Nat, NEW a \in Int, NEW b \in Int, NEW x \in 0..3, NEW y \in 0..3,
           a <= b, y < x \/ (b # a /\ y <= x + 1)
    PROVE  2 * (n - b) + y < 2 * (n - a) + x
  OBVIOUS

LEMMA PositionTypes ==
    ASSUME ParserTypes
    PROVE  Len(toks) \in Nat /\ at \in Nat \ {0} /\ at \in 1..Len(toks)
  <1>1. Len(toks) \in Nat /\ at \in 1..Len(toks)
    BY FileShape DEF ParserTypes
  <1> QED
    BY <1>1

\* What is before the parser falls: a token is taken, or a phase is left for good.
LEMMA RemainingFalls ==
    ASSUME ParserTypes, toks' = toks, at' \in at..Len(toks),
           \/ phase' = "parsed" /\ phase # "parsed"
           \/ phase' = "root" /\ phase \in {"package", "members"}
           \/ at' # at /\ phase' \in {"root", "members"} /\ phase # "parsed"
    PROVE  Remaining' < Remaining
  <1> DEFINE Rank(p) == CASE p = "package" -> 3 [] p = "members" -> 2 [] p = "root" -> 1 [] OTHER -> 0
  <1>0. Len(toks) \in Nat /\ at \in 1..Len(toks)
    BY FileShape DEF ParserTypes
  <1>1. Remaining = 2 * (Len(toks) - at) + Rank(phase)
    BY DEF Remaining
  <1>2. Remaining' = 2 * (Len(toks) - at') + Rank(phase')
    BY DEF Remaining
  <1>3. Rank("package") = 3 /\ Rank("members") = 2 /\ Rank("root") = 1 /\ Rank("parsed") = 0
    OBVIOUS
  <1> HIDE DEF Rank
  <1>4. /\ Rank(phase) \in 0..3 /\ Rank(phase') \in 0..3
        /\ Rank(phase') < Rank(phase) \/ (at' # at /\ Rank(phase') <= Rank(phase) + 1)
    BY <1>3 DEF ParserTypes
  <1>5. at' \in Int /\ at \in Int /\ at <= at'
    BY <1>0
  <1>6. 2 * (Len(toks) - at') + Rank(phase') < 2 * (Len(toks) - at) + Rank(phase)
    BY <1>0, <1>4, <1>5, FallsByCase
  <1> QED
    BY <1>1, <1>2, <1>6

\* The keyword of a declaration is taken.
LEMMA KeywordTaken ==
    ASSUME ParserTypes, toks[at] \notin Marks \union {End}
    PROVE  After(at) = at + 1 /\ at + 1 \in 1..Len(toks) /\ Within(at)
  <1>1. IsFile(toks) /\ at \in 1..Len(toks)
    BY DEF ParserTypes
  <1>2. Within(at) /\ toks[at] # End
    BY DEF Within, Marks
  <1> QED
    BY <1>1, <1>2, OneOn

LEMMA NothingPassed ==
    ASSUME ParserTypes
    PROVE  NoneBetween(at, at) /\ at \in at..Len(toks)
  <1>1. Len(toks) \in Nat /\ at \in 1..Len(toks)
    BY FileShape DEF ParserTypes
  <1>2. \A j \in at + 1..at - 1 : FALSE
    BY <1>1
  <1>3. at \in at..Len(toks)
    BY <1>1
  <1> QED
    BY <1>2, <1>3 DEF NoneBetween

LEMMA PackageGoesOn == ASSUME ParserInv, Package PROVE Onward
  <1> DEFINE r == Then(ParseDottedName(After(at)), LAMBDA name : FollowedBy(name.i, ";", name.v))
  <1>1. ParserTypes /\ ErrorsUpTo(errs, at) /\ toks' = toks /\ phase = "package" /\ phase' = "root"
    BY DEF ParserInv, Package
  <1>2. CASE toks[at] # "package"
    <2>1. errs' = Append(errs, at) /\ at' = at
      BY <1>2 DEF Package, Complain
    <2>2. at \in Nat \ {0}
      BY <1>1, PositionTypes
    <2>3. ErrorsUpTo(errs', at)
      BY <1>1, <2>1, <2>2, ErrorReported
    <2>4. Remaining' < Remaining
      BY <1>1, <2>1, NothingPassed, RemainingFalls
    <2> QED
      BY <1>1, <2>1, <2>3, <2>4, NothingPassed DEF Onward
  <1>3. CASE toks[at] = "package"
    <2>1. After(at) = at + 1 /\ at + 1 \in 1..Len(toks) /\ Within(at)
      BY <1>1, <1>3, KeywordTaken DEF Marks, End
    <2>2. Closed(at + 1, r)
      BY <1>1, <2>1, PackageClosed DEF ParserTypes
    <2>3. \/ at' = r.i /\ errs' = errs
          \/ at' = Resume(r.i) /\ errs' = Append(errs, r.i)
      BY <1>3 DEF Package, Complain
    <2> HIDE DEF r
    <2>4. r.i \in at + 1..Len(toks) /\ NoneBetween(at, r.i)
      BY <1>1, <2>1, <2>2, ClosedIsKept DEF ParserTypes
    <2>5. r.i \in at..Len(toks)
      <3>1. Len(toks) \in Nat /\ at \in 1..Len(toks)
        BY <1>1, FileShape DEF ParserTypes
      <3> HIDE <1>3
      <3> QED
        BY <2>4, <3>1
    <2>6. at' \in at..Len(toks) /\ NoneBetween(at, at') /\ ErrorsUpTo(errs', at')
      BY <1>1, <2>3, <2>4, <2>5, GoesOn
    <2>7. Remaining' < Remaining
      BY <1>1, <2>6, RemainingFalls
    <2> QED
      BY <1>1, <2>6, <2>7 DEF Onward
  <1> QED
    BY <1>2, <1>3

\* A declaration, up to q, whose keyword was at the parser's position.
TakenAfter(q) == q \in at + 1..Len(toks) /\ NoneBetween(at, q)

LEMMA TakenGoesOn ==
    ASSUME ParserTypes, ErrorsUpTo(errs, at), NEW q, TakenAfter(q), toks' = toks,
           phase \in {"root", "members"}, phase' \in {"root", "members"},
           \/ at' = q /\ errs' = errs
           \/ at' = Resume(q) /\ errs' = Append(errs, q)
    PROVE  Onward
  <1>1. Len(toks) \in Nat /\ at \in Nat \ {0} /\ at \in 1..Len(toks)
    BY PositionTypes
  <1>2. q \in at + 1..Len(toks) /\ NoneBetween(at, q)
    BY DEF TakenAfter
  <1>3. q \in at..Len(toks) /\ q > at
    BY ONLY <1>1, <1>2
  <1>4. at' \in q..Len(toks) /\ at' \in at..Len(toks) /\ NoneBetween(at, at') /\ ErrorsUpTo(errs', at')
    BY <1>2, <1>3, GoesOn
  <1>5. at' # at
    BY ONLY <1>1, <1>3, <1>4
  <1>6. Remaining' < Remaining
    BY <1>4, <1>5, RemainingFalls
  <1> QED
    BY <1>4, <1>6 DEF Onward

LEMMA StructIsTaken ==
    ASSUME ParserInv, Struct
    PROVE  After(at) = at + 1 /\ TakenAfter(ParseStruct(After(at)).i)
  <1> DEFINE r == ParseStruct(After(at))
  <1>1. ParserTypes /\ toks[at] = "struct"
    BY DEF ParserInv, Struct
  <1>2. After(at) = at + 1 /\ at + 1 \in 1..Len(toks) /\ Within(at)
    BY <1>1, KeywordTaken DEF Marks, End
  <1>3. r.i \in at + 1..Len(toks) /\ NoneBetween(at, r.i)
    BY <1>1, <1>2, StructIsKept DEF ParserTypes
  <1> HIDE DEF r
  <1>4. TakenAfter(r.i)
    BY <1>3 DEF TakenAfter
  <1> QED
    BY <1>2, <1>4 DEF r

LEMMA AliasIsTaken ==
    ASSUME ParserInv, Alias
    PROVE  After(at) = at + 1 /\ TakenAfter(ParseAlias(After(at)).i)
  <1> DEFINE r == ParseAlias(After(at))
  <1>1. ParserTypes /\ toks[at] = "using"
    BY DEF ParserInv, Alias
  <1>2. After(at) = at + 1 /\ at + 1 \in 1..Len(toks) /\ Within(at)
    BY <1>1, KeywordTaken DEF Marks, End
  <1>3. Closed(at + 1, r)
    BY <1>1, <1>2, AliasClosed DEF ParserTypes
  <1> HIDE DEF r
  <1>4. TakenAfter(r.i)
    BY <1>1, <1>2, <1>3, ClosedIsKept DEF TakenAfter, ParserTypes
  <1> QED
    BY <1>2, <1>4 DEF r

LEMMA HeadIsTaken ==
    ASSUME ParserInv, OpenInterface
    PROVE  After(at) = at + 1 /\ TakenAfter(Named(After(at), "{").i)
  <1> DEFINE r == Named(After(at), "{")
  <1>1. ParserTypes /\ toks[at] = "interface"
    BY DEF ParserInv, OpenInterface
  <1>2. After(at) = at + 1 /\ at + 1 \in 1..Len(toks) /\ Within(at)
    BY <1>1, KeywordTaken DEF Marks, End
  <1>3. "{" \in Marks /\ "{" \notin NoSemi /\ NoSemi \subseteq Marks \union {End}
    BY DEF Marks, NoSemi, End
  <1>4. Reads(at + 1, r, NoSemi)
    BY <1>1, <1>2, <1>3, NamedReads DEF ParserTypes, Takes
  <1>5. Closed(at + 1, r)
    BY <1>1, <1>2, <1>4, ReadsIsClosed DEF ParserTypes
  <1> HIDE DEF r
  <1>6. TakenAfter(r.i)
    BY <1>1, <1>2, <1>5, ClosedIsKept DEF TakenAfter, ParserTypes
  <1> QED
    BY <1>2, <1>6 DEF r

LEMMA StructGoesOn == ASSUME ParserInv, Struct PROVE Onward
  <1> DEFINE r == ParseStruct(After(at))
  <1>1. /\ ParserTypes /\ ErrorsUpTo(errs, at) /\ toks' = toks
        /\ phase = "root" /\ phase' = "root"
    BY DEF ParserInv, Struct
  <1>2. TakenAfter(r.i)
    BY StructIsTaken
  <1>3. \/ at' = r.i /\ errs' = errs
        \/ at' = Resume(r.i) /\ errs' = Append(errs, r.i)
    BY DEF Struct, Complain
  <1> HIDE DEF r
  <1> QED
    BY <1>1, <1>2, <1>3, TakenGoesOn

LEMMA AliasGoesOn == ASSUME ParserInv, Alias PROVE Onward
  <1> DEFINE r == ParseAlias(After(at))
  <1>1. /\ ParserTypes /\ ErrorsUpTo(errs, at) /\ toks' = toks
        /\ phase = "root" /\ phase' = "root"
    BY DEF ParserInv, Alias
  <1>2. TakenAfter(r.i)
    BY AliasIsTaken
  <1>3. \/ at' = r.i /\ errs' = errs
        \/ at' = Resume(r.i) /\ errs' = Append(errs, r.i)
    BY DEF Alias, Complain
  <1> HIDE DEF r
  <1> QED
    BY <1>1, <1>2, <1>3, TakenGoesOn

LEMMA OpenInterfaceGoesOn == ASSUME ParserInv, OpenInterface PROVE Onward
  <1> DEFINE r == Named(After(at), "{")
  <1>1. /\ ParserTypes /\ ErrorsUpTo(errs, at) /\ toks' = toks
        /\ phase = "root" /\ phase' \in {"root", "members"}
    BY DEF ParserInv, OpenInterface
  <1>2. TakenAfter(r.i)
    BY HeadIsTaken
  <1>3. \/ at' = r.i /\ errs' = errs
        \/ at' = Resume(r.i) /\ errs' = Append(errs, r.i)
    BY DEF OpenInterface, Complain
  <1> HIDE DEF r
  <1> QED
    BY <1>1, <1>2, <1>3, TakenGoesOn

\* The brace and the ';' behind the last member.
LEMMA CloseIsKept ==
    ASSUME ParserTypes
    PROVE  LET r == Then(Expect(at, "}"), LAMBDA brace : FollowedBy(brace.i, ";", <<>>))
           IN  r.i \in at..Len(toks) /\ NoneBetween(at, r.i)
  <1> DEFINE brace == Expect(at, "}")
             end == FollowedBy(brace.i, ";", <<>>)
             r == IF brace.ok THEN end ELSE brace
  <1>1. IsFile(toks) /\ at \in 1..Len(toks) /\ Len(toks) \in Nat /\ at \in Nat
    BY PositionTypes DEF ParserTypes
  <1>2. Then(Expect(at, "}"), LAMBDA a : FollowedBy(a.i, ";", <<>>)) = r
    BY DEF Then
  <1>3. "}" \in Asked /\ "}" \notin NoSemi /\ NoSemi \subseteq Marks \union {End}
    BY DEF Asked, Marks, NoSemi, End
  <1>4. Reads(at, brace, NoSemi)
    BY <1>1, <1>3, MarkReads DEF Takes
  <1> HIDE DEF brace
  <1>5. Closed(at, r)
    BY <1>1, <1>4, ClosedBySemi
  <1> HIDE DEF r
  <1>6. r.i \in at..Len(toks) /\ SemiFree(at, r.i)
    BY <1>5 DEF Closed, SemiFree
  <1>7. at \in Int /\ r.i \in Int
    BY ONLY <1>1, <1>6
  <1> QED
    BY <1>2, <1>6, <1>7, KeptWithoutSemi

LEMMA CloseInterfaceGoesOn == ASSUME ParserInv, CloseInterface PROVE Onward
  <1> DEFINE r == Then(Expect(at, "}"), LAMBDA brace : FollowedBy(brace.i, ";", <<>>))
  <1>1. /\ ParserTypes /\ ErrorsUpTo(errs, at) /\ toks' = toks
        /\ phase = "members" /\ phase' = "root"
    BY DEF ParserInv, CloseInterface
  <1>2. \/ at' = r.i /\ errs' = errs
        \/ at' = Resume(r.i) /\ errs' = Append(errs, r.i)
    BY DEF CloseInterface, Complain
  <1>3. r.i \in at..Len(toks) /\ NoneBetween(at, r.i)
    BY <1>1, CloseIsKept
  <1> HIDE DEF r
  <1>4. at' \in at..Len(toks) /\ NoneBetween(at, at') /\ ErrorsUpTo(errs', at')
    BY <1>1, <1>2, <1>3, GoesOn
  <1>5. Remaining' < Remaining
    BY <1>1, <1>4, RemainingFalls
  <1> QED
    BY <1>1, <1>4, <1>5 DEF Onward

LEMMA StrayGoesOn == ASSUME ParserInv, Stray PROVE Onward
  <1> DEFINE q == IF toks[at] = "package" THEN After(at) ELSE at
  <1>1. /\ ParserTypes /\ ErrorsUpTo(errs, at) /\ toks' = toks
        /\ phase = "root" /\ phase' = "root" /\ toks[at] \notin {"struct", "using", "interface", End}
        /\ errs' = Append(errs, at) /\ at' = Resume(q)
    BY DEF ParserInv, Stray, Complain
  <1>2. Len(toks) \in Nat /\ at \in Nat \ {0} /\ at \in 1..Len(toks) /\ IsFile(toks)
    BY <1>1, PositionTypes DEF ParserTypes
  <1>3. q \in {at, at + 1} /\ q \in 1..Len(toks) /\ (q = at + 1 \/ toks[at] # "package")
    BY <1>1, <1>2, KeywordTaken DEF Marks, End
  <1> HIDE DEF q
  <1>4. q \in at..Len(toks) /\ NoneBetween(at, q)
    <2>1. q \in at..Len(toks) /\ \A j \in at + 1..q - 1 : FALSE
      <3>1. q \in {at, at + 1} /\ q \in 1..Len(toks)
        BY <1>3
      <3> QED
        BY ONLY <1>2, <3>1
    <2> QED
      BY <2>1 DEF NoneBetween
  <1>5. at' \in at..Len(toks) /\ at' \in q..Len(toks) /\ NoneBetween(at, at')
    BY <1>1, <1>2, <1>4, KeptOn
  <1>6. at' # at
    <2>1. CASE q = at + 1
      BY ONLY <1>2, <1>5, <2>1
    <2>2. CASE q = at /\ toks[at] # "package"
      <3>1. toks[at] \notin Starters \union {End}
        BY <1>1, <2>2 DEF Starters
      <3>2. Resume(at) > at
        BY <1>2, <3>1, ResumeKeeps
      <3>3. at' = Resume(at)
        BY <1>1, <2>2
      <3> QED
        BY ONLY <1>2, <3>2, <3>3
    <2> QED
      BY <1>3, <2>1, <2>2
  <1>7. ErrorsUpTo(errs', at')
    <2>1. ErrorsUpTo(errs', at)
      BY <1>1, <1>2, ErrorReported
    <2>2. at \in Nat /\ at' \in Nat /\ at <= at'
      BY ONLY <1>2, <1>5
    <2> QED
      BY <2>1, <2>2, ErrorsUpToMore
  <1>8. Remaining' < Remaining
    BY <1>1, <1>5, <1>6, RemainingFalls
  <1> QED
    BY <1>1, <1>5, <1>7, <1>8 DEF Onward

LEMMA EndOfFileGoesOn == ASSUME ParserInv, EndOfFile PROVE Onward
  <1>1. /\ ParserTypes /\ ErrorsUpTo(errs, at) /\ toks' = toks /\ errs' = errs /\ at' = at
        /\ phase = "root" /\ phase' = "parsed"
    BY DEF ParserInv, EndOfFile
  <1>2. Remaining' < Remaining
    BY <1>1, NothingPassed, RemainingFalls
  <1> QED
    BY <1>1, <1>2, NothingPassed DEF Onward

LEMMA MemberGoesOn == ASSUME ParserInv, Member PROVE Onward
  <1> DEFINE anns == ParseAnnotations(at)
             kind == toks[anns.i]
             r == CASE kind = "method" -> ParseMethod(After(anns.i), anns.v)
                    [] kind = "signal" -> ParseSignal(After(anns.i), anns.v)
                    [] kind = "property" -> ParseProperty(After(anns.i), anns.v)
                    [] OTHER -> Failed(anns.i)
             known == IF anns.ok THEN errs ELSE Append(errs, anns.i)
             keyword == kind \in {"method", "signal", "property"}
  <1>1. /\ ParserTypes /\ ErrorsUpTo(errs, at) /\ toks' = toks /\ phase = "members"
        /\ at' = IF r.ok THEN r.i ELSE Resume(r.i)
        /\ errs' = IF r.ok THEN known ELSE Append(known, r.i)
        /\ phase' = IF keyword THEN "members" ELSE "root"
    BY DEF ParserInv, Member
  <1>2. Len(toks) \in Nat /\ at \in Nat \ {0} /\ at \in 1..Len(toks) /\ IsFile(toks)
    BY <1>1, PositionTypes DEF ParserTypes
  <1>3. Reads(at, anns, Plain)
    BY <1>2, AnnotationsRead
  <1>4. anns.i \in at..Len(toks)
    BY <1>3 DEF Reads
  <1>5. anns.i \in 1..Len(toks) /\ anns.i \in Nat \ {0} /\ at <= anns.i
    BY ONLY <1>2, <1>4
  <1>6. \A k \in at..anns.i - 1 : Within(k)
    BY <1>3 DEF Reads, Plain, Within
  <1>7. keyword => /\ After(anns.i) = anns.i + 1 /\ anns.i + 1 \in 1..Len(toks) /\ Within(anns.i)
                   /\ Closed(anns.i + 1, r)
    <2> SUFFICES ASSUME keyword
                 PROVE  /\ After(anns.i) = anns.i + 1 /\ anns.i + 1 \in 1..Len(toks) /\ Within(anns.i)
                        /\ Closed(anns.i + 1, r)
      OBVIOUS
    <2>1. Within(anns.i) /\ kind # End
      BY DEF Within, End
    <2> HIDE DEF anns
    <2>2. After(anns.i) = anns.i + 1 /\ anns.i + 1 \in 1..Len(toks)
      BY <1>2, <1>5, <2>1, OneOn
    <2>3. \/ r = ParseMethod(anns.i + 1, anns.v)
          \/ r = ParseSignal(anns.i + 1, anns.v)
          \/ r = ParseProperty(anns.i + 1, anns.v)
      BY <2>2
    <2> HIDE DEF r
    <2>4. Closed(anns.i + 1, r)
      BY <1>2, <2>2, <2>3, MethodClosed, SignalClosed, PropertyClosed
    <2> QED
      BY <2>1, <2>2, <2>4
  <1>8. ~keyword => r.i = anns.i /\ ~r.ok
    BY DEF Failed
  <1> HIDE DEF anns, r, keyword
  <1>9. /\ r.i \in anns.i..Len(toks) /\ \A k \in at..r.i - 2 : Within(k) \/ k \in anns.i + 1..r.i - 2
        /\ keyword => r.i > at
    <2>1. CASE keyword
      <3>1. r.i \in anns.i + 1..Len(toks)
        BY <1>7, <2>1 DEF Closed
      <3>2. \A k \in at..r.i - 2 : k \in at..anns.i - 1 \/ k = anns.i \/ k \in anns.i + 1..r.i - 2
        BY ONLY <1>2, <1>5, <3>1
      <3>3. r.i \in anns.i..Len(toks) /\ r.i > at
        BY ONLY <1>2, <1>5, <3>1
      <3> QED
        BY <1>6, <1>7, <2>1, <3>2, <3>3
    <2>2. CASE ~keyword
      <3>1. r.i \in anns.i..Len(toks) /\ \A k \in at..r.i - 2 : k \in at..anns.i - 1
        <4>1. r.i = anns.i
          BY <1>8, <2>2
        <4> QED
          BY ONLY <1>2, <1>5, <4>1
      <3> QED
        BY <1>6, <2>2, <3>1
    <2> QED
      BY <2>1, <2>2
  <1>10. r.i \in at..Len(toks) /\ r.i \in Nat \ {0} /\ anns.i <= r.i
    BY ONLY <1>2, <1>5, <1>9
  <1>11. SemiFree(at, r.i)
    <2>1. ASSUME NEW k \in at..r.i - 2 PROVE toks[k] # ";"
      <3>1. CASE Within(k)
        BY <3>1 DEF Within
      <3>2. CASE k \in anns.i + 1..r.i - 2
        <4>1. keyword
          <5>1. r.i # anns.i
            BY ONLY <1>5, <3>2
          <5> QED
            BY <1>8, <5>1
        <4> QED
          BY <1>7, <3>2, <4>1 DEF Closed
      <3> QED
        BY <1>9, <3>1, <3>2
    <2> QED
      BY <2>1 DEF SemiFree
  <1>12. NoneBetween(at, r.i)
    BY <1>2, <1>10, <1>11, KeptWithoutSemi
  <1>13. ErrorsUpTo(known, anns.i)
    BY <1>1, <1>2, <1>5, ErrorReported, ErrorsUpToMore
  <1> HIDE DEF known
  <1>14. at' \in r.i..Len(toks) /\ at' \in at..Len(toks) /\ NoneBetween(at, at')
    <2>1. CASE r.ok
      <3>1. at' = r.i
        BY <1>1, <2>1
      <3>2. r.i \in r.i..Len(toks)
        BY ONLY <1>2, <1>10
      <3> QED
        BY <1>10, <1>12, <3>1, <3>2
    <2>2. CASE ~r.ok
      BY <1>1, <1>2, <1>10, <1>12, <2>2, KeptOn
    <2> QED
      BY <2>1, <2>2
  <1>15. at' \in Nat /\ r.i <= at'
    BY ONLY <1>10, <1>14, <1>2
  <1>16. ErrorsUpTo(errs', at')
    <2>1. CASE r.ok
      <3>1. errs' = known
        BY <1>1, <2>1
      <3>2. anns.i <= at' /\ anns.i \in Nat
        BY ONLY <1>5, <1>10, <1>15
      <3> QED
        BY <1>13, <1>15, <3>1, <3>2, ErrorsUpToMore
    <2>2. CASE ~r.ok
      <3>1. errs' = Append(known, r.i)
        BY <1>1, <2>2
      <3>2. ErrorsUpTo(errs', r.i)
        BY <1>5, <1>10, <1>13, <3>1, ErrorReported
      <3> QED
        BY <1>10, <1>15, <3>2, ErrorsUpToMore
    <2> QED
      BY <2>1, <2>2
  <1>17. Remaining' < Remaining
    <2>1. keyword => at' # at
      BY ONLY <1>2, <1>9, <1>10, <1>15
    <2> QED
      BY <1>1, <1>14, <2>1, RemainingFalls
  <1> QED
    BY <1>1, <1>14, <1>16, <1>17 DEF Onward

-----------------------------------------------------------------------------
(* Every declaration is answered                                           *)

IsSequence(s) == \E S : s \in Seq(S)
IsTree(tree) ==
    \E p, s, a, i : /\ tree = [package |-> p, structs |-> s, alias |-> a, interfaces |-> i]
                    /\ IsSequence(s) /\ IsSequence(a) /\ IsSequence(i)
IsInterface(i) ==
    \E n, a, m, s, p : i = [name |-> n, at |-> a, methods |-> m, signals |-> s, properties |-> p]

\* While the members of an interface are read, no other declaration has started.
ReadsOpen == phase = "members" => open.at \in 1..at - 1 /\ NoneBetween(open.at, at)
AnswerInv == /\ ParserInv /\ IsTree(root) /\ IsInterface(open)
             /\ ReadsOpen /\ DeclarationsAnswered

LEMMA AppendKeeps ==
    ASSUME NEW s, IsSequence(s), NEW e
    PROVE  /\ IsSequence(Append(s, e)) /\ Positions(s) \union {e.at} \subseteq Positions(Append(s, e))
           /\ Len(s) \in Nat /\ Len(Append(s, e)) = Len(s) + 1
           /\ Append(s, e)[Len(s) + 1] = e /\ \A k \in 1..Len(s) : Append(s, e)[k] = s[k]
  <1>1. PICK S : s \in Seq(S)
    BY DEF IsSequence
  <1> DEFINE T == S \union {e}
             more == Append(s, e)
  <1>2. s \in Seq(T)
    BY <1>1
  <1>3. /\ more \in Seq(T) /\ Len(s) \in Nat /\ Len(more) = Len(s) + 1
        /\ more[Len(s) + 1] = e /\ \A k \in 1..Len(s) : more[k] = s[k]
        /\ DOMAIN s = 1..Len(s) /\ DOMAIN more = 1..Len(more)
    BY <1>2
  <1> HIDE DEF more
  <1>4. IsSequence(more)
    BY <1>3 DEF IsSequence
  <1>5. Len(s) + 1 \in DOMAIN more /\ \A k \in DOMAIN s : k \in DOMAIN more /\ more[k] = s[k]
    BY <1>3
  <1>6. Positions(s) \union {e.at} \subseteq Positions(more)
    BY <1>3, <1>5 DEF Positions
  <1> QED
    BY <1>3, <1>4, <1>6 DEF more

\* Errors that were reported stay so.
LEMMA DiagnosedStays ==
    ASSUME NEW list, IsSequence(list), NEW e, NEW i, DiagnosedIn(list, i)
    PROVE  DiagnosedIn(Append(list, e), i)
  <1>1. PICK k \in 1..Len(list) : list[k] >= i /\ NoneBetween(i, list[k])
    BY DEF DiagnosedIn
  <1>2. /\ Len(list) \in Nat /\ Len(Append(list, e)) = Len(list) + 1
        /\ \A j \in 1..Len(list) : Append(list, e)[j] = list[j]
    BY AppendKeeps
  <1>3. k \in 1..Len(Append(list, e))
    BY ONLY <1>2
  <1> QED
    BY <1>1, <1>2, <1>3 DEF DiagnosedIn

LEMMA DiagnosedNow ==
    ASSUME NEW list, IsSequence(list), NEW e, NEW i, e >= i, NoneBetween(i, e)
    PROVE  DiagnosedIn(Append(list, e), i)
  <1>1. Len(list) \in Nat /\ Len(Append(list, e)) = Len(list) + 1 /\ Append(list, e)[Len(list) + 1] = e
    BY AppendKeeps
  <1>2. Len(list) + 1 \in 1..Len(Append(list, e))
    BY ONLY <1>1
  <1> QED
    BY <1>1, <1>2 DEF DiagnosedIn

LEMMA SameFile ==
    ASSUME toks' = toks
    PROVE  /\ \A i : Declares(i)' <=> Declares(i)
           /\ \A p, q : NoneBetween(p, q)' <=> NoneBetween(p, q)
  <1>1. \A i : Depth(i)' = Depth(i)
    BY DEF Depth
  <1>2. \A i : Declares(i)' <=> Declares(i)
    BY <1>1 DEF Declares
  <1> QED
    BY <1>2 DEF NoneBetween

LEMMA NoneBetweenOn ==
    ASSUME NEW p \in Int, NEW q \in Int, NEW r \in Int, p < q, q <= r,
           NoneBetween(p, q), NoneBetween(q, r), ~Declares(q) \/ q = r
    PROVE  NoneBetween(p, r)
  <1>1. ASSUME NEW j \in p + 1..r - 1
        PROVE  j \in p + 1..q - 1 \/ j \in q + 1..r - 1 \/ (j = q /\ q # r)
    OBVIOUS
  <1> QED
    BY <1>1 DEF NoneBetween

\* What a step answers: the declaration at which it starts, and the open interface.
Answers ==
    /\ IsTree(root') /\ IsInterface(open') /\ ReadsOpen'
    /\ Taken(root) \subseteq Taken(root')
    /\ \A i : DiagnosedIn(errs, i) => DiagnosedIn(errs', i)
    /\ Declares(at) /\ at \in 1..at' - 1 =>
          \/ at \in Taken(root') \/ (phase' = "members" /\ at = open'.at) \/ DiagnosedIn(errs', at)
    /\ phase = "members" =>
          \/ open.at \in Taken(root') \/ (phase' = "members" /\ open.at = open'.at)
          \/ DiagnosedIn(errs', open.at)

LEMMA BeforeAtOrBehind ==
    ASSUME NEW a \in Nat, NEW b \in Nat, a <= b
    PROVE  \A i \in 1..b - 1 : i \in 1..a - 1 \/ i = a \/ i \in a + 1..b - 1
  OBVIOUS

LEMMA AnswersAll ==
    ASSUME AnswerInv, Onward, Answers
    PROVE  DeclarationsAnswered'
  <1>1. toks' = toks /\ at' \in at..Len(toks) /\ NoneBetween(at, at')
    BY DEF Onward
  <1>2. Len(toks) \in Nat /\ at \in Nat \ {0}
    BY PositionTypes DEF AnswerInv, ParserInv
  <1>3. ASSUME NEW i, DiagnosedIn(errs', i) PROVE DiagnosedIn(errs, i)'
    <2>1. \A j : Declares(j)' <=> Declares(j)
      BY <1>1, SameFile
    <2> QED
      BY <1>3, <2>1 DEF DiagnosedIn, NoneBetween
  <1>4. Taken(root)' = Taken(root')
    BY DEF Taken, Positions
  <1>n. at' \in Nat /\ at <= at'
    BY ONLY <1>1, <1>2
  <1>c. ASSUME NEW i \in 1..at' - 1
        PROVE  i \in 1..at - 1 \/ i = at \/ i \in at + 1..at' - 1
    BY <1>2, <1>n, BeforeAtOrBehind
  <1>5. ASSUME NEW i \in 1..at' - 1, Declares(i)'
        PROVE  i \in Taken(root') \/ (phase' = "members" /\ i = open'.at) \/ DiagnosedIn(errs', i)
    <2>1. Declares(i)
      BY <1>1, <1>5, SameFile
    <2>2. i \in 1..at - 1 \/ i = at \/ i \in at + 1..at' - 1
      BY <1>c
    <2>3. CASE i \in 1..at - 1
      <3>1. \/ i \in Taken(root) \/ (phase = "members" /\ i = open.at) \/ DiagnosedIn(errs, i)
        BY <2>1, <2>3 DEF AnswerInv, DeclarationsAnswered
      <3> QED
        BY <3>1 DEF Answers
    <2>4. CASE i = at
      BY <1>5, <2>1, <2>4 DEF Answers
    <2>5. CASE i \in at + 1..at' - 1
      BY <1>1, <2>1, <2>5 DEF NoneBetween
    <2> QED
      BY <2>2, <2>3, <2>4, <2>5
  <1> QED
    BY <1>3, <1>4, <1>5 DEF DeclarationsAnswered

LEMMA AnswerFacts ==
    ASSUME AnswerInv
    PROVE  /\ ParserInv /\ ParserTypes /\ IsFile(toks)
           /\ Len(toks) \in Nat /\ at \in Nat \ {0} /\ at \in 1..Len(toks)
           /\ IsSequence(errs) /\ \A e : IsSequence(Append(errs, e))
           /\ IsTree(root) /\ IsInterface(open)
  <1>1. ParserInv /\ ParserTypes /\ IsTree(root) /\ IsInterface(open)
    BY DEF AnswerInv, ParserInv
  <1>2. IsSequence(errs)
    BY <1>1 DEF ParserInv, ErrorsUpTo, IsSequence
  <1>3. \A e : IsSequence(Append(errs, e))
    BY <1>2, AppendKeeps
  <1> QED
    BY <1>1, <1>2, <1>3, PositionTypes DEF ParserTypes

LEMMA FollowedValue ==
    ASSUME NEW i, NEW kind, NEW v, FollowedBy(i, kind, v).ok
    PROVE  FollowedBy(i, kind, v).v = v
  <1>1. FollowedBy(i, kind, v) = IF Expect(i, kind).ok THEN Got(Expect(i, kind).i, v) ELSE Expect(i, kind)
    BY DEF FollowedBy, Then
  <1> QED
    BY <1>1 DEF Got

\* What a declaration keeps of where it stands: the position of its keyword.
LEMMA StructAt ==
    ASSUME NEW i, ParseStruct(i).ok
    PROVE  ParseStruct(i).v.at = i - 1
  <1> DEFINE name == Named(i, "{")
             fields == ParseFields(name.i)
             close == Expect(fields.i, "}")
             v == [name |-> name.v, fields |-> fields.v, at |-> i - 1]
             r == FollowedBy(close.i, ";", v)
  <1>1. ParseStruct(i) = IF name.ok THEN (IF fields.ok THEN (IF close.ok THEN r ELSE close) ELSE fields)
                         ELSE name
    BY DEF ParseStruct, Then
  <1>2. v.at = i - 1
    OBVIOUS
  <1> HIDE DEF name, fields, close, v
  <1>3. ParseStruct(i) = r /\ r.ok
    BY <1>1
  <1> QED
    BY <1>2, <1>3, FollowedValue

LEMMA AliasAt ==
    ASSUME NEW i, ParseAlias(i).ok
    PROVE  ParseAlias(i).v.at = i - 1
  <1> DEFINE name == Named(i, "=")
             target == ParseType(name.i)
             v == [name |-> name.v, target |-> target.v, at |-> i - 1]
             r == FollowedBy(target.i, ";", v)
  <1>1. ParseAlias(i) = IF name.ok THEN (IF target.ok THEN r ELSE target) ELSE name
    BY DEF ParseAlias, Then
  <1>2. v.at = i - 1
    OBVIOUS
  <1> HIDE DEF name, target, v
  <1>3. ParseAlias(i) = r /\ r.ok
    BY <1>1
  <1> QED
    BY <1>2, <1>3, FollowedValue

LEMMA TreeGrows ==
    ASSUME NEW tree, IsTree(tree), NEW v
    PROVE  /\ LET more == [tree EXCEPT !.structs = Append(@, v)]
              IN  IsTree(more) /\ Taken(tree) \union {v.at} \subseteq Taken(more)
           /\ LET more == [tree EXCEPT !.alias = Append(@, v)]
              IN  IsTree(more) /\ Taken(tree) \union {v.at} \subseteq Taken(more)
           /\ LET more == [tree EXCEPT !.interfaces = Append(@, v)]
              IN  IsTree(more) /\ Taken(tree) \union {v.at} \subseteq Taken(more)
           /\ LET more == [tree EXCEPT !.package = v]
              IN  IsTree(more) /\ Taken(tree) = Taken(more)
  <1>1. PICK p, s, a, i : /\ tree = [package |-> p, structs |-> s, alias |-> a, interfaces |-> i]
                          /\ IsSequence(s) /\ IsSequence(a) /\ IsSequence(i)
    BY DEF IsTree
  <1>2. \A q \in {s, a, i} : /\ IsSequence(Append(q, v))
                             /\ Positions(q) \union {v.at} \subseteq Positions(Append(q, v))
    BY <1>1, AppendKeeps
  <1>q. IsSequence(Append(s, v)) /\ IsSequence(Append(a, v)) /\ IsSequence(Append(i, v))
    BY <1>2
  <1>f. tree.structs = s /\ tree.alias = a /\ tree.interfaces = i
    BY <1>1
  <1>3. \A e : /\ [tree EXCEPT !.structs = e] = [package |-> p, structs |-> e, alias |-> a, interfaces |-> i]
               /\ [tree EXCEPT !.alias = e] = [package |-> p, structs |-> s, alias |-> e, interfaces |-> i]
               /\ [tree EXCEPT !.interfaces = e] = [package |-> p, structs |-> s, alias |-> a, interfaces |-> e]
               /\ [tree EXCEPT !.package = e] = [package |-> e, structs |-> s, alias |-> a, interfaces |-> i]
    BY <1>1
  <1>4. Taken(tree) = Positions(s) \union Positions(a) \union Positions(i)
    BY <1>1 DEF Taken
  <1>5. \A q, u, w, z : IsSequence(u) /\ IsSequence(w) /\ IsSequence(z) =>
            LET more == [package |-> q, structs |-> u, alias |-> w, interfaces |-> z]
            IN  IsTree(more) /\ Taken(more) = Positions(u) \union Positions(w) \union Positions(z)
    BY DEF IsTree, Taken
  <1>6. LET more == [tree EXCEPT !.structs = Append(@, v)]
        IN  IsTree(more) /\ Taken(tree) \union {v.at} \subseteq Taken(more)
    <2> DEFINE new == [package |-> p, structs |-> Append(s, v), alias |-> a, interfaces |-> i]
    <2>1. [tree EXCEPT !.structs = Append(@, v)] = new
      BY <1>3, <1>f
    <2>2. IsTree(new) /\ Taken(new) = Positions(Append(s, v)) \union Positions(a) \union Positions(i)
      <3>1. IsTree(new)
        BY <1>1, <1>q DEF IsTree
      <3>2. new.structs = Append(s, v) /\ new.alias = a /\ new.interfaces = i
        OBVIOUS
      <3> HIDE DEF new
      <3> QED
        BY <3>1, <3>2 DEF Taken
    <2> HIDE DEF new
    <2> QED
      BY <1>2, <1>4, <2>1, <2>2
  <1>7. LET more == [tree EXCEPT !.alias = Append(@, v)]
        IN  IsTree(more) /\ Taken(tree) \union {v.at} \subseteq Taken(more)
    <2> DEFINE new == [package |-> p, structs |-> s, alias |-> Append(a, v), interfaces |-> i]
    <2>1. [tree EXCEPT !.alias = Append(@, v)] = new
      BY <1>3, <1>f
    <2>2. IsTree(new) /\ Taken(new) = Positions(s) \union Positions(Append(a, v)) \union Positions(i)
      <3>1. IsTree(new)
        BY <1>1, <1>q DEF IsTree
      <3>2. new.structs = s /\ new.alias = Append(a, v) /\ new.interfaces = i
        OBVIOUS
      <3> HIDE DEF new
      <3> QED
        BY <3>1, <3>2 DEF Taken
    <2> HIDE DEF new
    <2> QED
      BY <1>2, <1>4, <2>1, <2>2
  <1>8. LET more == [tree EXCEPT !.interfaces = Append(@, v)]
        IN  IsTree(more) /\ Taken(tree) \union {v.at} \subseteq Taken(more)
    <2> DEFINE new == [package |-> p, structs |-> s, alias |-> a, interfaces |-> Append(i, v)]
    <2>1. [tree EXCEPT !.interfaces = Append(@, v)] = new
      BY <1>3, <1>f
    <2>2. IsTree(new) /\ Taken(new) = Positions(s) \union Positions(a) \union Positions(Append(i, v))
      <3>1. IsTree(new)
        BY <1>1, <1>q DEF IsTree
      <3>2. new.structs = s /\ new.alias = a /\ new.interfaces = Append(i, v)
        OBVIOUS
      <3> HIDE DEF new
      <3> QED
        BY <3>1, <3>2 DEF Taken
    <2> HIDE DEF new
    <2> QED
      BY <1>2, <1>4, <2>1, <2>2
  <1>9. LET more == [tree EXCEPT !.package = v]
        IN  IsTree(more) /\ Taken(tree) = Taken(more)
    BY <1>1, <1>3, <1>4, <1>5
  <1> QED
    BY <1>6, <1>7, <1>8, <1>9

\* A declaration outside of an interface: it is taken, or diagnosed, or none starts there.
LEMMA OutsideAnswers ==
    ASSUME AnswerInv, phase # "members", phase' # "members", open' = open, NEW q,
           \/ errs' = errs /\ IsTree(root') /\ Taken(root) \union {at} \subseteq Taken(root')
           \/ root' = root /\ errs' = Append(errs, q) /\ q >= at /\ NoneBetween(at, q)
           \/ /\ IsTree(root') /\ Taken(root) \subseteq Taken(root')
              /\ errs' = errs \/ errs' = Append(errs, q)
              /\ ~(Declares(at) /\ at \in 1..at' - 1)
    PROVE  Answers
  <1>1. IsSequence(errs) /\ IsTree(root) /\ IsInterface(open')
    BY AnswerFacts
  <1>2. \A i : DiagnosedIn(errs, i) => DiagnosedIn(errs', i)
    BY <1>1, DiagnosedStays
  <1>3. ReadsOpen'
    BY DEF ReadsOpen
  <1>4. IsTree(root') /\ Taken(root) \subseteq Taken(root')
    BY <1>1
  <1>5. Declares(at) /\ at \in 1..at' - 1 => at \in Taken(root') \/ DiagnosedIn(errs', at)
    <2>1. q >= at /\ NoneBetween(at, q) => DiagnosedIn(Append(errs, q), at)
      BY <1>1, DiagnosedNow
    <2> QED
      BY <2>1
  <1> QED
    BY <1>1, <1>2, <1>3, <1>4, <1>5 DEF Answers

LEMMA TakenIsBehind ==
    ASSUME AnswerInv, NEW q, TakenAfter(q)
    PROVE  q >= at /\ NoneBetween(at, q) /\ (at + 1) - 1 = at
  <1>1. at \in Nat /\ Len(toks) \in Nat
    BY AnswerFacts
  <1>2. q \in at + 1..Len(toks) /\ NoneBetween(at, q)
    BY DEF TakenAfter
  <1>3. q >= at /\ (at + 1) - 1 = at
    BY ONLY <1>1, <1>2
  <1> QED
    BY <1>2, <1>3

LEMMA StructAnswers == ASSUME AnswerInv, Struct PROVE Answers
  <1> DEFINE r == ParseStruct(After(at))
  <1>1. phase = "root" /\ phase' = "root" /\ open' = open
    BY DEF Struct
  <1>2. After(at) = at + 1 /\ TakenAfter(r.i) /\ IsTree(root)
    BY AnswerFacts, StructIsTaken
  <1>3. r.i >= at /\ NoneBetween(at, r.i) /\ (at + 1) - 1 = at
    BY <1>2, TakenIsBehind
  <1>4. CASE r.ok
    <2>1. root' = [root EXCEPT !.structs = Append(@, r.v)] /\ errs' = errs
      BY <1>4 DEF Struct
    <2>2. r.v.at = at
      BY <1>2, <1>3, <1>4, StructAt
    <2> HIDE DEF r
    <2>3. IsTree(root') /\ Taken(root) \union {at} \subseteq Taken(root')
      BY <1>2, <2>1, <2>2, TreeGrows
    <2> QED
      BY <1>1, <2>1, <2>3, OutsideAnswers
  <1>5. CASE ~r.ok
    <2>1. root' = root /\ errs' = Append(errs, r.i)
      BY <1>5 DEF Struct, Complain
    <2> HIDE DEF r
    <2> QED
      BY <1>1, <1>3, <2>1, OutsideAnswers
  <1> QED
    BY <1>4, <1>5

LEMMA AliasAnswers == ASSUME AnswerInv, Alias PROVE Answers
  <1> DEFINE r == ParseAlias(After(at))
  <1>1. phase = "root" /\ phase' = "root" /\ open' = open
    BY DEF Alias
  <1>2. After(at) = at + 1 /\ TakenAfter(r.i) /\ IsTree(root)
    BY AnswerFacts, AliasIsTaken
  <1>3. r.i >= at /\ NoneBetween(at, r.i) /\ (at + 1) - 1 = at
    BY <1>2, TakenIsBehind
  <1>4. CASE r.ok
    <2>1. root' = [root EXCEPT !.alias = Append(@, r.v)] /\ errs' = errs
      BY <1>4 DEF Alias
    <2>2. r.v.at = at
      BY <1>2, <1>3, <1>4, AliasAt
    <2> HIDE DEF r
    <2>3. IsTree(root') /\ Taken(root) \union {at} \subseteq Taken(root')
      BY <1>2, <2>1, <2>2, TreeGrows
    <2> QED
      BY <1>1, <2>1, <2>3, OutsideAnswers
  <1>5. CASE ~r.ok
    <2>1. root' = root /\ errs' = Append(errs, r.i)
      BY <1>5 DEF Alias, Complain
    <2> HIDE DEF r
    <2> QED
      BY <1>1, <1>3, <2>1, OutsideAnswers
  <1> QED
    BY <1>4, <1>5

LEMMA PackageAnswers == ASSUME AnswerInv, Package PROVE Answers
  <1> DEFINE r == Then(ParseDottedName(After(at)), LAMBDA name : FollowedBy(name.i, ";", name.v))
  <1>1. phase = "package" /\ phase' = "root" /\ open' = open
    BY DEF Package
  <1>2. IsTree(root) /\ at \in Nat
    BY AnswerFacts
  <1>3. ~(Declares(at) /\ at \in 1..at' - 1)
    <2>1. CASE toks[at] = "package"
      BY <2>1 DEF Declares
    <2>2. CASE toks[at] # "package"
      <3>1. at' = at
        BY <2>2 DEF Package, Complain
      <3>2. \A n \in Nat : n \notin 1..n - 1
        OBVIOUS
      <3> QED
        BY <1>2, <3>1, <3>2
    <2> QED
      BY <2>1, <2>2
  <1>4. \/ root' = [root EXCEPT !.package = r.v] /\ errs' = errs
        \/ root' = root /\ errs' = Append(errs, r.i)
        \/ root' = root /\ errs' = Append(errs, at)
    BY DEF Package, Complain
  <1> HIDE DEF r
  <1>5. IsTree(root') /\ Taken(root) \subseteq Taken(root')
    <2>1. ASSUME NEW v
          PROVE  /\ IsTree([root EXCEPT !.package = v])
                 /\ Taken(root) \subseteq Taken([root EXCEPT !.package = v])
      BY <1>2, TreeGrows
    <2>2. root' = [root EXCEPT !.package = r.v] \/ root' = root
      BY <1>4
    <2> QED
      BY <1>2, <2>1, <2>2
  <1>6. \E q : errs' = errs \/ errs' = Append(errs, q)
    BY <1>4
  <1> QED
    BY <1>1, <1>3, <1>5, <1>6, OutsideAnswers

LEMMA StrayAnswers == ASSUME AnswerInv, Stray PROVE Answers
  <1>1. /\ phase = "root" /\ phase' = "root" /\ open' = open /\ root' = root
        /\ errs' = Append(errs, at) /\ ~Declares(at)
    BY DEF Stray, Complain, Declares
  <1>2. IsTree(root)
    BY AnswerFacts
  <1> QED
    BY <1>1, <1>2, OutsideAnswers

LEMMA EndOfFileAnswers == ASSUME AnswerInv, EndOfFile PROVE Answers
  <1>1. toks[at] = End
    BY MarkIs DEF EndOfFile
  <1>2. ~Declares(at)
    BY <1>1 DEF Declares, End
  <1>3. /\ phase = "root" /\ phase' = "parsed" /\ open' = open /\ root' = root /\ errs' = errs
    BY DEF EndOfFile
  <1>4. IsTree(root)
    BY AnswerFacts
  <1> QED
    BY <1>2, <1>3, <1>4, OutsideAnswers

LEMMA OpenInterfaceAnswers == ASSUME AnswerInv, OpenInterface PROVE Answers
  <1> DEFINE r == Named(After(at), "{")
  <1>1. phase = "root" /\ root' = root /\ toks' = toks
    BY DEF OpenInterface
  <1>2. TakenAfter(r.i) /\ IsTree(root) /\ at \in Nat \ {0} /\ Len(toks) \in Nat
    BY AnswerFacts, HeadIsTaken
  <1>3. r.i >= at /\ NoneBetween(at, r.i)
    BY <1>2, TakenIsBehind
  <1>4. CASE r.ok
    <2>1. /\ at' = r.i /\ phase' = "members" /\ errs' = errs
          /\ open' = [NoInterface EXCEPT !.name = r.v, !.at = at]
      BY <1>4 DEF OpenInterface
    <2>2. IsInterface(open') /\ open'.at = at
      BY <2>1 DEF NoInterface, IsInterface
    <2>3. r.i \in at + 1..Len(toks)
      BY <1>2 DEF TakenAfter
    <2> HIDE DEF r
    <2>4. at \in 1..r.i - 1
      BY ONLY <1>2, <2>3
    <2>5. ReadsOpen'
      <3>1. NoneBetween(open.at, at)' <=> NoneBetween(at, r.i)
        <4>1. \A j : Declares(j)' <=> Declares(j)
          BY <1>1, SameFile
        <4> QED
          BY <2>1, <2>2, <4>1 DEF NoneBetween
      <3> QED
        BY <1>3, <2>1, <2>2, <2>4, <3>1 DEF ReadsOpen
    <2> QED
      BY <1>1, <1>2, <2>1, <2>2, <2>5 DEF Answers
  <1>5. CASE ~r.ok
    <2>1. errs' = Append(errs, r.i) /\ open' = open /\ phase' = phase
      BY <1>5 DEF OpenInterface, Complain
    <2> HIDE DEF r
    <2> QED
      BY <1>1, <1>3, <2>1, OutsideAnswers
  <1> QED
    BY <1>4, <1>5

LEMMA CloseInterfaceAnswers == ASSUME AnswerInv, CloseInterface PROVE Answers
  <1> DEFINE r == Then(Expect(at, "}"), LAMBDA brace : FollowedBy(brace.i, ";", <<>>))
  <1>0. /\ ParserTypes /\ IsTree(root) /\ IsInterface(open) /\ IsSequence(errs)
        /\ at \in Nat \ {0} /\ Len(toks) \in Nat
    BY AnswerFacts
  <1>1. phase = "members" /\ phase' = "root" /\ open' = NoInterface
    BY DEF CloseInterface
  <1>2. ~Declares(at)
    <2>1. toks[at] = "}" \/ toks[at] = End
      BY MarkIs DEF CloseInterface, Marks
    <2> QED
      BY <2>1 DEF Declares, End
  <1>3. open.at \in 1..at - 1 /\ NoneBetween(open.at, at)
    BY <1>1 DEF AnswerInv, ReadsOpen
  <1>4. \/ root' = [root EXCEPT !.interfaces = Append(@, open)] /\ errs' = errs
        \/ root' = root /\ errs' = Append(errs, r.i)
    BY DEF CloseInterface, Complain
  <1>5. r.i \in at..Len(toks) /\ NoneBetween(at, r.i)
    BY <1>0, CloseIsKept
  <1> HIDE DEF r
  <1>6. IsInterface(open') /\ ReadsOpen'
    BY <1>1 DEF NoInterface, IsInterface, ReadsOpen
  <1>7. r.i >= open.at /\ NoneBetween(open.at, r.i)
    <2>1. /\ open.at \in Int /\ at \in Int /\ r.i \in Int /\ open.at < at /\ at <= r.i
          /\ r.i >= open.at
      BY ONLY <1>0, <1>3, <1>5
    <2> QED
      BY <1>2, <1>3, <1>5, <2>1, NoneBetweenOn
  <1>8. /\ IsTree(root') /\ Taken(root) \subseteq Taken(root')
        /\ open.at \in Taken(root') \/ DiagnosedIn(errs', open.at)
    <2>1. CASE root' = [root EXCEPT !.interfaces = Append(@, open)]
      <3>1. IsTree(root') /\ Taken(root) \union {open.at} \subseteq Taken(root')
        BY <1>0, <2>1, TreeGrows
      <3> QED
        BY <3>1
    <2>2. CASE root' = root /\ errs' = Append(errs, r.i)
      <3>1. DiagnosedIn(errs', open.at)
        BY <1>0, <1>7, <2>2, DiagnosedNow
      <3> QED
        BY <1>0, <2>2, <3>1
    <2> QED
      BY <1>4, <2>1, <2>2
  <1>9. \A i : DiagnosedIn(errs, i) => DiagnosedIn(errs', i)
    BY <1>0, <1>4, DiagnosedStays
  <1> QED
    BY <1>2, <1>6, <1>8, <1>9 DEF Answers

\* Annotations stand before a member: a declaration of the file has none.
LEMMA AnnotationsAreKept ==
    ASSUME ParserTypes
    PROVE  LET end == ParseAnnotations(at).i
           IN  /\ end \in at..Len(toks) /\ end \in Nat \ {0} /\ NoneBetween(at, end)
               /\ end # at => toks[at] = "@"
  <1> DEFINE n == Len(toks)
             items == [k \in DOMAIN toks |-> ParseAnnotation(k)]
             goesOn == {k \in DOMAIN toks : Is(k, "@")}
             R == Repeat(items, goesOn)
             r == ParseAnnotations(at)
  <1>0. IsFile(toks) /\ n \in Nat /\ at \in Nat \ {0} /\ at \in 1..n /\ DOMAIN toks = 1..n
    BY PositionTypes, FileShape DEF ParserTypes
  <1>1. Reads(at, r, Plain)
    BY <1>0, AnnotationsRead
  <1>2. r.i \in at..n /\ \A k \in at..r.i - 1 : Within(k)
    BY <1>1 DEF Reads, Plain, Within
  <1>3. r.i # at => toks[at] = "@"
    <2>1. \A i \in 1..n : i \in goesOn /\ items[i].ok => items[i].i \in i + 1..n
      <3> SUFFICES ASSUME NEW i \in 1..n, i \in goesOn, items[i].ok
                   PROVE  items[i].i \in i + 1..n
        OBVIOUS
      <3>1. Takes(i, items[i], Plain)
        BY <1>0, AnnotationReads
      <3> HIDE DEF items, goesOn
      <3>2. items[i].i \in i..n /\ items[i].i > i
        BY <3>1 DEF Takes, Reads
      <3> QED
        BY ONLY <1>0, <3>2, i \in 1..n
    <2>2. r = R[at]
      BY DEF ParseAnnotations
    <2>3. at \notin goesOn <=> ~Is(at, "@")
      BY <1>0
    <2> HIDE DEF items, goesOn, R, r
    <2>4. r = TurnOf(R, items, goesOn, at)
      BY <1>0, <2>1, <2>2, RepeatTurns DEF R
    <2>5. ~Is(at, "@") => r.i = at
      BY <2>3, <2>4 DEF TurnOf, Got
    <2> QED
      BY <2>5, MarkIs DEF Marks
  <1> HIDE DEF r
  <1>4. \A k \in at..r.i - 2 : k \in at..r.i - 1
    BY ONLY <1>0, <1>2
  <1>5. SemiFree(at, r.i)
    BY <1>2, <1>4 DEF SemiFree, Within
  <1>6. at \in Int /\ r.i \in Int /\ r.i \in Nat \ {0}
    BY ONLY <1>0, <1>2
  <1>7. NoneBetween(at, r.i)
    BY <1>5, <1>6, KeptWithoutSemi
  <1> QED
    BY <1>2, <1>3, <1>6, <1>7 DEF r

LEMMA MemberAnswers == ASSUME AnswerInv, Member, Onward PROVE Answers
  <1> DEFINE anns == ParseAnnotations(at)
             kind == toks[anns.i]
             r == CASE kind = "method" -> ParseMethod(After(anns.i), anns.v)
                    [] kind = "signal" -> ParseSignal(After(anns.i), anns.v)
                    [] kind = "property" -> ParseProperty(After(anns.i), anns.v)
                    [] OTHER -> Failed(anns.i)
             known == IF anns.ok THEN errs ELSE Append(errs, anns.i)
             keyword == kind \in {"method", "signal", "property"}
  <1>0. /\ ParserTypes /\ IsTree(root) /\ IsInterface(open) /\ IsSequence(errs)
        /\ \A e : IsSequence(Append(errs, e))
        /\ at \in Nat \ {0} /\ Len(toks) \in Nat
    BY AnswerFacts
  <1>1. /\ phase = "members" /\ root' = root /\ toks' = toks
        /\ phase' = IF keyword THEN "members" ELSE "root"
        /\ errs' = IF r.ok THEN known ELSE Append(known, r.i)
    BY DEF Member
  <1>2. ~keyword => open' = NoInterface
    BY DEF Member
  <1>3. keyword => IsInterface(open') /\ open'.at = open.at
    <2>1. PICK n, a, m, s, p : open = [name |-> n, at |-> a, methods |-> m, signals |-> s, properties |-> p]
      BY <1>0 DEF IsInterface
    <2>2. ASSUME NEW e
          PROVE  \A next \in {open, [open EXCEPT !.methods = Append(@, e)],
                              [open EXCEPT !.signals = Append(@, e)],
                              [open EXCEPT !.properties = Append(@, e)]} :
                    IsInterface(next) /\ next.at = open.at
      <3>0. open.methods = m /\ open.signals = s /\ open.properties = p
        BY <2>1
      <3>a. \A x : /\ [open EXCEPT !.methods = x]
                        = [name |-> n, at |-> a, methods |-> x, signals |-> s, properties |-> p]
                   /\ [open EXCEPT !.signals = x]
                        = [name |-> n, at |-> a, methods |-> m, signals |-> x, properties |-> p]
                   /\ [open EXCEPT !.properties = x]
                        = [name |-> n, at |-> a, methods |-> m, signals |-> s, properties |-> x]
        BY <2>1
      <3>1. /\ [open EXCEPT !.methods = Append(@, e)]
                  = [name |-> n, at |-> a, methods |-> Append(m, e), signals |-> s, properties |-> p]
            /\ [open EXCEPT !.signals = Append(@, e)]
                  = [name |-> n, at |-> a, methods |-> m, signals |-> Append(s, e), properties |-> p]
            /\ [open EXCEPT !.properties = Append(@, e)]
                  = [name |-> n, at |-> a, methods |-> m, signals |-> s, properties |-> Append(p, e)]
        BY <3>0, <3>a
      <3>2. \A x, y, z : IsInterface([name |-> n, at |-> a, methods |-> x, signals |-> y, properties |-> z])
        BY DEF IsInterface
      <3>3. \A x, y, z : [name |-> n, at |-> a, methods |-> x, signals |-> y, properties |-> z].at = a
        OBVIOUS
      <3>4. IsInterface(open) /\ open.at = a
        BY <2>1, <3>2
      <3>5. /\ IsInterface([open EXCEPT !.methods = Append(@, e)])
            /\ [open EXCEPT !.methods = Append(@, e)].at = a
        BY <3>1, <3>2, <3>3
      <3>6. /\ IsInterface([open EXCEPT !.signals = Append(@, e)])
            /\ [open EXCEPT !.signals = Append(@, e)].at = a
        BY <3>1, <3>2, <3>3
      <3>7. /\ IsInterface([open EXCEPT !.properties = Append(@, e)])
            /\ [open EXCEPT !.properties = Append(@, e)].at = a
        BY <3>1, <3>2, <3>3
      <3> QED
        BY <3>4, <3>5, <3>6, <3>7
    <2>3. keyword => open' \in {open, [open EXCEPT !.methods = Append(@, r.v)],
                                [open EXCEPT !.signals = Append(@, r.v)],
                                [open EXCEPT !.properties = Append(@, r.v)]}
      <3> HIDE DEF anns
      <3> QED
        BY DEF Member, anns
    <2> HIDE DEF r, keyword
    <2> QED
      BY <2>2, <2>3
  <1>4. ~keyword => ~r.ok /\ r.i = anns.i
    BY DEF Failed
  <1>5. /\ anns.i \in at..Len(toks) /\ anns.i \in Nat \ {0} /\ NoneBetween(at, anns.i)
        /\ anns.i # at => toks[at] = "@"
    BY <1>0, AnnotationsAreKept
  <1>6. (keyword => ~Declares(at)) /\ (~Declares(at) \/ at = anns.i)
    BY <1>5 DEF Declares
  <1>7. IsSequence(known) /\ \A i : DiagnosedIn(errs, i) => DiagnosedIn(known, i)
    BY <1>0, DiagnosedStays
  <1> HIDE DEF anns, r, known, keyword
  <1>8. \A i : DiagnosedIn(errs, i) => DiagnosedIn(errs', i)
    BY <1>1, <1>7, DiagnosedStays
  <1>9. open.at \in 1..at - 1 /\ NoneBetween(open.at, at)
    BY <1>1 DEF AnswerInv, ReadsOpen
  <1>10. open.at \in Int /\ at \in Int /\ open.at < at
    BY ONLY <1>0, <1>9
  <1>11. CASE keyword
    <2>1. phase' = "members" /\ IsInterface(open') /\ open'.at = open.at /\ ~Declares(at)
      BY <1>1, <1>3, <1>6, <1>11
    <2>2. at' \in at..Len(toks) /\ NoneBetween(at, at')
      BY DEF Onward
    <2>3. at' \in Int /\ at <= at' /\ open.at \in 1..at' - 1
      BY ONLY <1>0, <1>9, <1>10, <2>2
    <2>4. NoneBetween(open.at, at')
      BY <1>9, <1>10, <2>1, <2>2, <2>3, NoneBetweenOn
    <2>5. ReadsOpen'
      <3>1. \A j : Declares(j)' <=> Declares(j)
        BY <1>1, SameFile
      <3>2. NoneBetween(open.at, at)' <=> NoneBetween(open.at, at')
        BY <2>1, <3>1 DEF NoneBetween
      <3> QED
        BY <2>1, <2>3, <2>4, <3>2 DEF ReadsOpen
    <2> QED
      BY <1>0, <1>1, <1>8, <2>1, <2>5 DEF Answers
  <1>12. CASE ~keyword
    <2>1. phase' = "root" /\ open' = NoInterface /\ errs' = Append(known, anns.i)
      BY <1>1, <1>2, <1>4, <1>12
    <2>2. IsInterface(open') /\ ReadsOpen'
      BY <2>1 DEF NoInterface, IsInterface, ReadsOpen
    <2>3. anns.i \in Int /\ at <= anns.i /\ anns.i >= at /\ anns.i >= open.at
      BY ONLY <1>0, <1>5, <1>10
    <2>4. NoneBetween(open.at, anns.i)
      BY <1>5, <1>6, <1>9, <1>10, <2>3, NoneBetweenOn
    <2>5. DiagnosedIn(errs', at)
      BY <1>5, <1>7, <2>1, <2>3, DiagnosedNow
    <2>6. DiagnosedIn(errs', open.at)
      BY <1>7, <2>1, <2>3, <2>4, DiagnosedNow
    <2> QED
      BY <1>0, <1>1, <1>8, <2>2, <2>5, <2>6 DEF Answers
  <1> QED
    BY <1>11, <1>12

-----------------------------------------------------------------------------
(* The parser                                                              *)

\* Every step goes on in the file.
LEMMA ParserGoesOn == ASSUME ParserInv, Parse PROVE Onward
  <1>1. CASE Package
    BY <1>1, PackageGoesOn
  <1>2. CASE Struct
    BY <1>2, StructGoesOn
  <1>3. CASE Alias
    BY <1>3, AliasGoesOn
  <1>4. CASE OpenInterface
    BY <1>4, OpenInterfaceGoesOn
  <1>5. CASE Member
    BY <1>5, MemberGoesOn
  <1>6. CASE CloseInterface
    BY <1>6, CloseInterfaceGoesOn
  <1>7. CASE Stray
    BY <1>7, StrayGoesOn
  <1>8. CASE EndOfFile
    BY <1>8, EndOfFileGoesOn
  <1> QED
    BY <1>1, <1>2, <1>3, <1>4, <1>5, <1>6, <1>7, <1>8 DEF Parse

LEMMA ParserInvStarts == ASSUME IsFile(toks), ParserInit PROVE ParserInv
  <1>1. Len(toks) \in Nat \ {0}
    BY FileShape
  <1>2. 1 \in 1..Len(toks)
    BY <1>1
  <1>3. at \in 1..Len(toks) /\ phase = "package" /\ errs = <<>>
    BY <1>2 DEF ParserInit
  <1>4. <<>> \in Seq(Nat \ {0}) /\ \A k \in 1..Len(<<>>) : FALSE
    OBVIOUS
  <1>5. ErrorsUpTo(errs, at)
    BY <1>3, <1>4 DEF ErrorsUpTo
  <1> QED
    BY <1>3, <1>5 DEF ParserInv, ParserTypes

LEMMA OnwardKeeps == ASSUME ParserInv, Onward PROVE ParserInv'
  <1>1. IsFile(toks) /\ at \in 1..Len(toks) /\ Len(toks) \in Nat /\ at \in Nat
    BY PositionTypes DEF ParserInv, ParserTypes
  <1>2. toks' = toks /\ at' \in at..Len(toks) /\ phase' \in {"root", "members", "parsed"}
        /\ ErrorsUpTo(errs', at')
    BY DEF Onward
  <1>3. at' \in 1..Len(toks)
    BY ONLY <1>1, <1>2
  <1>4. IsFile(toks') /\ at' \in 1..Len(toks')
    BY <1>1, <1>2, <1>3
  <1>5. ErrorsUpTo(errs, at)' <=> ErrorsUpTo(errs', at')
    BY DEF ErrorsUpTo
  <1> QED
    BY <1>2, <1>4, <1>5 DEF ParserInv, ParserTypes

LEMMA ParserInvStutters == ASSUME ParserInv, UNCHANGED parserVars PROVE ParserInv'
  BY DEF ParserInv, ParserTypes, ErrorsUpTo, IsFile, parserVars

(* The parser never looks past its tokens, whatever they are: it stays       *)
(* within the file, is in one of its four phases, and has reported its       *)
(* errors at tokens it has reached, in the order of the file (Ctx and        *)
(* errors.push_back() in Parser.cpp).                                        *)
THEOREM ParserReads == ParserSpec => []ParserInv
  <1>1. IsFile(toks) /\ ParserInit => ParserInv
    BY ParserInvStarts
  <1>2. ParserInv /\ [Parse]_parserVars => ParserInv'
    BY ParserGoesOn, OnwardKeeps, ParserInvStutters
  <1> QED
    BY <1>1, <1>2, PTL DEF ParserSpec

(* The parser ends on every file: each step takes a token or leaves a phase  *)
(* for good, the recovery from an error included, although                   *)
(* skipToResumePoint() may stop where it started.                            *)
THEOREM ParserEnds == ParserSpec => ParserAdvances
  <1>1. ParserInv /\ [Parse]_parserVars => [Remaining' < Remaining]_parserVars
    BY ParserGoesOn DEF Onward
  <1> QED
    BY <1>1, ParserReads, PTL DEF ParserSpec, ParserAdvances

(* A step passes no second declaration: between the tokens at which two      *)
(* steps start none starts on its own, however wrong the tokens between are. *)
(* This is what the braces that skipToResumePoint() counts are for, and why  *)
(* no production takes a token behind the ';' that ends it.                  *)
THEOREM StepsKeep == ParserSpec => [][at <= at' /\ NoneBetween(at, at')]_parserVars
  <1>1. ASSUME ParserInv, Onward PROVE at <= at' /\ NoneBetween(at, at')
    <2>1. at \in Nat /\ Len(toks) \in Nat
      BY <1>1, PositionTypes DEF ParserInv
    <2>2. at' \in at..Len(toks) /\ NoneBetween(at, at')
      BY <1>1 DEF Onward
    <2>3. at <= at'
      BY ONLY <2>1, <2>2
    <2> QED
      BY <2>2, <2>3
  <1>2. ParserInv /\ [Parse]_parserVars => [at <= at' /\ NoneBetween(at, at')]_parserVars
    BY <1>1, ParserGoesOn
  <1> QED
    BY <1>2, ParserReads, PTL DEF ParserSpec

LEMMA AnswerInvStarts == ASSUME IsFile(toks), ParserInit PROVE AnswerInv
  <1>1. ParserInv
    BY ParserInvStarts
  <1>2. at = 1 /\ root = EmptyRoot /\ open = NoInterface /\ phase = "package"
    BY DEF ParserInit
  <1>3. IsSequence(<<>>)
    BY DEF IsSequence
  <1>4. IsTree(root)
    BY <1>2, <1>3 DEF EmptyRoot, IsTree
  <1>5. IsInterface(open)
    BY <1>2 DEF NoInterface, IsInterface
  <1>6. ReadsOpen
    BY <1>2 DEF ReadsOpen
  <1>7. \A i \in 1..1 - 1 : FALSE
    OBVIOUS
  <1>8. DeclarationsAnswered
    BY <1>2, <1>7 DEF DeclarationsAnswered
  <1> QED
    BY <1>1, <1>4, <1>5, <1>6, <1>8 DEF AnswerInv

LEMMA AnswerInvGoesOn == ASSUME AnswerInv, Parse PROVE AnswerInv'
  <1>1. ParserInv
    BY DEF AnswerInv
  <1>2. Onward
    BY <1>1, ParserGoesOn
  <1>3. Answers
    BY <1>2, PackageAnswers, StructAnswers, AliasAnswers, OpenInterfaceAnswers, MemberAnswers,
       CloseInterfaceAnswers, StrayAnswers, EndOfFileAnswers DEF Parse
  <1>4. ParserInv'
    BY <1>1, <1>2, OnwardKeeps
  <1>5. DeclarationsAnswered'
    BY <1>2, <1>3, AnswersAll
  <1>6. IsTree(root)' /\ IsInterface(open)' /\ ReadsOpen'
    BY <1>3 DEF Answers, IsTree, IsSequence, IsInterface
  <1> QED
    BY <1>4, <1>5, <1>6 DEF AnswerInv

LEMMA AnswerInvStutters == ASSUME AnswerInv, UNCHANGED parserVars PROVE AnswerInv'
  <1>1. toks' = toks /\ at' = at /\ errs' = errs /\ root' = root /\ open' = open /\ phase' = phase
    BY DEF parserVars
  <1>2. ParserInv'
    BY ParserInvStutters DEF AnswerInv
  <1>3. IsTree(root)' /\ IsInterface(open)'
    BY <1>1 DEF AnswerInv, IsTree, IsSequence, IsInterface
  <1>4. (\A i : Declares(i)' <=> Declares(i)) /\ \A p, q : NoneBetween(p, q)' <=> NoneBetween(p, q)
    BY <1>1, SameFile
  <1>5. ReadsOpen' <=> ReadsOpen
    BY <1>1, <1>4 DEF ReadsOpen, NoneBetween
  <1>6. DeclarationsAnswered' <=> DeclarationsAnswered
    BY <1>1, <1>4 DEF DeclarationsAnswered, DiagnosedIn, NoneBetween, Taken, Positions
  <1> QED
    BY <1>2, <1>3, <1>5, <1>6 DEF AnswerInv

(* In a file of any length, with any errors in it, every declaration that    *)
(* starts on its own is in the tree or has an error of its own: one broken   *)
(* declaration hides no other (parseRoot(), parseInterface() and             *)
(* skipToResumePoint()).                                                     *)
THEOREM EveryDeclarationAnswered == ParserSpec => []DeclarationsAnswered
  <1>1. IsFile(toks) /\ ParserInit => AnswerInv
    BY AnswerInvStarts
  <1>2. AnswerInv /\ [Parse]_parserVars => AnswerInv'
    BY AnswerInvGoesOn, AnswerInvStutters
  <1>3. AnswerInv => DeclarationsAnswered
    BY DEF AnswerInv
  <1> QED
    BY <1>1, <1>2, <1>3, PTL DEF ParserSpec
=============================================================================
