------------------------------ MODULE Parser ------------------------------
(***************************************************************************)
(* The parser of dxxcpp (tool/dxxcpp/src/Parser.cpp) over the tokens of a  *)
(* file. A token is its text; the last one is End. A parse operator takes  *)
(* the index at which it starts and returns whether it succeeded, the      *)
(* index at which it stopped, and what it built: a failure is reported at  *)
(* the token at which it stopped. The loops of the code are functions of   *)
(* the index, its recursion is a function of the levels that are left.     *)
(***************************************************************************)
EXTENDS Integers, Sequences, FiniteSets, SequencesExt

CONSTANTS Numbers,      \* the texts of number tokens
          Literals,     \* the texts of string tokens
          MaxNest       \* MAX_TYPE_NEST and MAX_DEFAULT_BRACE_NEST

VARIABLES toks,         \* the tokens of the file
          at,           \* Ctx::idx
          errs,         \* the positions of the errors, in the order reported
          root,         \* what was parsed so far
          open,         \* the interface whose members are read, if any
          phase         \* what parseRoot() does next

parserVars == <<toks, at, errs, root, open, phase>>

End == "end of file"
Marks == {";", ",", ".", "->", "=", "@", "{", "}", "(", ")", "<", ">"}
NoInterface == [name |-> "", at |-> 0, methods |-> <<>>, signals |-> <<>>, properties |-> <<>>]
EmptyRoot == [package |-> <<>>, structs |-> <<>>, alias |-> <<>>, interfaces |-> <<>>]

ASSUME ParserAssumption ==
    /\ MaxNest \in Nat
    /\ (Numbers \union Literals) \intersect (Marks \union {End}) = {}

IsIden(i) == toks[i] \notin Marks \union Numbers \union Literals \union {End}
Is(i, kind) == IF kind = "Iden" THEN IsIden(i) ELSE toks[i] = kind
IsLiteral(i) == IsIden(i) \/ toks[i] \in Numbers \union Literals
\* consume() never goes past End.
After(i) == IF i < Len(toks) THEN i + 1 ELSE i
SkipIf(i, kind) == IF Is(i, kind) THEN After(i) ELSE i

Got(i, v) == [ok |-> TRUE, i |-> i, v |-> v]
Failed(i) == [ok |-> FALSE, i |-> i, v |-> <<>>]
Expect(i, kind) == IF Is(i, kind) THEN Got(After(i), toks[i]) ELSE Failed(i)
\* What P makes of the result a, unless a failed.
Then(a, P(_)) == IF a.ok THEN P(a) ELSE a
\* v was read up to i, where a kind must follow.
FollowedBy(i, kind, v) == Then(Expect(i, kind), LAMBDA mark : Got(mark.i, v))
Named(i, kind) == Then(Expect(i, "Iden"), LAMBDA name : FollowedBy(name.i, kind, name.v))

\* A loop: the items from i on, as long as the position is one at which it goes on. What
\* stands before a broken item is kept.
Prefixed(first, rest) == [ok |-> rest.ok, i |-> rest.i, v |-> <<first.v>> \o rest.v]
Repeat(items, goesOn) ==
    LET R[i \in DOMAIN toks] ==
            IF i \notin goesOn THEN Got(i, <<>>)
            ELSE Then(items[i], LAMBDA first : Prefixed(first, R[first.i]))
    IN  R
\* An item, and further ones behind a mark each.
Separated(items, mark) ==
    LET Further == Repeat([i \in DOMAIN toks |-> items[After(i)]], {i \in DOMAIN toks : Is(i, mark)})
    IN  [i \in DOMAIN toks |-> Then(items[i], LAMBDA first : Prefixed(first, Further[first.i]))]

\* The braces opened from i on that are still open at k.
\* Faulty variant for the mutants: a closing brace is not counted.
OpenedOnly(i, k) == Cardinality({j \in i..k - 1 : toks[j] = "{"})
Opened(i, k) == Cardinality({j \in i..k - 1 : toks[j] = "{"})
                - Cardinality({j \in i..k - 1 : toks[j] = "}"})
\* skipToResumePoint(): where the skipping ends, and where the parser goes on.
ResumesAt(i, k) ==
    \/ Is(k, End)
    \/ Is(k, "}") /\ Opened(i, k) <= 1
    \/ toks[k] \in {";", "package", "struct", "using", "interface"} /\ Opened(i, k) = 0
Resume(i) ==
    LET k == Min({j \in i..Len(toks) : ResumesAt(i, j)})
    IN  CASE Is(k, "}") -> SkipIf(After(k), ";")
          [] Is(k, ";") -> After(k)
          [] OTHER -> k

-----------------------------------------------------------------------------
\* The pieces of a declaration. A type: its arguments are one level further down.
TypeOf(i, arguments) ==
    IF ~IsIden(i) /\ toks[i] \notin Numbers THEN Failed(i)
    ELSE IF IsIden(i) /\ Is(After(i), "<")
    THEN Then(arguments[After(After(i))], LAMBDA list :
              FollowedBy(list.i, ">", [name |-> toks[i], args |-> list.v]))
    ELSE Got(After(i), [name |-> toks[i], args |-> <<>>])
TypesWithin[levels \in 0..MaxNest] ==
    IF levels = 0 THEN [i \in DOMAIN toks |-> Failed(i)]
    ELSE LET arguments == Separated(TypesWithin[levels - 1], ",")
         IN  [i \in DOMAIN toks |-> TypeOf(i, arguments)]
ParseType(i) == TypesWithin[MaxNest][i]

ParseDottedName(i) == Separated([k \in DOMAIN toks |-> Expect(k, "Iden")], ".")[i]

ParseField(i) ==
    Then(ParseType(i), LAMBDA type :
    Then(Expect(type.i, "Iden"), LAMBDA name :
         Got(name.i, [type |-> type.v, name |-> name.v])))
ParseParams(i) ==
    IF Is(i, ")") THEN Got(i, <<>>)
    ELSE Separated([k \in DOMAIN toks |-> ParseField(k)], ",")[i]

\* The fields of a struct, each with its ';', up to '}' or the end of the file.
ClosedField(i) == Then(ParseField(i), LAMBDA field : FollowedBy(field.i, ";", field.v))
ParseFields(i) ==
    Repeat([k \in DOMAIN toks |-> ClosedField(k)],
           {k \in DOMAIN toks : ~Is(k, "}") /\ ~Is(k, End)})[i]

\* The text of an initializer: its tokens.
Listed(seq, mark, Of(_)) ==
    FlattenSeq([k \in DOMAIN seq |-> (IF k = 1 THEN <<>> ELSE <<mark>>) \o Of(seq[k])])
ElementOf(i, values) ==
    IF Is(i, "{") THEN values[i]
    ELSE IF IsLiteral(i) THEN Got(After(i), <<toks[i]>>)
    ELSE Failed(i)
ValueOf(i, elements) ==
    IF ~Is(i, "{") THEN Failed(i)
    ELSE IF Is(After(i), "}") THEN Got(After(After(i)), <<"{", "}">>)
    ELSE Then(elements[After(i)], LAMBDA inner :
              FollowedBy(inner.i, "}", <<"{">> \o Listed(inner.v, ",", LAMBDA v : v) \o <<"}">>))
ValuesWithin[levels \in 0..MaxNest] ==
    IF levels = 0 THEN [i \in DOMAIN toks |-> Failed(i)]
    ELSE LET inner == ValuesWithin[levels - 1]
             elements == Separated([i \in DOMAIN toks |-> ElementOf(i, inner)], ",")
         IN  [i \in DOMAIN toks |-> ValueOf(i, elements)]

\* "@name", "@name()" and "@name(value)": a value is a sequence of at most one text.
ParseAnnotation(i) ==
    Then(Expect(After(i), "Iden"), LAMBDA name :
        LET value == After(name.i)
            With(v) == [name |-> name.v, value |-> v]
        IN  IF ~Is(name.i, "(") THEN Got(name.i, With(<<>>))
            ELSE IF Is(value, ")") THEN Got(After(value), With(<<"">>))
            ELSE IF ~IsLiteral(value) THEN Failed(value)
            ELSE FollowedBy(After(value), ")", With(<<toks[value]>>)))
ParseAnnotations(i) ==
    Repeat([k \in DOMAIN toks |-> ParseAnnotation(k)], {k \in DOMAIN toks : Is(k, "@")})[i]

-----------------------------------------------------------------------------
\* The declarations: i is the position after the keyword.
ParseStruct(i) ==
    Then(Named(i, "{"), LAMBDA name :
    Then(ParseFields(name.i), LAMBDA fields :
    Then(Expect(fields.i, "}"), LAMBDA close :
         FollowedBy(close.i, ";", [name |-> name.v, fields |-> fields.v, at |-> i - 1]))))

ParseAlias(i) ==
    Then(Named(i, "="), LAMBDA name :
    Then(ParseType(name.i), LAMBDA target :
         FollowedBy(target.i, ";", [name |-> name.v, target |-> target.v, at |-> i - 1])))

ParseCallable(i) ==
    Then(Named(i, "("), LAMBDA name :
    Then(ParseParams(name.i), LAMBDA params :
         FollowedBy(params.i, ")", [name |-> name.v, params |-> params.v])))

\* A missing result is the empty sequence.
ParseResult(i) ==
    IF Is(i, "->") THEN Then(ParseType(After(i)), LAMBDA type : Got(type.i, <<type.v>>))
    ELSE Got(i, <<>>)
ParseMethod(i, anns) ==
    Then(ParseCallable(i), LAMBDA head :
    Then(ParseResult(head.i), LAMBDA ret :
         FollowedBy(ret.i, ";", [name |-> head.v.name, params |-> head.v.params,
                                 ret |-> ret.v, annotations |-> anns, at |-> i - 1])))
ParseSignal(i, anns) ==
    Then(ParseCallable(i), LAMBDA head :
         FollowedBy(head.i, ";", [name |-> head.v.name, params |-> head.v.params,
                                  annotations |-> anns, at |-> i - 1]))
ParseInit(i) == IF Is(i, "{") THEN ValuesWithin[MaxNest][i] ELSE Got(i, <<>>)
ParseProperty(i, anns) ==
    Then(Named(i, "->"), LAMBDA name :
    Then(ParseType(name.i), LAMBDA type :
    Then(ParseInit(type.i), LAMBDA init :
         FollowedBy(init.i, ";", [name |-> name.v, type |-> type.v, init |-> init.v,
                                  annotations |-> anns, at |-> i - 1]))))

-----------------------------------------------------------------------------
ParserInit ==
    /\ at = 1 /\ errs = <<>> /\ root = EmptyRoot /\ open = NoInterface
    /\ phase = "package"

\* An error at token i, after which the parser goes on at token next.
Complain(i, next) == errs' = Append(errs, i) /\ at' = next

Package ==
    LET r == Then(ParseDottedName(After(at)), LAMBDA name : FollowedBy(name.i, ";", name.v))
    IN  /\ phase = "package" /\ phase' = "root"
        /\ UNCHANGED <<toks, open>>
        /\ IF toks[at] # "package" THEN Complain(at, at) /\ UNCHANGED root
           ELSE IF r.ok THEN at' = r.i /\ root' = [root EXCEPT !.package = r.v] /\ UNCHANGED errs
           ELSE Complain(r.i, Resume(r.i)) /\ UNCHANGED root

Struct ==
    LET r == ParseStruct(After(at))
    IN  /\ phase = "root" /\ toks[at] = "struct"
        /\ IF r.ok THEN at' = r.i /\ root' = [root EXCEPT !.structs = Append(@, r.v)] /\ UNCHANGED errs
           ELSE Complain(r.i, Resume(r.i)) /\ UNCHANGED root
        /\ UNCHANGED <<toks, open, phase>>

Alias ==
    LET r == ParseAlias(After(at))
    IN  /\ phase = "root" /\ toks[at] = "using"
        /\ IF r.ok THEN at' = r.i /\ root' = [root EXCEPT !.alias = Append(@, r.v)] /\ UNCHANGED errs
           ELSE Complain(r.i, Resume(r.i)) /\ UNCHANGED root
        /\ UNCHANGED <<toks, open, phase>>

OpenInterface ==
    LET r == Named(After(at), "{")
    IN  /\ phase = "root" /\ toks[at] = "interface"
        /\ IF r.ok THEN /\ at' = r.i /\ phase' = "members"
                        /\ open' = [NoInterface EXCEPT !.name = r.v, !.at = at]
                        /\ UNCHANGED errs
           ELSE Complain(r.i, Resume(r.i)) /\ UNCHANGED <<open, phase>>
        /\ UNCHANGED <<toks, root>>

\* A member and its annotations; a broken annotation is reported and the member still read.
Member ==
    LET anns == ParseAnnotations(at)
        kind == toks[anns.i]
        r == CASE kind = "method" -> ParseMethod(After(anns.i), anns.v)
               [] kind = "signal" -> ParseSignal(After(anns.i), anns.v)
               [] kind = "property" -> ParseProperty(After(anns.i), anns.v)
               [] OTHER -> Failed(anns.i)
        known == IF anns.ok THEN errs ELSE Append(errs, anns.i)
    IN  /\ phase = "members" /\ ~Is(at, "}") /\ ~Is(at, End)
        /\ at' = IF r.ok THEN r.i ELSE Resume(r.i)
        /\ errs' = IF r.ok THEN known ELSE Append(known, r.i)
        /\ IF kind \in {"method", "signal", "property"} THEN UNCHANGED phase ELSE phase' = "root"
        /\ open' = IF kind \notin {"method", "signal", "property"} THEN NoInterface
                   ELSE IF ~r.ok THEN open
                   ELSE CASE kind = "method" -> [open EXCEPT !.methods = Append(@, r.v)]
                          [] kind = "signal" -> [open EXCEPT !.signals = Append(@, r.v)]
                          [] kind = "property" -> [open EXCEPT !.properties = Append(@, r.v)]
        /\ UNCHANGED <<toks, root>>

CloseInterface ==
    LET r == Then(Expect(at, "}"), LAMBDA brace : FollowedBy(brace.i, ";", <<>>))
    IN  /\ phase = "members" /\ (Is(at, "}") \/ Is(at, End))
        /\ phase' = "root" /\ open' = NoInterface
        /\ IF r.ok THEN /\ at' = r.i /\ root' = [root EXCEPT !.interfaces = Append(@, open)]
                        /\ UNCHANGED errs
           ELSE Complain(r.i, Resume(r.i)) /\ UNCHANGED root
        /\ UNCHANGED toks

\* Faulty variant for the mutants: what stands between declarations is skipped in silence.
StraySilently ==
    /\ phase = "root" /\ toks[at] \notin {"struct", "using", "interface", End}
    /\ at' = Resume(IF toks[at] = "package" THEN After(at) ELSE at)
    /\ UNCHANGED <<toks, errs, root, open, phase>>
\* Faulty variant for the mutants: the second package itself is not taken.
StrayAgain ==
    /\ phase = "root" /\ toks[at] \notin {"struct", "using", "interface", End}
    /\ Complain(at, Resume(at))
    /\ UNCHANGED <<toks, root, open, phase>>
\* A second package, or something that is no declaration.
Stray ==
    /\ phase = "root" /\ toks[at] \notin {"struct", "using", "interface", End}
    /\ Complain(at, Resume(IF toks[at] = "package" THEN After(at) ELSE at))
    /\ UNCHANGED <<toks, root, open, phase>>

EndOfFile ==
    /\ phase = "root" /\ Is(at, End)
    /\ phase' = "parsed"
    /\ UNCHANGED <<toks, at, errs, root, open>>

Parse == \/ Package \/ Struct \/ Alias \/ OpenInterface \/ Member \/ CloseInterface
         \/ Stray \/ EndOfFile

\* parseTokens() takes what the lexer gives: tokens of which the last one is End.
IsFile(tokens) ==
    /\ tokens \in Seq(STRING) /\ tokens # <<>>
    /\ \A i \in DOMAIN tokens : tokens[i] = End <=> i = Len(tokens)
ParserSpec == IsFile(toks) /\ ParserInit /\ [][Parse]_parserVars

-----------------------------------------------------------------------------
\* A declaration that starts on its own: behind a ';' and outside of all braces.
Depth(i) == Cardinality({j \in 1..i - 1 : toks[j] = "{"})
            - Cardinality({j \in 1..i - 1 : toks[j] = "}"})
Declares(i) == /\ i > 1 /\ toks[i] \in {"struct", "using", "interface"} /\ toks[i - 1] = ";"
               /\ Depth(i) = 0 /\ \A j \in 1..i - 1 : Depth(j) >= 0
\* None stands between the tokens p and q.
NoneBetween(p, q) == \A j \in p + 1..q - 1 : ~Declares(j)

Positions(items) == {items[k].at : k \in DOMAIN items}
Taken(tree) == Positions(tree.structs) \union Positions(tree.alias) \union Positions(tree.interfaces)
\* An error was reported behind i before the next declaration.
DiagnosedIn(list, i) == \E k \in 1..Len(list) : list[k] >= i /\ NoneBetween(i, list[k])
(* Every declaration gets its own answer: one that starts on its own and     *)
(* that the parser is past is in the tree, or is the interface whose members *)
(* are read, or has an error of its own, reported before the next one. So    *)
(* the recovery from an error swallows no declaration, and nothing is        *)
(* dropped in silence (skipToResumePoint() counts braces and stops where a   *)
(* declaration can start).                                                   *)
DeclarationsAnswered ==
    \A i \in 1..at - 1 : Declares(i) => \/ i \in Taken(root)
                                        \/ phase = "members" /\ i = open.at
                                        \/ DiagnosedIn(errs, i)

\* What the parser has before it: the tokens left, and the phases at the same token.
Remaining ==
    2 * (Len(toks) - at)
    + CASE phase = "package" -> 3 [] phase = "members" -> 2 [] phase = "root" -> 1 [] OTHER -> 0
(* The parser ends on every input: each of its steps takes a token or leaves *)
(* a phase for good, whatever the error, so no error is reported for ever    *)
(* (the loops of parseRoot() and parseInterface() around                     *)
(* skipToResumePoint(), which may stop where it started).                    *)
ParserAdvances == [][Remaining' < Remaining]_parserVars
=============================================================================
