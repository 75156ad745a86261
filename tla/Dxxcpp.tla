------------------------------ MODULE Dxxcpp ------------------------------
(***************************************************************************)
(* A run of dxxcpp: the driver of main.cpp, with the parser over the       *)
(* tokens of the file, the semantic analysis and the names the generator   *)
(* gives to the output files and to what is in them.                       *)
(***************************************************************************)
EXTENDS Parser, Codegen, Driver

CONSTANT Runs    \* what the input file holds, whether the lexer complained, the command line

VARIABLE lexOk

sourceVars == <<parserVars, lexOk>>
vars == <<sourceVars, driverVars>>

Init ==
    /\ \E r \in Runs : toks = r.toks /\ lexOk = r.lexOk /\ args = r.args
    /\ ParserInit /\ DriverInit

\* What the driver does without a look at the source.
OnItsOwn ==
    /\ ReadArguments \/ ReadSource \/ ListOutputs \/ CreateFolder \/ WriteFile \/ Success
    /\ UNCHANGED sourceVars

ParseStep == stage = "parse" /\ Parse /\ UNCHANGED <<lexOk, driverVars>>

\* The errors of the lexer take the tree away, too.
Accepted == errs = <<>> /\ lexOk
CheckSyntax == phase = "parsed" /\ JudgeSyntax(Accepted) /\ UNCHANGED sourceVars

Analyze == JudgeTree(Outcome(root), Outputs(GenerateIr(root))) /\ UNCHANGED sourceVars

Next == OnItsOwn \/ ParseStep \/ CheckSyntax \/ Analyze

Spec == Init /\ [][Next]_vars

-----------------------------------------------------------------------------
\* What was parsed, written out again as tokens.
Closed(seq, Of(_)) == FlattenSeq([k \in DOMAIN seq |-> Of(seq[k]) \o <<";">>])
RECURSIVE TypeText(_)
TypeText(t) ==
    <<t.name>> \o (IF t.args = <<>> THEN <<>>
                   ELSE <<"<">> \o Listed(t.args, ",", TypeText) \o <<">">>)
FieldText(f) == TypeText(f.type) \o <<f.name>>
AnnotationText(a) ==
    <<"@", a.name>> \o (IF a.value = <<>> THEN <<>>
                        ELSE <<"(">> \o (IF a.value = <<"">> THEN <<>> ELSE a.value) \o <<")">>)
\* The texts of declarations, in the order in which they stand in the file.
InOrder(texts) ==
    FlattenSeq([k \in 1..Cardinality(texts) |->
        (CHOOSE t \in texts : Cardinality({u \in texts : u.at < t.at}) = k - 1).text])
Texts(seq, Of(_)) == {[at |-> seq[k].at, text |-> Of(seq[k])] : k \in DOMAIN seq}
StructText(s) == <<"struct", s.name, "{">> \o Closed(s.fields, FieldText) \o <<"}", ";">>
AliasText(a) == <<"using", a.name, "=">> \o TypeText(a.target) \o <<";">>
MemberText(kind, m, tail) ==
    FlattenSeq([k \in DOMAIN m.annotations |-> AnnotationText(m.annotations[k])])
    \o <<kind, m.name>> \o tail \o <<";">>
Parenthesized(params) == <<"(">> \o Listed(params, ",", FieldText) \o <<")">>
Arrowed(types) == Collect(types, LAMBDA t : <<"->">> \o TypeText(t))
InterfaceText(i) ==
    <<"interface", i.name, "{">>
    \o InOrder(
        Texts(i.methods, LAMBDA m : MemberText("method", m, Parenthesized(m.params) \o Arrowed(m.ret)))
        \union Texts(i.signals, LAMBDA s : MemberText("signal", s, Parenthesized(s.params)))
        \union Texts(i.properties, LAMBDA p : MemberText("property", p, Arrowed(<<p.type>>) \o p.init)))
    \o <<"}", ";">>

(* A file without a syntax error was understood whole: what was parsed,      *)
(* written out again, is the file, token for token. Nothing is skipped       *)
(* without a report and nothing lands in the wrong declaration (every        *)
(* production of Parser.cpp, and the error recovery between them).           *)
RoundTrip ==
    stage = "parse" /\ phase = "parsed" /\ errs = <<>> =>
        <<"package">> \o Listed(root.package, ".", LAMBDA n : <<n>>) \o <<";">>
        \o InOrder(Texts(root.structs, StructText) \union Texts(root.alias, AliasText)
                   \union Texts(root.interfaces, InterfaceText))
        = Front(toks)

-----------------------------------------------------------------------------
\* The rules of the manual for types, docs/en/dxxcpp.en.md sections 2.3 and 2.4.
RECURSIVE KeyIsBasic(_, _, _), SoundType(_, _, _)
KeyIsBasic(r, t, seen) ==
    /\ t.args = <<>>
    /\ \/ t.name \in BasicNames
       \/ /\ IsAlias(r, t.name) /\ t.name \notin seen
          /\ KeyIsBasic(r, Target(r, t.name), seen \union {t.name})
SoundType(r, t, seen) ==
    LET count == Len(t.args)
    IN  CASE t.name = "vector" -> count = 1 /\ SoundType(r, t.args[1], seen)
          [] t.name = "array" -> /\ count = 2 /\ SoundType(r, t.args[1], seen)
                                 /\ t.args[2].args = <<>> /\ IsPositiveInt(t.args[2].name)
          [] t.name = "map" -> /\ count = 2 /\ KeyIsBasic(r, t.args[1], {})
                               /\ SoundType(r, t.args[2], seen)
          [] OTHER -> /\ count = 0
                      /\ \/ t.name \in BasicNames \/ IsStruct(r, t.name)
                         \/ /\ IsAlias(r, t.name) /\ t.name \notin seen
                            /\ SoundType(r, Target(r, t.name), seen \union {t.name})
TypesOf(fields) == {fields[k].type : k \in DOMAIN fields}
AllTypes(r) ==
    UNION {TypesOf(r.structs[k].fields) : k \in DOMAIN r.structs}
    \union {[name |-> r.alias[k].name, args |-> <<>>] : k \in DOMAIN r.alias}
    \union UNION {LET i == r.interfaces[k]
                  IN  UNION {TypesOf(i.methods[m].params) \union ToSet(i.methods[m].ret) :
                                m \in DOMAIN i.methods}
                      \union UNION {TypesOf(i.signals[s].params) : s \in DOMAIN i.signals}
                      \union TypesOf(i.properties) : k \in DOMAIN r.interfaces}
TypesAreSound == \A t \in AllTypes(root) : SoundType(root, t, {})
\* No number in the file is out of range of what it is converted to.
NumbersFit == \A i \in DOMAIN toks : toks[i] \in DOMAIN IntOf => IntOf[toks[i]] < U32

(* Code that compiles: a tree that passes the checks and keeps the rules of  *)
(* the manual is lowered without an error or an exception, and in the types  *)
(* header every struct stands before whatever contains it, through aliases   *)
(* and containers (checkStructOrder() and the order of genTypesHeader()).    *)
SoundIsGenerated ==
    stage = "analyze" /\ ValidateAst(root) = {} /\ TypesAreSound /\ NumbersFit =>
        /\ Outcome(root) = "ir"
        /\ LET header == TypesHeader(GenerateIr(root))
           IN  \A k \in DOMAIN header :
                  header[k].uses \subseteq {header[j].declares : j \in 1..k - 1}

\* The classes of the generated headers, and everything at namespace level.
Classes(ir) == Collect(ir.interfaces, LAMBDA i : SkeletonHeader(i) \o ProxyHeader(i))
NamespaceNames(ir) ==
    Collect(TypesHeader(ir), LAMBDA d : <<d.declares>>) \o Names(Classes(ir))

(* The functions made from members are declared once in each class, no two   *)
(* types and no two output files have one name, and each source defines the  *)
(* functions of its class in the header: what the validator expects of the   *)
(* generator agrees with what the generator, which knows nothing of it, does *)
(* (Sema.cpp:737-803 and Codegen.cpp:561-951).                               *)
DerivedNamesUnique ==
    stage = "output" =>
        LET ir == GenerateIr(root)
            Functions(class) == ToSet(class.functions)
        IN  /\ IsInjective(files)
            /\ IsInjective(Names(ir.structs) \o Names(ir.aliases))
            /\ \A class \in ToSet(Classes(ir)) : IsInjective(class.functions)
            /\ \A i \in ToSet(ir.interfaces) :
                  /\ Functions(ProxySource(i)[1]) = Functions(ProxyHeader(i)[1])
                  /\ Functions(SkeletonSource(i)[1]) = Functions(SkeletonHeader(i)[2])

(* "Generated names must be unique", and what "would make the output fail to *)
(* compile [...] the tool rejects up front" (the manual, section 6): nothing *)
(* is declared twice in the namespace, no data member twice in a class, and  *)
(* no function has the name of its class or of a data member.                *)
GeneratedNamesUnique ==
    stage = "output" =>
        LET ir == GenerateIr(root)
        IN  /\ IsInjective(NamespaceNames(ir))
            /\ \A class \in ToSet(Classes(ir)) :
                  /\ IsInjective(class.data)
                  /\ \A f \in ToSet(class.functions) :
                        f.name # class.name /\ f.name \notin ToSet(class.data)

(* The exit codes of the manual: a file that breaks its rules for types      *)
(* ends in 1, "Syntax or semantic errors in the input".                      *)
BrokenTypesAreRejected ==
    stage = "exit" /\ ~ParseArguments.help /\ phase = "parsed" /\ ~TypesAreSound => exit = 1

(* The exit codes of the manual: 1 after "a file read/write failure"; so     *)
(* with 0 every file that was begun has all of its text.                     *)
WrittenFilesAreWhole ==
    stage = "exit" /\ exit = 0 => \A k \in DOMAIN written : written[k].text = "whole"
=============================================================================
