------------------------------ MODULE MCDxxcpp ------------------------------
(* Instance of Dxxcpp: files that are correct up to one token, files that    *)
(* combine the kinds of types and the kinds of members, and command lines.   *)
EXTENDS Dxxcpp

MCNumbers == {"0", "2", "1.5", "5000", "huge"}
MCLiterals == {"txt"}
MCWhole == {"0", "2", "5000", "huge"}
MCIntOf == [n \in MCNumbers |-> CASE n = "0" -> 0 [] n = "2" -> 2 [] n = "1.5" -> 1
                                  [] n = "5000" -> 5000 [] n = "huge" -> 9000000]
MCUnderscored == {"_x"}
MCCppKeywords == {"class"}
MCCapitalOf == [n \in {"a", "b", "x", "v", "s", "class", "vChanged"} |->
                    CASE n = "a" -> "A" [] n = "b" -> "B" [] n = "x" -> "X" [] n = "v" -> "V"
                      [] n = "s" -> "S" [] n = "class" -> "Class" [] n = "vChanged" -> "VChanged"]
MCUpperOf == [n \in {"a", "b", "x", "i"} |->
                  CASE n = "a" -> "A" [] n = "b" -> "B" [] n = "x" -> "X" [] n = "i" -> "I"]

PackageText == <<"package", "a", ".", "b", ";">>
InFile(body) == PackageText \o body \o <<End>>

\* Two correct files that have every production between them.
CallFile == InFile(<<"struct", "S", "{", "int32", "f", ";", "}", ";",
                     "interface", "I", "{", "@", "timeout", "(", "2", ")", "@", "sync",
                     "method", "m", "(", "S", "p", ",", "bool", "q", ")", "->", "int32", ";",
                     "}", ";", "struct", "T", "{", "S", "g", ";", "}", ";">>)
PropertyFile == InFile(<<"using", "A", "=", "map", "<", "string", ",", "bool", ">", ";",
                         "interface", "I", "{", "signal", "s", "(", ")", ";",
                         "@", "readonly", "property", "v", "->", "A",
                         "{", "{", "txt", ",", "0", "}", "}", ";", "}", ";",
                         "using", "B", "=", "A", ";">>)
\* A token that is missing, doubled, or another one.
Wrong == {";", ",", "{", "}", "(", ">", "@", "package", "struct", "interface", "x", "2", End} \ {End}
Damaged(file) ==
    LET places == 1..Len(file) - 1
    IN  {file} \union {RemoveAt(file, k) : k \in places}
        \union {ReplaceAt(file, k, t) : k \in places, t \in Wrong}
        \union {InsertAt(file, k, t) : k \in places, t \in Wrong}
        \union {SubSeq(file, 1, k) \o <<End>> : k \in places}

\* Types that the checks tell apart.
TypePool == {<<"int32">>, <<"S">>, <<"A">>, <<"vector", "<", "S", ">">>, <<"vector", "<", "T", ">">>,
             <<"vector", "<", "A", ">">>, <<"map", "<", "A", ",", "S", ">">>,
             <<"array", "<", "A", ",", "2", ">">>, <<"array", "<", "bool", ",", "0", ">">>,
             <<"vector", "<", "array", "<", "T", ",", "huge", ">", ">">>,
             <<"vector", "<", "map", "<", "T", ",", "int32", ">", ">">>, <<"nothing">>}
TypeFile(a, b, s, t) ==
    InFile(<<"struct", "S", "{">> \o s \o <<"f", ";", "}", ";", "struct", "T", "{">> \o t
           \o <<"g", ";", "}", ";", "using", "A", "=">> \o a \o <<";", "using", "B", "=">> \o b
           \o <<";", "interface", "I", "{", "property", "v", "->", "A", ";", "}", ";">>)
TypeFiles == {TypeFile(a, b, s, t) : a \in TypePool, b \in {<<"A">>, <<"B">>},
                                     s \in TypePool \union {<<"T">>, <<"B">>}, t \in TypePool}

\* Members whose generated names can meet, and annotations.
MemberPool ==
    {<<"method", "m", "(", ")", ";">>, <<"@", "sync", "method", "m", "(", ")", ";">>,
     <<"@", "async", "method", "m", "(", "int32", "aCallback", ")", ";">>,
     <<"@", "sync", "method", "mAsync", "(", ")", ";">>, <<"@", "sync", "method", "IProxy", "(", ")", ";">>,
     <<"@", "sync", "method", "prop_v", "(", ")", ";">>, <<"method", "getV", "(", ")", ";">>,
     <<"@", "timeout", "(", "5000", ")", "method", "setV", "(", ")", ";">>,
     <<"@", "timeout", "(", "huge", ")", "method", "m", "(", ")", ";">>,
     <<"signal", "vChanged", "(", ")", ";">>, <<"@", "deprecated", "signal", "s", "(", ")", ";">>,
     <<"property", "v", "->", "bool", ";">>, <<"@", "readonly", "property", "v", "->", "bool", ";">>,
     <<"property", "class", "->", "bool", ";">>, <<"@", "sync", "@", "async", "method", "n", "(", ")", ";">>}
MemberFile(x, y, name) ==
    InFile(<<"interface", "I", "{">> \o x \o y \o <<"}", ";", "interface", name, "{", "}", ";">>)
MemberFiles == {MemberFile(x, y, n) : x \in MemberPool, y \in MemberPool, n \in {"I", "J", "i"}}

Run(file, fine, argv) == [toks |-> file, lexOk |-> fine, args |-> argv]
CommandLines == {<<>>, <<"--help">>, <<"--list-outputs", "input">>, <<"input", "-o">>, <<"input", "input">>,
                 <<"-o", "input">>, <<"-o", "dir", "input">>, <<"--dbus", "input", "-odir">>,
                 <<"--unknown", "input">>, <<"--help", "--unknown">>, <<"-o", "-o", "input">>,
                 <<"-o", "", "input">>, <<"", "input", "--list-outputs">>, <<"input", "">>}
MCRuns == {Run(f, TRUE, <<"input">>) : f \in Damaged(CallFile) \union Damaged(PropertyFile)
                                              \union TypeFiles \union MemberFiles}
          \union {Run(CallFile, fine, argv) : fine \in BOOLEAN, argv \in CommandLines}
=============================================================================
