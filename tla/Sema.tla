------------------------------- MODULE Sema -------------------------------
(***************************************************************************)
(* The semantic analysis of dxxcpp (tool/dxxcpp/src/Sema.cpp): pure        *)
(* operators over the tree r that the parser built. An error is a pair of  *)
(* what is wrong and the name it is wrong about; where it is reported is   *)
(* left out. A generated type is a tree of nodes.                          *)
(***************************************************************************)
EXTENDS Integers, Sequences, FiniteSets, SequencesExt

CONSTANTS Whole,        \* the number tokens that consist of digits only
          IntOf,        \* what stoul() and stoull() read from a number token
          Underscored,  \* identifier tokens that start with '_'
          CppKeywords,  \* Cpp::isKeyword
          CapitalOf,    \* Ir::capitalizeFirst on the names it changes
          U32, U64      \* the number of values of the two integer types, scaled down

BasicNames == {"int8", "int16", "int32", "int64", "uint8", "uint16", "uint32", "uint64",
               "float", "double", "bool", "string", "bytes", "fd"}
IsExistedName(n) == n \in BasicNames \union {"vector", "array", "map"}
IsPositiveInt(n) == n \in Whole /\ IntOf[n] > 0
IsIdentifier(n) == n \notin DOMAIN IntOf \union Underscored
\* The two complaints about a name that C++ could not use.
BadName(n) ==
    IF ~IsIdentifier(n) THEN {<<"not an identifier", n>>}
    ELSE IF n \in CppKeywords THEN {<<"C++ keyword", n>>} ELSE {}

\* Every error of the elements of a sequence; Of sees the position of the element.
Errors(seq, Of(_)) == UNION {Of(k) : k \in DOMAIN seq}
\* The names that stand a second time in a sequence of names.
Repeated(names, what) ==
    Errors(names, LAMBDA k : IF \E j \in 1..k - 1 : names[j] = names[k]
                             THEN {<<what, names[k]>>} ELSE {})
Names(seq) == [k \in DOMAIN seq |-> seq[k].name]

IsStruct(r, n) == n \in ToSet(Names(r.structs))
IsAlias(r, n) == n \in ToSet(Names(r.alias))
\* findAlias() finds the first one of a name.
AliasIndex(r, n) == CHOOSE k \in DOMAIN r.alias :
    r.alias[k].name = n /\ \A j \in 1..k - 1 : r.alias[j].name # n
Target(r, n) == r.alias[AliasIndex(r, n)].target

-----------------------------------------------------------------------------
RECURSIVE ResolveKeyBasic(_, _, _)
ResolveKeyBasic(r, t, seen) ==
    \/ t.name \in BasicNames
    \/ /\ t.args = <<>> /\ ~IsStruct(r, t.name) /\ IsAlias(r, t.name) /\ t.name \notin seen
       /\ ResolveKeyBasic(r, Target(r, t.name), seen \union {t.name})

\* The argument of a vector is looked at only when there is more or less than one.
RECURSIVE CheckType(_, _)
CheckType(r, t) ==
    LET Arg(k) == CheckType(r, t.args[k])
        count == Len(t.args)
    IN  CASE t.name \in BasicNames -> IF count > 0 THEN {<<"basic with arguments", t.name>>} ELSE {}
          [] t.name = "vector" ->
                IF count = 1 THEN {} ELSE {<<"arguments", "vector">>} \union Errors(t.args, Arg)
          [] t.name \in {"array", "map"} /\ count # 2 -> {<<"arguments", t.name>>}
          [] t.name = "array" /\ count = 2 ->
                Arg(1) \union IF t.args[2].args = <<>> /\ IsPositiveInt(t.args[2].name) THEN {}
                              ELSE {<<"array size", t.args[2].name>>}
          [] t.name = "map" /\ count = 2 ->
                Arg(1) \union Arg(2) \union IF ResolveKeyBasic(r, t.args[1], {}) THEN {}
                                            ELSE {<<"map key", t.args[1].name>>}
          [] OTHER -> IF ~IsStruct(r, t.name) /\ ~IsAlias(r, t.name) THEN {<<"unknown type", t.name>>}
                      ELSE IF count > 0 THEN {<<"not a template", t.name>>} ELSE {}

\* The aliases met from a type on: only a target without arguments is followed.
RECURSIVE Chain(_, _, _)
Chain(r, t, met) ==
    IF t.args # <<>> \/ ~IsAlias(r, t.name) \/ t.name \in met THEN met
    ELSE Chain(r, Target(r, t.name), met \union {t.name})
\* One error for each cycle of aliases.
CheckAliasCycles(r) ==
    {<<"alias cycle", Chain(r, Target(r, n), {})>> :
        n \in {m \in ToSet(Names(r.alias)) : m \in Chain(r, Target(r, m), {})}}

\* The structs a type contains, through vectors, arrays, the values of maps and aliases.
RECURSIVE DirectStructRefs(_, _, _)
DirectStructRefs(r, t, seen) ==
    LET count == Len(t.args)
    IN  CASE t.name = "map" -> IF count >= 2 THEN DirectStructRefs(r, t.args[2], seen) ELSE {}
          [] t.name \in {"array", "vector"} ->
                IF count >= 1 THEN DirectStructRefs(r, t.args[1], seen) ELSE {}
          [] OTHER ->
                IF t.name \in BasicNames \/ count > 0 THEN {}
                ELSE IF IsStruct(r, t.name) THEN {t.name}
                ELSE IF IsAlias(r, t.name) /\ t.name \notin seen
                THEN DirectStructRefs(r, Target(r, t.name), seen \union {t.name})
                ELSE {}
FieldRefs(r, k, f) == DirectStructRefs(r, r.structs[k].fields[f].type, {})
\* order[]: the last struct of a name.
LastStruct(r, n) == CHOOSE k \in DOMAIN r.structs :
    r.structs[k].name = n /\ \A j \in DOMAIN r.structs : j > k => r.structs[j].name # n
Adjacent(r, n) ==
    LET k == LastStruct(r, n) IN UNION {FieldRefs(r, k, f) : f \in DOMAIN r.structs[k].fields}
RECURSIVE Contained(_, _)
Contained(r, names) ==
    LET more == names \union UNION {Adjacent(r, n) : n \in names}
    IN  IF more = names THEN names ELSE Contained(r, more)
\* The search stops at the first struct from which it finds a cycle: one of those listed.
CheckStructSelfRef(r) ==
    LET cyclic == {n \in ToSet(Names(r.structs)) : n \in Contained(r, Adjacent(r, n))}
        leading == {n \in ToSet(Names(r.structs)) : Contained(r, {n}) \intersect cyclic # {}}
    IN  IF leading = {} THEN {} ELSE {<<"recursive struct", leading>>}
\* Faulty variant for the mutants: only a field whose own type is a struct counts.
CheckStructOrderOfNames(r) ==
    Errors(r.structs, LAMBDA k : Errors(r.structs[k].fields, LAMBDA f :
        {<<"must be declared before", n>> :
            n \in {m \in ToSet(Names(r.structs)) : m = r.structs[k].fields[f].type.name
                                                   /\ LastStruct(r, m) > k}}))
CheckStructOrder(r) ==
    Errors(r.structs, LAMBDA k : Errors(r.structs[k].fields, LAMBDA f :
        {<<"must be declared before", n>> : n \in {m \in FieldRefs(r, k, f) : LastStruct(r, m) > k}}))

-----------------------------------------------------------------------------
HasAnnotation(anns, n) == \E k \in DOMAIN anns : anns[k].name = n
FindAnnotation(anns, n) == SelectInSeq(anns, LAMBDA a : a.name = n)

CheckAnnotations(target, anns) ==
    LET Plain(a) == IF a.value = <<>> THEN {} ELSE {<<"value", a.name>>}
        For(t, a) == IF target = t THEN {} ELSE {<<"not for " \o target, a.name>>}
        Exclusive(k, n) == IF \E j \in 1..k : anns[j].name = n
                           THEN {<<"exclusive", anns[k].name>>} ELSE {}
        Check(k) ==
            LET a == anns[k]
            IN  CASE a.name = "timeout" ->
                        IF target # "method" THEN For("method", a)
                        ELSE IF a.value # <<>> /\ IsPositiveInt(a.value[1]) THEN {}
                        ELSE {<<"needs a positive integer", a.name>>}
                  [] a.name = "readonly" ->
                        IF target # "property" THEN For("property", a) ELSE Plain(a)
                  [] a.name = "sync" -> For("method", a) \union Exclusive(k, "async") \union Plain(a)
                  [] a.name = "async" -> For("method", a) \union Exclusive(k, "sync") \union Plain(a)
                  [] a.name = "deprecated" -> Plain(a)
                  [] OTHER -> {<<"unknown annotation", a.name>>}
    IN  Repeated(Names(anns), "duplicate annotation") \union Errors(anns, Check)

CheckPackage(segments) ==
    LET bad == {k \in DOMAIN segments : BadName(segments[k]) # {}}
    IN  IF bad # {} THEN BadName(segments[Min(bad)])
        ELSE IF Len(segments) < 2 THEN {<<"package should look like", "a.b.c">>}
        ELSE {}

CheckTypeNames(names) ==
    LET Bad(n) == IF IsExistedName(n) THEN {<<"reserved", n>>} ELSE BadName(n)
        Good(n) == Bad(n) = {}
    IN  Errors(names, LAMBDA k : Bad(names[k]))
            \union Repeated(SelectSeq(names, Good), "duplicate type name")

CheckStruct(r, s) ==
    (IF s.fields = <<>> THEN {<<"no field", s.name>>} ELSE {})
    \union Errors(s.fields, LAMBDA k :
        (IF IsIdentifier(s.fields[k].name) THEN {} ELSE {<<"not an identifier", s.fields[k].name>>})
        \union CheckType(r, s.fields[k].type))
    \union Repeated(Names(s.fields), "duplicate field")

CheckParams(r, params) == Errors(params, LAMBDA k : CheckType(r, params[k].type))
CheckMethod(r, m) ==
    CheckAnnotations("method", m.annotations) \union CheckParams(r, m.params)
    \union Errors(m.ret, LAMBDA k : CheckType(r, m.ret[k]))
    \union (IF ~HasAnnotation(m.annotations, "sync") /\ "aCallback" \in ToSet(Names(m.params))
            THEN {<<"collides with the callback", m.name>>} ELSE {})
CheckSignal(r, s) == CheckAnnotations("signal", s.annotations) \union CheckParams(r, s.params)
CheckProperty(r, p) == CheckAnnotations("property", p.annotations) \union CheckType(r, p.type)

Capitalize(n) == IF n \in DOMAIN CapitalOf THEN CapitalOf[n] ELSE n
ListenerName(n) == "on" \o Capitalize(n)
EmitName(n) == "emit" \o Capitalize(n)
GetName(n) == "get" \o Capitalize(n)
SetName(n) == "set" \o Capitalize(n)
ChangedName(n) == "on" \o Capitalize(n) \o "Changed"

\* What the validator expects the two generated classes to declare.
PropertyNames(p) ==
    <<GetName(p.name)>>
    \o (IF HasAnnotation(p.annotations, "readonly") THEN <<>> ELSE <<SetName(p.name)>>)
    \o <<ChangedName(p.name)>>
\* Faulty variant for the mutants: the second name of a method is forgotten.
ProxyMethodNamesOnce(m) == <<m.name>>
ProxyMethodNames(m) ==
    (IF HasAnnotation(m.annotations, "async") THEN <<>> ELSE <<m.name>>)
    \o (IF HasAnnotation(m.annotations, "sync") THEN <<>> ELSE <<m.name \o "Async">>)
\* The names Of gives for each element, one after the other.
Collect(seq, Of(_)) == FlattenSeq([k \in DOMAIN seq |-> Of(seq[k])])
CheckGenerated(i) ==
    LET properties == Collect(i.properties, PropertyNames)
        proxy == Collect(i.methods, ProxyMethodNames)
                 \o Collect(i.signals, LAMBDA s : <<ListenerName(s.name)>>) \o properties
        server == Collect(i.signals, LAMBDA s : <<EmitName(s.name)>>) \o properties
    IN  Repeated(proxy, "generated twice in the proxy")
        \union Repeated(server, "generated twice in the skeleton")
        \union {<<"generated twice in the skeleton", n>> :
                    n \in ToSet(server) \intersect ToSet(Names(i.methods))}

CheckInterface(r, i) ==
    LET members == Names(i.methods) \o Names(i.signals) \o Names(i.properties)
    IN  BadName(i.name)
        \union Errors(members, LAMBDA k : BadName(members[k]))
        \union Repeated(members, "duplicate member")
        \union Errors(i.methods, LAMBDA k : CheckMethod(r, i.methods[k]))
        \union Errors(i.signals, LAMBDA k : CheckSignal(r, i.signals[k]))
        \union Errors(i.properties, LAMBDA k : CheckProperty(r, i.properties[k]))
        \union CheckGenerated(i)

ValidateAst(r) ==
    CheckPackage(r.package)
    \union CheckTypeNames(Names(r.structs) \o Names(r.alias))
    \union CheckAliasCycles(r) \union CheckStructSelfRef(r) \union CheckStructOrder(r)
    \union Errors(r.structs, LAMBDA k : CheckStruct(r, r.structs[k]))
    \union Errors(r.alias, LAMBDA k : CheckType(r, r.alias[k].target))
    \union Errors(r.interfaces, LAMBDA k : CheckInterface(r, r.interfaces[k]))
    \union Repeated(Names(r.interfaces), "duplicate interface")

-----------------------------------------------------------------------------
\* A node of a generated type, or what became of lowering it: a "report", or an
\* exception ("throws") or an exhausted stack ("overflows"), with which the tool dies.
Node(kind, name, n, parts) == [kind |-> kind, name |-> name, n |-> n, parts |-> parts]
RECURSIVE Kinds(_)
Kinds(node) == {node.kind} \union UNION {Kinds(node.parts[k]) : k \in DOMAIN node.parts}

\* path holds the aliases that are being expanded; one that comes up again never ends.
RECURSIVE LowerType(_, _, _)
LowerType(r, t, path) ==
    LET Arg(k) == LowerType(r, t.args[k], path)
        count == Len(t.args)
        size == IntOf[t.args[2].name]
    IN  CASE t.name \in BasicNames -> Node("base", t.name, 0, <<>>)
          [] t.name = "vector" /\ count = 1 -> Node("vector", "", 0, <<Arg(1)>>)
          [] t.name = "array" /\ count = 2 ->
                IF t.args[2].name \in DOMAIN IntOf /\ size < U64
                THEN Node("array", "", size % U32, <<Arg(1)>>)
                ELSE Node("throws", "", 0, <<Arg(1)>>)
          [] t.name = "map" /\ count = 2 -> Node("map", "", 0, <<Arg(1), Arg(2)>>)
          [] OTHER ->
                IF IsExistedName(t.name) THEN Node("report", t.name, 0, <<>>)
                ELSE IF IsStruct(r, t.name) THEN Node("struct", t.name, 0, <<>>)
                ELSE IF ~IsAlias(r, t.name) THEN Node("report", t.name, 0, <<>>)
                ELSE IF t.name \in path THEN Node("overflows", t.name, 0, <<>>)
                ELSE LowerType(r, Target(r, t.name), path \union {t.name})

LowerFields(r, fields) ==
    [k \in DOMAIN fields |-> [name |-> fields[k].name, type |-> LowerType(r, fields[k].type, {})]]
LowerMethod(r, m) ==
    LET at == FindAnnotation(m.annotations, "timeout")
        value == m.annotations[at].value
    IN  [name |-> m.name, params |-> LowerFields(r, m.params),
         ret |-> [k \in DOMAIN m.ret |-> LowerType(r, m.ret[k], {})],
         timeout |-> IF at = 0 \/ value = <<>> THEN 0
                     ELSE IF IntOf[value[1]] >= U64 THEN -1     \* stoull() throws
                     ELSE (IntOf[value[1]] * 1000) % U64,
         mode |-> IF HasAnnotation(m.annotations, "sync") THEN "sync"
                  ELSE IF HasAnnotation(m.annotations, "async") THEN "async" ELSE "both"]
LowerInterface(r, i) ==
    [name |-> i.name,
     methods |-> [k \in DOMAIN i.methods |-> LowerMethod(r, i.methods[k])],
     signals |-> [k \in DOMAIN i.signals |->
        [name |-> i.signals[k].name, params |-> LowerFields(r, i.signals[k].params)]],
     properties |-> [k \in DOMAIN i.properties |->
        [name |-> i.properties[k].name, type |-> LowerType(r, i.properties[k].type, {}),
         init |-> i.properties[k].init,
         readonly |-> HasAnnotation(i.properties[k].annotations, "readonly")]]]
GenerateIr(r) ==
    [package |-> r.package,
     structs |-> [k \in DOMAIN r.structs |->
        [name |-> r.structs[k].name, fields |-> LowerFields(r, r.structs[k].fields)]],
     aliases |-> [k \in DOMAIN r.alias |->
        [name |-> r.alias[k].name, target |-> LowerType(r, r.alias[k].target, {})]],
     interfaces |-> [k \in DOMAIN r.interfaces |-> LowerInterface(r, r.interfaces[k])]]

\* Every generated type of a tree.
FieldTypes(fields) == {fields[k].type : k \in DOMAIN fields}
IrTypes(ir) ==
    UNION {FieldTypes(ir.structs[k].fields) : k \in DOMAIN ir.structs}
    \union {ir.aliases[k].target : k \in DOMAIN ir.aliases}
    \union UNION {LET i == ir.interfaces[k]
                  IN  UNION {FieldTypes(i.methods[m].params) \union ToSet(i.methods[m].ret) :
                                m \in DOMAIN i.methods}
                      \union UNION {FieldTypes(i.signals[s].params) : s \in DOMAIN i.signals}
                      \union {i.properties[p].type : p \in DOMAIN i.properties} :
                  k \in DOMAIN ir.interfaces}

\* analyze(): "ir", "errors", or "dies".
Outcome(r) ==
    LET ir == GenerateIr(r)
        kinds == UNION {Kinds(t) : t \in IrTypes(ir)}
        badTimeout == \E k \in DOMAIN ir.interfaces :
            \E m \in DOMAIN ir.interfaces[k].methods : ir.interfaces[k].methods[m].timeout = -1
    IN  IF ValidateAst(r) # {} THEN "errors"
        ELSE IF kinds \intersect {"throws", "overflows"} # {} \/ badTimeout THEN "dies"
        ELSE IF "report" \in kinds THEN "errors"
        ELSE "ir"
=============================================================================
