------------------------------ MODULE Codegen ------------------------------
(***************************************************************************)
(* The code generator of dxxcpp (tool/dxxcpp/src/Codegen.cpp): which names *)
(* each generated file declares, defines and uses, in the order of the     *)
(* text. Layout, comments and the bodies of functions are left out.        *)
(***************************************************************************)
EXTENDS Sema

CONSTANT UpperOf    \* upper() on the names it changes

\* The struct names in the text of a type, cppType().
RECURSIVE StructsIn(_)
StructsIn(node) ==
    (IF node.kind = "struct" THEN {node.name} ELSE {})
    \union UNION {StructsIn(node.parts[k]) : k \in DOMAIN node.parts}
Upper(n) == IF n \in DOMAIN UpperOf THEN UpperOf[n] ELSE n
\* com.example.calc -> COM_EXAMPLE_CALC and ComExampleCalc
GuardPrefix(package) ==
    FoldLeft(LAMBDA text, n : IF text = "" THEN Upper(n) ELSE text \o "_" \o Upper(n), "", package)
CamelPackage(package) == FoldLeft(LAMBDA text, n : text \o Capitalize(n), "", package)

Declaration(name, uses) == [declares |-> name, uses |-> uses]
\* genTypesHeader(): each declaration at namespace level with the struct names it uses.
TypesHeader(ir) ==
    LET prefix == GuardPrefix(ir.package)
    IN  <<Declaration(prefix \o "_PATH", {})>>
        \o Collect(ir.interfaces, LAMBDA i :
            <<Declaration(prefix \o "_" \o Upper(i.name) \o "_IFACE", {})>>)
        \o Collect(ir.structs, LAMBDA s :
            <<Declaration(s.name, UNION {StructsIn(t) : t \in FieldTypes(s.fields)})>>)
        \o Collect(ir.aliases, LAMBDA a : <<Declaration(a.name, StructsIn(a.target))>>)

\* A function of a generated class: what tells an overload is the callback it takes.
Func(name, callback) == [name |-> name, callback |-> callback]
\* methodFunc() in the shapes of a call mode
MethodFuncs(m) ==
    (IF m.mode = "async" THEN <<>> ELSE <<Func(m.name, FALSE)>>)
    \o (IF m.mode = "sync" THEN <<>>
        ELSE <<Func(m.name \o "Async", FALSE), Func(m.name \o "Async", TRUE)>>)
PropertyFuncs(p) ==
    <<Func(GetName(p.name), FALSE)>>
    \o (IF p.readonly THEN <<>> ELSE <<Func(SetName(p.name), FALSE)>>)
    \o <<Func(ChangedName(p.name), TRUE)>>

\* A generated class: its constructors have its name, which no function and no data
\* member may have, nor may a function have the name of a data member.
Class(name, functions, data) == [name |-> name, functions |-> functions, data |-> data]
InterfaceClass(i) == i.name \o "Interface"
ServerClass(i) == i.name \o "Server"
ProxyClass(i) == i.name \o "Proxy"

ProxyHeader(i) ==
    <<Class(ProxyClass(i),
        Collect(i.methods, MethodFuncs)
        \o Collect(i.signals, LAMBDA s : <<Func(ListenerName(s.name), TRUE)>>)
        \o Collect(i.properties, PropertyFuncs),
        <<"mClient">>)>>
ProxySource(i) ==
    <<Class(ProxyClass(i),
        Collect(i.methods, MethodFuncs)
        \o Collect(i.signals, LAMBDA s : <<Func(ListenerName(s.name), TRUE)>>)
        \o Collect(i.properties, PropertyFuncs),
        <<>>)>>

\* The interface class and the server class, in which each member is registered by a
\* static variable that the macros of MetaObject.hpp name.
SkeletonHeader(i) ==
    <<Class(InterfaceClass(i), Collect(i.methods, LAMBDA m : <<Func(m.name, FALSE)>>), <<>>),
      Class(ServerClass(i),
        Collect(i.methods, LAMBDA m : <<Func(m.name, FALSE)>>)
        \o Collect(i.signals, LAMBDA s : <<Func(EmitName(s.name), FALSE)>>)
        \o Collect(i.properties, PropertyFuncs),
        Collect(i.methods \o i.signals, LAMBDA m : <<"_dbusxx_reg_" \o m.name>>)
        \o Collect(i.properties, LAMBDA p : <<"_dbusxx_reg_prop_" \o p.name>>)
        \o <<"mIface">>)>>
SkeletonSource(i) ==
    <<Class(ServerClass(i),
        Collect(i.methods, LAMBDA m : <<Func(m.name, FALSE)>>)
        \o Collect(i.signals, LAMBDA s : <<Func(EmitName(s.name), FALSE)>>)
        \o Collect(i.properties, PropertyFuncs),
        <<>>)>>

\* buildOutputs(): the files of a .dxx in the order in which they are written.
Outputs(ir) ==
    <<CamelPackage(ir.package) \o "Types.hpp">>
    \o Collect(ir.interfaces, LAMBDA i :
        <<i.name \o "Skeleton.hpp", i.name \o "Skeleton.cpp",
          i.name \o "Proxy.hpp", i.name \o "Proxy.cpp">>)
=============================================================================
