------------------------------- MODULE Driver -------------------------------
(***************************************************************************)
(* The driver of dxxcpp (tool/dxxcpp/main.cpp): the command line, the      *)
(* phases in their order, the exit code, and the output files, each of     *)
(* which may fail to be written. What the parser and the analysis find is  *)
(* a parameter of the phase that asks; module Dxxcpp supplies it.          *)
(***************************************************************************)
EXTENDS Integers, Sequences, FiniteSets

VARIABLES args,       \* the command line
          stage,      \* the phase that comes next
          files,      \* the names of the output files, once they are known
          written,    \* the files that were opened, and what became of their text
          folder,     \* whether the output folder was made
          exit        \* the exit code

driverVars == <<args, stage, files, written, folder, exit>>

NoExit == -1
Crashed == 134

\* An argument is the kind of the text that main() tells apart; "" is an empty one.
Options == {"--help", "--list-outputs", "--dbus", "--output-dir=dir", "-odir", "-o"}
\* The argument behind a "-o" is its value, whatever it looks like.
IsValue(k) == Cardinality({j \in 1..k - 1 : \A i \in j..k - 1 : args[i] = "-o"}) % 2 = 1
Words == {k \in DOMAIN args : ~IsValue(k)}
Given(text) == \E k \in Words : args[k] = text
ParseArguments ==
    [ok |-> /\ \A k \in Words : args[k] \in Options \union {"input", ""}
            /\ \A k \in Words : args[k] = "-o" => k < Len(args) /\ args[k + 1] # ""
            /\ \A j, k \in Words : j < k /\ args[j] = "input" => args[k] \notin {"input", ""}
            /\ Given("--help") \/ Given("input"),
     help |-> Given("--help"), list |-> Given("--list-outputs")]

-----------------------------------------------------------------------------
DriverInit ==
    /\ stage = "arguments" /\ exit = NoExit
    /\ files = <<>> /\ written = <<>> /\ folder = FALSE

ExitWith(code) == exit' = code /\ stage' = "exit"

ReadArguments ==
    /\ stage = "arguments"
    /\ IF ~ParseArguments.ok THEN ExitWith(2)
       ELSE IF ParseArguments.help THEN ExitWith(0)
       ELSE stage' = "read" /\ UNCHANGED exit
    /\ UNCHANGED <<args, files, written, folder>>

\* readSource(); the file may not be there.
ReadSource ==
    /\ stage = "read"
    /\ \/ stage' = "parse" /\ UNCHANGED exit
       \/ ExitWith(1)
    /\ UNCHANGED <<args, files, written, folder>>

JudgeSyntax(accepted) ==
    /\ stage = "parse"
    /\ IF accepted THEN stage' = "analyze" /\ UNCHANGED exit ELSE ExitWith(1)
    /\ UNCHANGED <<args, files, written, folder>>

\* analyze() ends with an error, not at all, or with what the named files are made of.
JudgeTree(outcome, names) ==
    /\ stage = "analyze"
    /\ CASE outcome = "errors" -> ExitWith(1) /\ UNCHANGED files
         [] outcome = "dies" -> ExitWith(Crashed) /\ UNCHANGED files
         [] OTHER -> stage' = "output" /\ files' = names /\ UNCHANGED exit
    /\ UNCHANGED <<args, written, folder>>

ListOutputs ==
    /\ stage = "output" /\ ParseArguments.list
    /\ ExitWith(0)
    /\ UNCHANGED <<args, files, written, folder>>

\* Faulty variant for the mutants: the folder is made before the question is looked at.
CreateFolderAlways ==
    /\ stage = "output" /\ stage' = "write" /\ folder' = TRUE
    /\ UNCHANGED <<args, files, written, exit>>
CreateFolder ==
    /\ stage = "output" /\ ~ParseArguments.list
    /\ \/ stage' = "write" /\ folder' = TRUE /\ UNCHANGED exit
       \/ ExitWith(1) /\ UNCHANGED folder
    /\ UNCHANGED <<args, files, written>>

\* writeFile(): the file cannot be opened, the stream fails on the text, or it fails when
\* what it has buffered is written by its destructor, which nobody looks at.
Write(text) == written' = Append(written, [name |-> files[Len(written) + 1], text |-> text])
WriteFile ==
    /\ stage = "write" /\ Len(written) < Len(files)
    /\ \/ Write("whole") /\ UNCHANGED <<stage, exit>>
       \/ ExitWith(1) /\ UNCHANGED written
       \/ ExitWith(1) /\ Write("failed")
       \/ Write("short") /\ UNCHANGED <<stage, exit>>
    /\ UNCHANGED <<args, files, folder>>

Success ==
    /\ stage = "write" /\ Len(written) = Len(files)
    /\ ExitWith(0)
    /\ UNCHANGED <<args, files, written, folder>>

\* Whatever the parser and the analysis find: the types header at least is an output.
AnyTree ==
    \E outcome \in {"errors", "dies", "ir"} :
        /\ JudgeTree(outcome, files')
        /\ outcome = "ir" => files' \in Seq(STRING) /\ files' # <<>>

DriverNext == \/ ReadArguments \/ ReadSource \/ (\E accepted \in BOOLEAN : JudgeSyntax(accepted))
              \/ AnyTree \/ ListOutputs \/ CreateFolder \/ WriteFile \/ Success

DriverSpec == DriverInit /\ [][DriverNext]_driverVars

-----------------------------------------------------------------------------
(* The exit code tells what happened to the files, as far as writeFile()     *)
(* looks: after a success that was asked to write, every output was opened,  *)
(* none twice, and none failed to take its text, so that only a failure at   *)
(* the closing of a file stays untold; after a usage error, a rejected       *)
(* source, the help or a list of the outputs nothing was written and no      *)
(* folder made; and no output is begun before the ones that stand before it. *)
FilesMatchExit ==
    stage = "exit" =>
        /\ exit = 0 /\ folder => Len(written) = Len(files)
        /\ exit = 0 => \A k \in DOMAIN written : written[k].text # "failed"
        /\ exit \in {2, Crashed} \/ files = <<>> \/ ParseArguments.list => written = <<>> /\ ~folder
        /\ exit = 0 /\ ~folder => ParseArguments.help \/ ParseArguments.list
        /\ \A k \in DOMAIN written : k <= Len(files) /\ written[k].name = files[k]
=============================================================================
