------------------------------- MODULE Loader -------------------------------
(***************************************************************************)
(* What happens to the source of a program before it runs: its methods are *)
(* compiled, its files turned into scripts (Compiler.cpp), and the host    *)
(* starts with the first file.                                             *)
(***************************************************************************)
EXTENDS Compiler, Interpreter

CONSTANT Programs  \* a sequence of records: the methods and the script files of a program

(***************************************************************************)
(* Programs.  The methods that a script hands to the machine are compiled  *)
(* for the class that is current then; Compiled holds every case.          *)
(***************************************************************************)
\* What ASTInterpreter does for a node, in order.
RECURSIVE ScriptCode(_)
ScriptCode(node) ==
  CASE node.kind = "literal"    -> <<ScriptOp("push", node.value, 0)>>
    [] node.kind \in {"self", "super"} -> <<ScriptOp("pushSelf", nil, 0)>>
    [] node.kind = "identifier" -> <<ScriptOp("pushVariable", Symbol(node.name), 0)>>
    [] node.kind = "sequence"   ->
         IF node.names # << >> THEN <<ScriptOp("unimplemented", nil, 0)>>
         ELSE FlattenSeq([k \in DOMAIN node.kids |->
                (IF k = 1 THEN << >> ELSE <<ScriptOp("pop", nil, 0)>>) \o ScriptCode(node.kids[k])])
    [] node.kind = "send" ->
         LET messages == Messages(node) IN
         ScriptCode(node.kids[1])
           \o FlattenSeq([i \in DOMAIN messages |->
                (IF i = 1 THEN << >> ELSE <<ScriptOp("pop", nil, 0)>>)
                \o (IF i = Len(messages) THEN << >> ELSE <<ScriptOp("duplicate", nil, 0)>>)
                \o FlattenSeq([j \in DOMAIN messages[i].arguments |-> ScriptCode(messages[i].arguments[j])])
                \o <<ScriptOp("send", Symbol(messages[i].selector), Len(messages[i].arguments))>>])
    [] OTHER -> <<ScriptOp("unimplemented", nil, 0)>>

\* The classes that methods of a program may be compiled for.
ClassesOf(source) == {Metaclass("GlobalContext")} \cup source.classes

Compiled(source) ==
  [k \in DOMAIN source.methods |->
     [class \in ClassesOf(source) |-> compileMethod(source.methods[k], class)]]
Scripts(source) ==
  [f \in DOMAIN source.files |->
     LET file == source.files[f] IN [readable |-> file.kind # "unreadable", ops |-> ScriptCode(file)]]
Loaded(source) == [methods |-> Compiled(source), scripts |-> Scripts(source)]

\* The host has compiled a program and starts to run it.
Start ==
  /\ program \in DOMAIN Programs
  /\ compiled = Loaded(Programs[program])
  /\ machine = StartedMachine
=============================================================================
