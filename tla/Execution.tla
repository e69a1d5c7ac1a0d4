------------------------------ MODULE Execution ------------------------------
(***************************************************************************)
(* What the compiler and the interpreter owe to the programs they run.     *)
(***************************************************************************)
EXTENDS Evaluator, Frames

(***************************************************************************)
(* Methods that the compiler is known to translate wrongly.                *)
(***************************************************************************)
RECURSIVE Subnodes(_)
Subnodes(node) == {node} \cup UNION {Subnodes(node.kids[k]) : k \in DOMAIN node.kids}
                    \cup UNION {Subnodes(node.chain[k]) : k \in DOMAIN node.chain}

\* An inlined block without a statement pushes no value.
EmptyInlinedBlock(ast) ==
  \E n \in Subnodes(ast) : \E k \in InlinedKids(n) :
    isBlockExpression(n.kids[k]) /\ n.kids[k].kids[1].kids = << >>

\* The captured arguments of a block are moved through the wrong temporary.
CapturedBlockArgument(sem) == \E v \in sem.captured : v.at = v.owner /\ v.at # << >>

\* A local that follows a captured one is beyond the temporaries of its frame.
LocalBeyondFrame(sem, ast, method) ==
  LET places == MethodPlaces(sem.locals, Len(ast.names), sem) IN
  \E v \in DOMAIN places : places[v].vector = -1 /\ places[v].index >= method.arguments + method.temporals

\* The operand of PushClosure has room for one copied value.
CopiesTwoValues(method) == \E i \in DOMAIN method.code : /\ method.code[i].op = "PushClosure"
                                                         /\ method.code[i].a > 1

WronglyTranslated(source, k) ==
  LET ast == source.methods[k]
      sem == AnalyzeMethod(ast, ast.value.name)
      method == compiled.methods[k][ast.value.name] IN
  EmptyInlinedBlock(ast) \/ CapturedBlockArgument(sem) \/ LocalBeyondFrame(sem, ast, method)
    \/ CopiesTwoValues(method)

\* A name that a list declares twice is refused.
DeclaresTwice(ast) == \E n \in Subnodes(ast) : HasDuplicates(n.names)

\* Programs with a meaning that only use what the compiler translates.
Supported(source, meaning) ==
  /\ Ok(meaning) /\ InstallsItsMethods(source)
  /\ \A k \in DOMAIN source.methods :
       ~WronglyTranslated(source, k) /\ ~DeclaresTwice(source.methods[k])

(***************************************************************************)
(* How many operands there are in front of each instruction.               *)
(***************************************************************************)
\* The depths that instruction i leads to.
Following(code, i, d) ==
  LET next == Successors(code[i], i, d) IN
  [pc \in {s[1] : s \in next} |-> (CHOOSE s \in next : s[1] = pc)[2]]

Depths(method) ==
  FoldLeft(LAMBDA depths, i : IF i \in DOMAIN depths THEN depths @@ Following(method.code, i, depths[i]) ELSE depths,
           1 :> method.temporals, [i \in DOMAIN method.code |-> i])

(***************************************************************************)
(* What a program is to do: expected holds whether it is supported, the    *)
(* answer and the globals that its trees mean, and the depths at which its *)
(* instructions were generated.  Objects are compared by their class.      *)
(***************************************************************************)
Shape(oop, heap) == IF oop.tag = "pointer" THEN Word("object", 0, heap[oop.value].class) ELSE oop

Outcome(source, meaning) ==
  [supported |-> Supported(source, meaning),
   answer    |-> Shape(meaning.value, meaning.heap),
   globals   |-> [g \in GlobalNames |-> Shape(meaning.globals[g], meaning.heap)],
   depths    |-> [k \in DOMAIN compiled.methods |->
                    [class \in DOMAIN compiled.methods[k] |-> Depths(compiled.methods[k][class])]]]
Expected(source) == Outcome(source, MeaningOf(source))

Init == Start /\ expected = Expected(Programs[program])
Spec == Init /\ [][Next]_vars /\ GoesOn

(***************************************************************************)
(* Properties.                                                             *)
(***************************************************************************)
\* Words that the stack may hold; a small integer fits beside its tag.
WordOK(oop) ==
  /\ oop.tag \in {"nil", "true", "false", "int", "float", "char", "symbol", "class", "pointer", "raw",
                  "ast", "file", "compiled", "native"}
  /\ oop.tag = "int" => Representable(oop.value)
  /\ oop.tag = "pointer" => oop.value \in DOMAIN machine.heap

\* Type correctness of the interpreter's registers, of its stack and of its objects.
TypeOK ==
  /\ program \in DOMAIN Programs
  /\ machine.sp \in 0..MaxStack /\ machine.framePointer \in 0..MaxStack
  /\ machine.pc \in Nat /\ machine.argumentCount \in Nat
  /\ machine.status \in {"running", "finished", "aborted", "crashed", "assertion", "bounded"}
  /\ Len(machine.stack) = MaxStack /\ \A i \in DOMAIN machine.stack : WordOK(machine.stack[i])
  /\ \A i \in DOMAIN machine.heap : machine.heap[i].class \in DOMAIN ClassHierarchy
  /\ \A g \in GlobalNames : WordOK(machine.globals[g])

\* A program that ends answers what its syntax trees mean and leaves the globals
\* as they do: whatever variables are captured by blocks, copied, moved to
\* vectors, and whatever messages are inlined, sent, or answered by a primitive
\* (Compiler.cpp, StackInterpreter.cpp, Object.cpp).
AnswersAreRight ==
  machine.status = "finished" /\ expected.supported =>
    /\ Shape(machine.answer, machine.heap) = expected.answer
    /\ \A g \in GlobalNames : Shape(machine.globals[g], machine.heap) = expected.globals[g]

\* The compiler (Compiler.cpp) generates the methods and scripts that it is known
\* to translate for the operands that each instruction finds, and no native
\* method leaves words of its own among them: VerifiedSpec asks no more.
SupportedProgramsAreVerified == expected.supported => (Starts => Verified) /\ ~LeavesWords

\* A program that has a meaning comes to its end: no jump, return, block or send
\* loses the way, and no message goes without its method.
ProgramsFinish == expected.supported ~> machine.status = "finished"

\* The assertion of the instructions for captured variables (for one that of
\* interpretPopStoreTemporalInVector, StackInterpreter.cpp): the temporary that
\* holds the vector holds an array.
VectorsAreArrays ==
  /\ InBytecode
  /\ Instruction.op \in {"PushTemporalInVector", "StoreTemporalInVector", "PopStoreTemporalInVector"}
  => Vector.tag = "pointer" /\ classIndexOf(machine, Vector) = "Array"
=============================================================================
