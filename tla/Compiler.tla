------------------------------ MODULE Compiler ------------------------------
(***************************************************************************)
(* Compiler.cpp: from the syntax tree of a method to its instructions.     *)
(*                                                                         *)
(* MethodSemanticAnalysis finds the variable that each identifier means,   *)
(* marks those that a block uses from outside of itself as captured, and   *)
(* decides which blocks are inlined.  MethodCompiler gives every variable  *)
(* its place - a temporary of the frame, or a slot of a vector that blocks *)
(* copy - and generates the instructions through the Assembler.            *)
(*                                                                         *)
(* The classes write their results into the nodes; here a variable is      *)
(* named by the path of the node that declares it, and the results are     *)
(* sets and functions of these names.                                      *)
(***************************************************************************)
EXTENDS Syntax, Classes, SequencesExt

(***************************************************************************)
(* Scopes.  A scope maps the names that can be seen to variables.          *)
(***************************************************************************)
Variable(kind, at, name, index, owner) ==
  [kind |-> kind, at |-> at, name |-> name, index |-> index, owner |-> owner]

RECURSIVE findInstanceVariable(_, _)
\* The variables of the superclass are searched first; -1 when there is none.
findInstanceVariable(class, name) ==
  IF class = "" THEN -1
  ELSE LET inherited == findInstanceVariable(Superclass[class], name)
           here == {i \in DOMAIN InstanceVariables[class] : InstanceVariables[class][i] = name} IN
       IF inherited >= 0 THEN inherited
       ELSE IF here = {} THEN -1
       ELSE InstanceCount(class) - Len(InstanceVariables[class]) + Min(here) - 1

GlobalEvaluationScope == [name \in GlobalNames |-> Variable("literal", << >>, name, 0, << >>)]

\* Names that a method of each class can see outside of itself.
InstanceVariableScope ==
  LET names == UNION {ToSet(InstanceVariables[c]) : c \in DOMAIN InstanceVariables}
      mine(class) == {n \in names : findInstanceVariable(class, n) >= 0} IN
  Table([class \in DOMAIN Superclass |->
    [name \in mine(class) |-> Variable("instance", << >>, name, findInstanceVariable(class, name), << >>)]
      @@ GlobalEvaluationScope])

\* The variables that a node declares, for the context (method or block) in
\* which they live, and the scope in which its body is compiled.
Declared(names, at, owner) ==
  [i \in DOMAIN names |-> Variable("temporal", at, names[i], 0, owner)]
LocalScope(variables, parent) ==
  [name \in {variables[i].name : i \in DOMAIN variables} |->
     LET i == CHOOSE i \in DOMAIN variables : variables[i].name = name IN variables[i]] @@ parent

(***************************************************************************)
(* Messages the compiler inlines.                                          *)
(***************************************************************************)
Ifs     == {"ifTrue:", "ifFalse:", "ifNil:", "ifNotNil:"}
IfElses == {"ifTrue:ifFalse:", "ifFalse:ifTrue:", "ifNil:ifNotNil:", "ifNotNil:ifNil:"}
Whiles  == {"whileTrue:", "whileFalse:"}
CompilerOptimizedSelectors ==
  Ifs \cup IfElses \cup Whiles \cup {"repeat", "doWhileTrue:", "doWhileFalse:", "to:by:do:", "to:do:"}

\* Only messages outside of cascades, and loops over literal blocks.
isOptimized(node) ==
  /\ node.kind = "send"
  /\ ~isSuperReference(node.kids[1])
  /\ node.chain = << >>
  /\ node.name \in CompilerOptimizedSelectors
  /\ node.name \in Whiles => isBlockExpression(node.kids[1])
  /\ node.name = "to:do:" => isBlockExpression(node.kids[3])
  /\ node.name = "to:by:do:" => isBlockExpression(node.kids[4])

\* The children that are inlined if they are blocks, and with how many arguments.
InlinedKids(node) ==
  CASE ~isOptimized(node)        -> {}
    [] node.name \in Ifs         -> {2}
    [] node.name \in IfElses     -> {2, 3}
    [] node.name \in Whiles      -> {1, 2}
    [] node.name = "to:do:"      -> {3}
    [] node.name = "to:by:do:"   -> {4}
    [] OTHER                     -> {}
InlinedArguments(node) == IF node.name \in {"to:do:", "to:by:do:"} THEN 1 ELSE 0

\* Inlining that the compiler refuses: messages without a case, and blocks with
\* another number of arguments.
Refused(node) ==
  /\ isOptimized(node)
  /\ \/ node.name \in {"repeat", "doWhileTrue:", "doWhileFalse:"}
     \/ \E k \in InlinedKids(node) : /\ isBlockExpression(node.kids[k])
                                     /\ Len(node.kids[k].names) # InlinedArguments(node)

(***************************************************************************)
(* Semantic analysis.  locals are the variables of the context at hand in  *)
(* the order of their declaration, blocks those of the blocks in it.       *)
(* bindings are the variables that identifiers mean, inlined the blocks    *)
(* that are generated in place.                                            *)
(***************************************************************************)
Nothing == [captured |-> {}, locals |-> << >>, blocks |-> << >>, bindings |-> << >>,
            inlined |-> {}, failed |-> FALSE]
Error   == [Nothing EXCEPT !.failed = TRUE]
Both(a, b) == [captured |-> a.captured \cup b.captured, locals |-> a.locals \o b.locals,
               blocks |-> a.blocks @@ b.blocks, bindings |-> a.bindings @@ b.bindings,
               inlined |-> a.inlined \cup b.inlined, failed |-> a.failed \/ b.failed]

HasDuplicates(names) == \E i, j \in DOMAIN names : i < j /\ names[i] = names[j]

RECURSIVE Analyze(_, _, _, _, _)

\* Visit the children in order; those of the set inlined as inlined blocks.
AnalyzeAll(kids, path, scope, context, inlined) ==
  FoldLeft(LAMBDA done, k : Both(done, Analyze(kids[k], path \o <<k>>, scope, context, k \in inlined)),
           Nothing, [k \in DOMAIN kids |-> k])

\* A variable that is used in another context than its own is captured.
AnalyzeIdentifier(node, path, scope, context) ==
  IF node.name \notin DOMAIN scope THEN Error
  ELSE LET variable == scope[node.name] IN
       [Nothing EXCEPT !.bindings = path :> variable,
                       !.captured = IF variable.kind = "temporal" /\ variable.owner # context
                                    THEN {variable} ELSE {}]

\* An inlined block adds its variables to the context around it.
AnalyzeBlock(node, path, scope, context, inlined) ==
  LET owner == IF inlined THEN context ELSE path
      arguments == Declared(node.names, path, owner)
      body == AnalyzeAll(node.kids, path, LocalScope(arguments, scope), owner, {})
      here == [body EXCEPT !.locals = arguments \o @, !.failed = @ \/ HasDuplicates(node.names)] IN
  IF inlined THEN [here EXCEPT !.inlined = @ \cup {path}]
  ELSE [here EXCEPT !.locals = << >>, !.blocks = (path :> here.locals) @@ @]

AnalyzeSequence(node, path, scope, context) ==
  LET locals == Declared(node.names, path, context)
      body == AnalyzeAll(node.kids, path, LocalScope(locals, scope), context, {}) IN
  [body EXCEPT !.locals = locals \o @, !.failed = @ \/ HasDuplicates(node.names)]

\* Every variable can be assigned to, arguments too.
AnalyzeAssignment(node, path, scope, context) ==
  IF isIdentifierExpression(node.kids[1]) THEN AnalyzeAll(node.kids, path, scope, context, {})
  ELSE Error

AnalyzeSend(node, path, scope, context) ==
  IF Refused(node) THEN Error
  ELSE Both(AnalyzeAll(node.kids, path, scope, context, InlinedKids(node)),
            AnalyzeAll(node.chain, path \o <<0>>, scope, context, {}))

Analyze(node, path, scope, context, inlined) ==
  CASE node.kind = "identifier" -> AnalyzeIdentifier(node, path, scope, context)
    [] node.kind = "block"      -> AnalyzeBlock(node, path, scope, context, inlined)
    [] node.kind = "sequence"   -> AnalyzeSequence(node, path, scope, context)
    [] node.kind = "send"       -> AnalyzeSend(node, path, scope, context)
    [] node.kind = "assignment" -> AnalyzeAssignment(node, path, scope, context)
    [] node.kind \in {"message", "return"} -> AnalyzeAll(node.kids, path, scope, context, {})
    [] OTHER -> Nothing

AnalyzeMethod(method, class) ==
  LET arguments == Declared(method.names, << >>, << >>)
      scope == LocalScope(arguments, InstanceVariableScope[class])
      body == AnalyzeAll(method.kids, << >>, scope, << >>, {}) IN
  [body EXCEPT !.locals = arguments \o @, !.failed = @ \/ HasDuplicates(method.names)]

(***************************************************************************)
(* Instructions.  A jump and a closure carry the distance to their label   *)
(* in instructions, a send and a literal the object the literal array      *)
(* would hold.                                                             *)
(***************************************************************************)
Code(op, a, b, to, oop) == [op |-> op, a |-> a, b |-> b, to |-> to, oop |-> oop]
SingleBytecode(op)      == <<Code(op, 0, 0, 0, nil)>>
Indexed(op, a)          == <<Code(op, a, 0, 0, nil)>>
InVector(op, index, vector) == <<Code(op, index, vector, 0, nil)>>
JumpTo(op, distance)    == <<Code(op, 0, 0, distance, nil)>>
Label == SingleBytecode("Label")
Unimplemented == SingleBytecode("Unimplemented")

One == encodeSmallInteger(1)
SingleLiterals == {nil, true, false, One, encodeSmallInteger(0)}
pushLiteral(oop) ==
  <<Code(IF oop \in SingleLiterals THEN "PushConstant" ELSE "PushLiteral", 0, 0, 0, oop)>>

SpecialMessageOptimized ==
  ArithmeticMessages \cup
  {"@", "at:", "at:put:", "size", "next", "nextPut:", "atEnd", "==", "class", "value", "value:", "do:",
   "new", "new:", "x", "y"}
send(selector, argumentCount) ==
  <<Code(IF selector \in SpecialMessageOptimized THEN "SpecialMessage" ELSE "Send",
         argumentCount, 0, 0, Symbol(selector))>>
superSend(selector, argumentCount) == <<Code("SuperSend", argumentCount, 0, 0, Symbol(selector))>>

Returns == {"ReturnReceiver", "ReturnTop", "BlockReturnNil", "BlockReturnTop"}
isLastReturn(code) == code # << >> /\ Last(code).op \in Returns

(***************************************************************************)
(* Generation.  The environment holds the results of the analysis, the     *)
(* number of arguments of the method or block at hand and its path, how    *)
(* many vectors a block would copy (temporalVectorCount), and the place of *)
(* each temporal variable: its index, and its vector or -1.                *)
(***************************************************************************)
Environment(sem, context, arguments, vectors, places) ==
  [sem |-> sem, context |-> context, arguments |-> arguments, vectors |-> vectors, places |-> places]
Place(index, vector) == [index |-> index, vector |-> vector]

LiteralVariableLookup(op, variable)  == <<Code(op, 0, 0, 0, Symbol(variable.name))>>
InstanceVariableLookup(op, variable) == Indexed(op, variable.index)

\* A variable in a vector is reached through the temporary that holds the vector.
TemporalVariableLookup(op, opInVector, variable, env) ==
  LET place == env.places[variable] IN
  IF place.vector >= 0 THEN InVector(opInVector, place.index, place.vector + env.arguments)
  ELSE Indexed(op, place.index)

generateLoad(variable, env) ==
  CASE variable.kind = "literal"  -> LiteralVariableLookup("PushLiteralVariable", variable)
    [] variable.kind = "instance" -> InstanceVariableLookup("PushReceiverVariable", variable)
    [] variable.kind = "temporal" ->
         TemporalVariableLookup("PushTemporal", "PushTemporalInVector", variable, env)

generateStore(variable, env) ==
  CASE variable.kind = "literal"  -> LiteralVariableLookup("StoreLiteralVariable", variable)
    [] variable.kind = "instance" -> InstanceVariableLookup("StoreReceiverVariable", variable)
    [] variable.kind = "temporal" ->
         TemporalVariableLookup("StoreTemporal", "StoreTemporalInVector", variable, env)

RECURSIVE Generate(_, _, _)

\* The code of some nodes, one after the other.
GenerateAll(nodes, path, env) ==
  FoldLeft(LAMBDA code, k : code \o Generate(nodes[k], path \o <<k>>, env),
           << >>, [k \in DOMAIN nodes |-> k])

VisitAssignmentExpression(node, path, env) ==
  Generate(node.kids[2], path \o <<2>>, env) \o generateStore(env.sem.bindings[path \o <<1>>], env)

VisitSequenceNode(node, path, env) ==
  FoldLeft(LAMBDA code, k : code \o (IF k = 1 THEN << >> ELSE SingleBytecode("PopStackTop"))
                                 \o Generate(node.kids[k], path \o <<k>>, env),
           << >>, [k \in DOMAIN node.kids |-> k])

Captured(locals, sem) == {i \in DOMAIN locals : locals[i] \in sem.captured}
Before(positions, i)  == Cardinality({j \in positions : j < i})

\* Where the variables of a block live: captured ones in the vector that the
\* block makes, which the outer vectors precede; others follow the copied values.
BlockPlaces(locals, arguments, sem, vectors) ==
  LET captured == Captured(locals, sem)
      copied == vectors + (IF captured = {} THEN 0 ELSE 1)
      own == DOMAIN locals \ (captured \cup 1..arguments) IN
  [v \in ToSet(locals) |->
     LET i == CHOOSE i \in DOMAIN locals : locals[i] = v IN
     IF i \in captured THEN Place(Before(captured, i), vectors)
     ELSE IF i <= arguments THEN Place(i - 1, -1)
     ELSE Place(arguments + copied + Before(own, i), -1)]

\* The index of a variable of a method counts those before it that are captured
\* too, while temporalCount, the size of the frame, does not.
MethodPlaces(locals, arguments, sem) ==
  LET captured == Captured(locals, sem)
      vectors == IF captured = {} THEN 0 ELSE 1 IN
  [v \in ToSet(locals) |->
     LET i == CHOOSE i \in DOMAIN locals : locals[i] = v IN
     IF i \in captured THEN Place(Before(captured, i), 0)
     ELSE IF i <= arguments THEN Place(i - 1, -1)
     ELSE Place(i - 1 + vectors, -1)]

\* The vector for captured variables, stored into the temporary at, and the
\* captured arguments moved into the vector that the temporary vector holds.
NewVector(locals, arguments, captured, at, vector) ==
  IF captured = {} THEN << >>
  ELSE Indexed("PushArray", Cardinality(captured)) \o Indexed("PopStoreTemporal", at)
       \o FlattenSeq([i \in 1..arguments |->
            IF i \in captured
            THEN Indexed("PushTemporal", i - 1)
                   \o InVector("PopStoreTemporalInVector", Before(captured, i), vector)
            ELSE << >>])

\* The body of a block and its return, and the closure that begins there.
BlockCode(vector, body) ==
  vector \o body
    \o (IF isLastReturn(vector \o body) THEN << >>
        ELSE SingleBytecode(IF body = << >> THEN "BlockReturnNil" ELSE "BlockReturnTop"))
pushClosure(copied, arguments, code) ==
  <<Code("PushClosure", copied, arguments, Len(code) + 1, nil)>> \o code \o Label

\* The outer vectors and room for the locals are copied into the closure.  The
\* block's own arguments are not added to the index of its vector when its
\* captured arguments are moved.
NewBlock(node, path, env, locals, captured) ==
  LET arguments == Len(node.names)
      vectors == env.vectors + (IF captured = {} THEN 0 ELSE 1)
      own == Cardinality(DOMAIN locals \ (captured \cup 1..arguments))
      numLocals == own + (IF captured = {} THEN 0 ELSE 1)
      outer == FlattenSeq([i \in 1..env.vectors |-> Indexed("PushTemporal", env.arguments + i - 1)])
      temps == IF numLocals = 0 THEN << >> ELSE Indexed("PushNClosureTemps", numLocals)
      inner == Environment(env.sem, path, arguments, vectors,
                           BlockPlaces(locals, arguments, env.sem, env.vectors) @@ env.places) IN
  outer \o temps
    \o pushClosure(env.vectors + numLocals, arguments,
                   BlockCode(NewVector(locals, arguments, captured, arguments + vectors - 1, env.vectors),
                             Generate(node.kids[1], path \o <<1>>, inner)))

VisitBlockExpression(node, path, env) ==
  IF path \in env.sem.inlined THEN Generate(node.kids[1], path \o <<1>>, env)
  ELSE NewBlock(node, path, env, env.sem.blocks[path], Captured(env.sem.blocks[path], env.sem))

(***************************************************************************)
(* Inlined messages.                                                       *)
(***************************************************************************)
\* A branch that is no block is evaluated with value.
Branch(node, k, path, env) ==
  Generate(node.kids[k], path \o <<k>>, env)
    \o (IF isBlockExpression(node.kids[k]) THEN << >> ELSE send("value", 0))

\* The jump over the code for the value, by a test of the condition.
JumpUnless(value, negated, distance) ==
  CASE value = true  -> JumpTo("JumpOnFalse", distance)
    [] value = false -> JumpTo("JumpOnTrue", distance)
    [] OTHER -> pushLiteral(value) \o send("==", 1)
                  \o JumpTo(IF negated THEN "JumpOnTrue" ELSE "JumpOnFalse", distance)

Conditional(condition, jump(_), then, else) ==
  condition \o jump(Len(then) + 2) \o then \o JumpTo("Jump", Len(else) + 2) \o Label \o else \o Label

generateIfElse(node, path, env, trueValue, negated) ==
  Conditional(Generate(node.kids[1], path \o <<1>>, env),
              LAMBDA distance : JumpUnless(trueValue, negated, distance),
              Branch(node, 2, path, env),
              IF Len(node.kids) = 3 THEN Branch(node, 3, path, env) ELSE pushLiteral(nil))

WhileLoop(condition, jump(_), body) ==
  Label \o condition \o jump(Len(body) + 3) \o body \o SingleBytecode("PopStackTop")
    \o JumpTo("Jump", -(Len(condition) + Len(body) + 3)) \o Label \o pushLiteral(nil)

\* Faulty variant: the value of the body is not popped.
WhileKeepsValues(node, path, env, trueValue) ==
  LET condition == Generate(node.kids[1], path \o <<1>>, env)
      body == Generate(node.kids[2], path \o <<2>>, env) IN
  Label \o condition \o JumpUnless(trueValue, FALSE, Len(body) + 2) \o body
    \o JumpTo("Jump", -(Len(condition) + Len(body) + 2)) \o Label \o pushLiteral(nil)

\* A body that is no block is not evaluated.
generateWhile(node, path, env, trueValue) ==
  WhileLoop(Generate(node.kids[1], path \o <<1>>, env),
            LAMBDA distance : JumpUnless(trueValue, FALSE, distance),
            Generate(node.kids[2], path \o <<2>>, env))

ToDoLoop(test, body) ==
  Label \o test \o JumpTo("JumpOnFalse", Len(body) + 2)
    \o body \o JumpTo("Jump", -(Len(test) + Len(body) + 2)) \o Label \o SingleBytecode("PopStackTop")

\* The first value stays below the last one while the loop runs, and is what
\* the loop answers.
generateToDo(node, path, env) ==
  LET iteration == Declared(node.kids[3].names, path \o <<3>>, env.context)[1]
      load == generateLoad(iteration, env)
      store == generateStore(iteration, env)
      pop == SingleBytecode("PopStackTop") IN
  Generate(node.kids[1], path \o <<1>>, env) \o store \o Generate(node.kids[2], path \o <<2>>, env)
    \o ToDoLoop(SingleBytecode("DuplicateStackTop") \o load \o send(">=", 1),
                Generate(node.kids[3], path \o <<3>>, env) \o pop
                  \o load \o pushLiteral(One) \o send("+", 1) \o store \o pop)

\* The value that the inlined message tests for.
TestedValue(selector) ==
  CASE selector \in {"ifTrue:", "ifTrue:ifFalse:", "whileTrue:"}    -> true
    [] selector \in {"ifFalse:", "ifFalse:ifTrue:", "whileFalse:"}  -> false
    [] OTHER -> nil

generateOptimizedMessage(node, path, env) ==
  CASE node.name \in Ifs \cup IfElses ->
         generateIfElse(node, path, env, TestedValue(node.name), node.name \in {"ifNotNil:", "ifNotNil:ifNil:"})
    [] node.name \in Whiles      -> generateWhile(node, path, env, TestedValue(node.name))
    [] node.name = "to:do:"      -> generateToDo(node, path, env)
    [] node.name = "to:by:do:"   -> Unimplemented

\* Every message of a cascade but the last answers to a copy of the receiver.
VisitMessageSendNode(node, path, env) ==
  LET last == Len(node.chain)
      Arguments(i) == IF i = 0 THEN FlattenSeq([k \in 1..Len(node.kids) - 1 |->
                                      Generate(node.kids[k + 1], path \o <<k + 1>>, env)])
                      ELSE GenerateAll(node.chain[i].kids, path \o <<0, i>>, env)
      Message(i) == IF i = 0 THEN <<node.name, Len(node.kids) - 1>>
                    ELSE <<node.chain[i].name, Len(node.chain[i].kids)>>
      Sent(i) == (IF i = 0 THEN << >> ELSE SingleBytecode("PopStackTop"))
                   \o (IF i = last THEN << >> ELSE SingleBytecode("DuplicateStackTop"))
                   \o Arguments(i)
                   \o (IF isSuperReference(node.kids[1])
                       THEN superSend(Message(i)[1], Message(i)[2])
                       ELSE send(Message(i)[1], Message(i)[2])) IN
  IF isOptimized(node) THEN generateOptimizedMessage(node, path, env)
  ELSE Generate(node.kids[1], path \o <<1>>, env)
         \o FlattenSeq([i \in 1..last + 1 |-> Sent(i - 1)])

Generate(node, path, env) ==
  CASE node.kind = "literal"     -> pushLiteral(node.value)
    [] node.kind = "identifier"  -> generateLoad(env.sem.bindings[path], env)
    [] node.kind \in {"self", "super"} -> SingleBytecode("PushReceiver")
    [] node.kind = "thisContext" -> SingleBytecode("PushThisContext")
    [] node.kind = "assignment"  -> VisitAssignmentExpression(node, path, env)
    [] node.kind = "sequence"    -> VisitSequenceNode(node, path, env)
    [] node.kind = "block"       -> VisitBlockExpression(node, path, env)
    [] node.kind = "send"        -> VisitMessageSendNode(node, path, env)
    [] node.kind = "return"      -> Generate(node.kids[1], path \o <<1>>, env) \o SingleBytecode("ReturnTop")

(***************************************************************************)
(* Assembling.  A jump over nothing has no size: neither the jump nor the  *)
(* pop of its condition is left (computeBetterSize).                       *)
(***************************************************************************)
WithoutEmptyJumps(code) ==
  LET sizeless[i \in DOMAIN code] ==
        \/ code[i].op = "Label"
        \/ /\ code[i].op \in {"Jump", "JumpOnTrue", "JumpOnFalse"}
           /\ code[i].to > 0
           /\ \A j \in i + 1..i + code[i].to - 1 : sizeless[j] IN
  [i \in DOMAIN code |-> IF sizeless[i] THEN Label[1] ELSE code[i]] \o << >>

Method(selector, arguments, temporals, code, failed) ==
  [selector |-> selector, arguments |-> arguments, temporals |-> temporals, code |-> code,
   failed |-> failed]

\* Instructions that abort the compiler.
Aborting == {"Unimplemented", "SuperSend"}

Assembled(ast, temporals, body) ==
  LET ended == IF isLastReturn(body) THEN body ELSE body \o SingleBytecode("ReturnReceiver") IN
  Method(ast.name, Len(ast.names), temporals, WithoutEmptyJumps(ended),
         \E i \in DOMAIN body : body[i].op \in Aborting)

PrimitiveCalls(pragmas) ==
  FlattenSeq([i \in DOMAIN pragmas |-> Indexed("CallPrimitive", pragmas[i].value.value)])

VisitMethodAST(ast, sem, captured) ==
  LET arguments == Len(ast.names)
      vectors == IF captured = {} THEN 0 ELSE 1
      own == DOMAIN sem.locals \ (captured \cup 1..arguments)
      env == Environment(sem, << >>, arguments, vectors, MethodPlaces(sem.locals, arguments, sem)) IN
  IF sem.failed THEN Method(ast.name, arguments, 0, << >>, TRUE)
  ELSE Assembled(ast, vectors + Cardinality(own),
                 PrimitiveCalls(ast.chain) \o NewVector(sem.locals, arguments, captured, arguments, arguments)
                   \o Generate(ast.kids[1], <<1>>, env))

CompileAnalyzed(ast, sem) == VisitMethodAST(ast, sem, Captured(sem.locals, sem))
compileMethod(ast, class) == CompileAnalyzed(ast, AnalyzeMethod(ast, class))
=============================================================================
