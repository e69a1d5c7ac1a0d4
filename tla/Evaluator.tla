------------------------------ MODULE Evaluator ------------------------------
(***************************************************************************)
(* What the programs of the interpreter mean: a direct evaluation of their *)
(* syntax trees over a store of variables and objects.  It knows neither   *)
(* frames nor temporaries nor instructions; the properties of Execution    *)
(* compare it with what the compiler and the interpreter do.               *)
(*                                                                         *)
(* The outcome "undefined" stands for every program without a meaning to   *)
(* compare with: numbers that do not fit beside the tag, messages that     *)
(* nothing answers, and the cases named below in which the code is known   *)
(* to compute something else.                                              *)
(***************************************************************************)
EXTENDS Loader

CONSTANT Fuel \* sends and iterations before the evaluation gives up

(***************************************************************************)
(* The store, the variables that can be seen, and values.                  *)
(***************************************************************************)
InitialStore(source) ==
  [source |-> source, cells |-> << >>, heap |-> << >>, globals |-> InitialMachine.globals, value |-> nil,
   outcome |-> "value", fuel |-> Fuel]
Give(st, value) == [st EXCEPT !.value = value]
Ok(st)          == st.outcome = "value"
Undefined(st)   == [st EXCEPT !.outcome = "undefined"]
Burn(st)        == IF st.fuel = 0 THEN Undefined(st) ELSE [st EXCEPT !.fuel = @ - 1]

EvaluationEnvironment(seen, self, class, inBlock) ==
  [vars |-> seen, self |-> self, class |-> class, inBlock |-> inBlock]

\* New variables with values, and the scope that sees them.
Declare(st, env, names, values) ==
  [st  |-> [st EXCEPT !.cells = @ \o values],
   env |-> [env EXCEPT !.vars = [n \in ToSet(names) |->
              Len(st.cells) + CHOOSE i \in DOMAIN names : names[i] = n] @@ @]]

New(st, object) == [st EXCEPT !.heap = Append(@, object), !.value = Pointer(Len(st.heap) + 1)]
Instance(class, slots, elements) ==
  [class |-> class, slots |-> slots, elements |-> elements, node |-> SelfReference,
   env |-> EvaluationEnvironment(<< >>, nil, "", FALSE)]
Closure(node, env) == [Instance("BlockClosure", << >>, << >>) EXCEPT !.node = node, !.env = env]

ClassOfValue(st, oop) == classIndexOf(st, oop)

(***************************************************************************)
(* Numbers.                                                                *)
(***************************************************************************)
NoNumber == Word("none", 0, "")
Whole(n)   == IF Representable(n) THEN Word("int", n, "") ELSE NoNumber
\* A float that is zero has no representation that keeps it.
Real(quarters) == IF quarters = 0 THEN NoNumber ELSE Word("float", quarters, "")

Floor(a, b) == IF b < 0 THEN (-a) \div (-b) ELSE a \div b

\* Quotients of a non-negative by a negative number are wrong where the code
\* rounds them down itself, and a product with zero divides by zero.
WrongQuotient(a, b) == a >= 0 /\ b < 0

IntegerMeaning(message, a, b) ==
  CASE message = "+" -> Whole(a + b)
    [] message = "-" -> Whole(a - b)
    [] message = "*" -> IF b = 0 THEN NoNumber ELSE Whole(a * b)
    [] message = "/" -> IF b = 0 \/ WrongQuotient(a, b) THEN NoNumber
                        ELSE IF a # b * Floor(a, b) THEN NoNumber ELSE Whole(Floor(a, b))
    [] message = "//" -> IF b = 0 \/ WrongQuotient(a, b) THEN NoNumber ELSE Whole(Floor(a, b))
    [] message = "\\\\" -> IF b = 0 THEN NoNumber ELSE Whole(a - b * Floor(a, b))
    [] message = "quo:" -> IF b = 0 THEN NoNumber
                           ELSE Whole(IF (a < 0) = (b < 0) THEN Abs(a) \div Abs(b) ELSE -(Abs(a) \div Abs(b)))
    [] message = "bitShift:" -> IF b >= 0 THEN Whole(a * Pow2(Min({b, WordBits})))
                                ELSE IF b <= -WordBits THEN NoNumber ELSE Whole(a \div Pow2(-b))
    [] message = "bitAnd:" -> Whole(FromBits({i \in Bits(a, WordBits) : i \in Bits(b, WordBits)}, WordBits))
    [] message = "bitOr:"  -> Whole(FromBits(Bits(a, WordBits) \cup Bits(b, WordBits), WordBits))
    [] message = "bitXor:" -> Whole(FromBits({i \in 0..WordBits - 1 :
                                              (i \in Bits(a, WordBits)) # (i \in Bits(b, WordBits))}, WordBits))
    [] message \in Orderings \cup Equalities -> Boolean(Compare(message, a, b))

FloatMeaning(message, a, b) ==
  CASE message = "+" -> Real(a + b)
    [] message = "-" -> Real(a - b)
    [] message = "*" -> IF (a * b) % 4 # 0 THEN NoNumber ELSE Real((a * b) \div 4)
    [] message = "/" -> IF b = 0 THEN NoNumber
                        ELSE IF (4 * a) # b * Floor(4 * a, b) THEN NoNumber ELSE Real(Floor(4 * a, b))
    [] message = "//" -> IF b = 0 THEN NoNumber ELSE Real(4 * Floor(a, b))
    [] message = "\\\\" -> IF b = 0 THEN NoNumber ELSE Real(a - b * Floor(a, b))
    [] message \in Orderings \cup Equalities -> Boolean(Compare(message, a, b))
    [] OTHER -> NoNumber

CharacterMeaning(message, a, b) ==
  CASE message \in Orderings \cup Equalities -> Boolean(Compare(message, a, b))
    [] message = "+" -> Word("char", a + b, "")
    [] message = "-" -> Word("char", a - b, "")
    [] OTHER -> NoNumber

NumberMessage(message, a, b) ==
  \/ message \in ToSet(IntegerMessages) /\ Integers2(a, b)
  \/ message \in ArithmeticMessages /\ (Floats2(a, b) \/ Characters2(a, b))
NumberMeaning(message, a, b) ==
  IF Integers2(a, b) THEN IntegerMeaning(message, a.value, b.value)
  ELSE IF Characters2(a, b) THEN CharacterMeaning(message, a.value, b.value)
  ELSE FloatMeaning(message, decodeFloatOrInt(a), decodeFloatOrInt(b))

(***************************************************************************)
(* Methods: those of the program, each for the class its tree names, and   *)
(* the native ones that the reference knows.                               *)
(***************************************************************************)
MethodsFor(source, class, selector) ==
  {k \in DOMAIN source.methods : /\ source.methods[k].value = ClassOop(class)
                               /\ source.methods[k].name = selector}
IsNative(class, selector) ==
  class \in DOMAIN NativeMethods /\ selector \in DOMAIN NativeMethods[class]

\* The class that answers a message, "" when there is none.
RECURSIVE Find(_, _, _)
Find(source, class, selector) ==
  IF class = "" \/ MethodsFor(source, class, selector) # {} \/ IsNative(class, selector) THEN class
  ELSE Find(source, Superclass[class], selector)

EvalNative(st, selector, receiver, arguments) ==
  CASE selector = "=="    -> Give(st, Boolean(receiver = arguments[1]))
    [] selector = "class" -> Give(st, ClassOop(ClassOfValue(st, receiver)))
    [] selector = "basicNew" -> New(st, Instance(receiver.name, Nils(InstanceCount(receiver.name)), << >>))
    [] selector = "basicNew:" /\ arguments[1].tag = "int" ->
         IF arguments[1].value < 0 THEN Undefined(st)
         ELSE New(st, Instance(receiver.name, Nils(InstanceCount(receiver.name)), Nils(arguments[1].value)))
    [] selector = "basicSize" /\ ClassOfValue(st, receiver) = "Array" ->
         Give(st, Whole(Len(st.heap[receiver.value].elements)))
    [] selector = "asFloat" /\ receiver.tag = "int" /\ receiver.value # 0 -> Give(st, Real(4 * receiver.value))
    [] selector = "truncated" /\ receiver.tag = "float" ->
         Give(st, Whole(IF receiver.value < 0 THEN -((-receiver.value) \div 4) ELSE receiver.value \div 4))
    [] OTHER -> Undefined(st)

\* A method that begins with a primitive answers what the primitive computes;
\* when it fails, the body runs with the error code in its first temporary.
\* Accesses to elements fail and leave a word on the stack, and comparisons of
\* the class Float answer floats: they have no meaning here.
PrimitiveFails(number, a, arguments) ==
  LET b == arguments[1] IN
  CASE number \in 1..17 \cup 41..50 /\ Len(arguments) # 1 -> TRUE
    [] number \in 1..17 -> \/ ~Integers2(a, b)
                           \/ number \in {10, 11, 12, 13} /\ b.value = 0
                           \/ number = 10 /\ CRemainder(a.value, b.value) # 0
    [] number \in 41..50 -> ~(isFloatOrInt(a) /\ isFloatOrInt(b))
    [] OTHER -> FALSE
PrimitiveMeaning(st, number, a, arguments) ==
  CASE number \in 1..17 -> Give(st, IntegerMeaning(IntegerMessages[number], a.value, arguments[1].value))
    [] number \in {41, 42, 49, 50} ->
         Give(st, FloatMeaning(NumberMessages[number - 40], decodeFloatOrInt(a), decodeFloatOrInt(arguments[1])))
    [] number \in {62, 110, 111, 70, 71, 40, 51} ->
         LET selector == CASE number = 62 -> "basicSize" [] number = 110 -> "==" [] number = 111 -> "class"
                           [] number = 70 -> "basicNew" [] number = 71 -> "basicNew:"
                           [] number = 40 -> "asFloat" [] number = 51 -> "truncated" IN
         EvalNative(st, selector, a, arguments)
    [] OTHER -> Undefined(st)

RECURSIVE Eval(_, _, _), EvalSend(_, _, _, _, _)

\* The value of a method is that of a return, or its receiver.
EvalBody(st, ast, class, receiver, arguments, errorCode) ==
  LET env == EvaluationEnvironment(<< >>, receiver, class, FALSE)
      bound == Declare(st, env, ast.names, arguments)
      body == ast.kids[1]
      locals == Declare(bound.st, bound.env, body.names,
                        [i \in DOMAIN body.names |-> IF i = 1 THEN errorCode ELSE nil])
      done == Eval([body EXCEPT !.names = << >>], locals.env, locals.st) IN
  CASE done.outcome = "return" -> [done EXCEPT !.outcome = "value"]
    [] done.outcome = "value"  -> Give(done, receiver)
    [] OTHER -> done

EvalMethod(st, k, class, receiver, arguments) ==
  LET ast == st.source.methods[k]
      number == IF ast.chain = << >> THEN 0 ELSE ast.chain[1].value.value IN
  IF number \notin DOMAIN NumberedPrimitives THEN EvalBody(st, ast, class, receiver, arguments, nil)
  ELSE IF PrimitiveFails(number, receiver, arguments)
  THEN EvalBody(st, ast, class, receiver, arguments, Whole(-1))
  ELSE PrimitiveMeaning(st, number, receiver, arguments)

\* A return from a block has no meaning here: the code does not implement it.
EvalBlock(st, closure, arguments) ==
  LET bound == Declare(st, closure.env, closure.node.names, arguments) IN
  Eval(closure.node.kids[1], [bound.env EXCEPT !.inBlock = TRUE], bound.st)

(***************************************************************************)
(* Messages.                                                               *)
(***************************************************************************)
EvalSend(state, selector, receiver, arguments, isSuper) ==
  LET st == Burn(state)
      class == ClassOfValue(st, receiver)
      found == Find(st.source, class, selector)
      handler == Find(st.source, class, "doesNotUnderstand:")
      array == New(st, Instance("Array", << >>, arguments))
      message == New(array, Instance("Message", <<Symbol(selector), array.value, ClassOop(class)>>, << >>)) IN
  IF ~Ok(st) \/ isSuper THEN Undefined(st)
  ELSE IF Len(arguments) = 1 /\ NumberMessage(selector, receiver, arguments[1])
  THEN Give(st, NumberMeaning(selector, receiver, arguments[1]))
  ELSE IF selector \in {"==", "class"} THEN EvalNative(st, selector, receiver, arguments)
  ELSE IF class = "BlockClosure" /\ selector \in ToSet(BlockActivationSelectors)
  THEN IF Len(st.heap[receiver.value].node.names) = Len(arguments)
       THEN EvalBlock(st, st.heap[receiver.value], arguments) ELSE Undefined(st)
  ELSE IF found # ""
  THEN IF MethodsFor(st.source, found, selector) = {} THEN EvalNative(st, selector, receiver, arguments)
       ELSE EvalMethod(st, Max(MethodsFor(st.source, found, selector)), found, receiver, arguments)
  ELSE IF handler = "" THEN Undefined(st)
  ELSE EvalMethod(message, Max(MethodsFor(st.source, handler, "doesNotUnderstand:")), handler, receiver,
                  <<message.value>>)

\* The values of some nodes in order; the result is a store with a sequence.
RECURSIVE EvalArguments(_, _, _, _)
EvalArguments(nodes, env, st, values) ==
  IF nodes = << >> \/ ~Ok(st) THEN [st |-> st, values |-> values]
  ELSE LET next == Eval(Head(nodes), env, st) IN
       EvalArguments(Tail(nodes), env, next, Append(values, next.value))

EvalMessages(node, env, st) ==
  LET receiver == Eval(node.kids[1], env, st)
      Reply(done, message) ==
        LET evaluated == EvalArguments(message.arguments, env, done, << >>) IN
        IF ~Ok(evaluated.st) THEN evaluated.st
        ELSE EvalSend(evaluated.st, message.selector, receiver.value, evaluated.values,
                      isSuperReference(node.kids[1])) IN
  IF ~Ok(receiver) THEN receiver
  ELSE FoldLeft(LAMBDA done, message : IF Ok(done) THEN Reply(done, message) ELSE done,
                receiver, Messages(node))

\* A branch: the body of a block, or an expression that is asked for its value.
EvalBranch(node, env, st) ==
  IF isBlockExpression(node) THEN Eval(node.kids[1], env, st)
  ELSE LET done == Eval(node, env, st) IN
       IF Ok(done) THEN EvalSend(done, "value", done.value, << >>, FALSE) ELSE done

\* ifNil: answers nil instead of a receiver that is not nil in the code.
EvalIf(node, env, st) ==
  LET condition == Eval(node.kids[1], env, st)
      forTrue == node.name \in {"ifTrue:", "ifTrue:ifFalse:"}
      aboutNil == node.name \in {"ifNil:", "ifNotNil:", "ifNil:ifNotNil:", "ifNotNil:ifNil:"}
      first == IF aboutNil
               THEN (condition.value = nil) = (node.name \in {"ifNil:", "ifNil:ifNotNil:"})
               ELSE condition.value = Boolean(forTrue) IN
  IF ~Ok(condition) THEN condition
  ELSE IF ~aboutNil /\ condition.value \notin {true, false} THEN Undefined(condition)
  ELSE IF first THEN EvalBranch(node.kids[2], env, condition)
  ELSE IF Len(node.kids) = 3 THEN EvalBranch(node.kids[3], env, condition)
  ELSE IF node.name = "ifNil:" THEN Undefined(condition)
  ELSE Give(condition, nil)

RECURSIVE Loop(_, _, _, _)
Loop(node, env, st, value) ==
  LET condition == Eval(node.kids[1].kids[1], env, Burn(st)) IN
  IF ~Ok(st) \/ ~Ok(condition) THEN condition
  ELSE IF condition.value \notin {true, false} THEN Undefined(condition)
  ELSE IF condition.value # value THEN Give(condition, nil)
  ELSE LET body == Eval(node.kids[2].kids[1], env, condition) IN
       IF Ok(body) THEN Loop(node, env, body, value) ELSE body

\* One variable for all the iterations; the loop answers the first value.
RECURSIVE Steps(_, _, _, _, _)
Steps(node, env, st, cell, bounds) ==
  LET i == st.cells[cell]
      body == Eval(node.kids[3].kids[1], env, Burn(st)) IN
  IF i.tag # "int" THEN Undefined(st)
  ELSE IF i.value > bounds[2].value THEN Give(st, bounds[1])
  ELSE IF ~Ok(body) THEN body
  ELSE IF body.cells[cell].tag # "int" THEN Undefined(st)
  ELSE Steps(node, env, [body EXCEPT !.cells[cell].value = @ + 1], cell, bounds)

EvalToDo(node, env, st) ==
  LET bounds == EvalArguments(<<node.kids[1], node.kids[2]>>, env, st, << >>)
      loop == Declare(bounds.st, env, node.kids[3].names, <<bounds.values[1]>>) IN
  IF ~Ok(bounds.st) THEN bounds.st
  ELSE IF \E v \in ToSet(bounds.values) : v.tag # "int" THEN Undefined(st)
  ELSE Steps(node, loop.env, loop.st, Len(loop.st.cells), bounds.values)

EvalMessage(node, env, st) ==
  CASE ~isOptimized(node) -> EvalMessages(node, env, st)
    [] node.name \in Ifs \cup IfElses -> EvalIf(node, env, st)
    [] node.name \in Whiles /\ isBlockExpression(node.kids[2]) ->
         Loop(node, env, st, Boolean(node.name = "whileTrue:"))
    [] node.name = "to:do:" -> EvalToDo(node, env, st)
    [] OTHER -> Undefined(st)

(***************************************************************************)
(* Nodes.                                                                  *)
(***************************************************************************)
EvalIdentifier(name, env, st) ==
  LET index == findInstanceVariable(env.class, name) IN
  IF name \in DOMAIN env.vars THEN Give(st, st.cells[env.vars[name]])
  ELSE IF index >= 0
  THEN IF env.self.tag = "pointer" THEN Give(st, st.heap[env.self.value].slots[index + 1]) ELSE Undefined(st)
  ELSE IF name \in GlobalNames THEN Give(st, st.globals[name]) ELSE Undefined(st)

EvalAssignment(name, env, st) ==
  LET index == findInstanceVariable(env.class, name) IN
  IF ~Ok(st) THEN st
  ELSE IF name \in DOMAIN env.vars THEN [st EXCEPT !.cells[env.vars[name]] = st.value]
  ELSE IF index >= 0
  THEN IF env.self.tag = "pointer" THEN [st EXCEPT !.heap[env.self.value].slots[index + 1] = st.value]
       ELSE Undefined(st)
  ELSE IF name \in GlobalNames THEN [st EXCEPT !.globals[name] = st.value] ELSE Undefined(st)

EvalSequence(node, env, st) ==
  LET locals == Declare(Give(st, nil), env, node.names, Nils(Len(node.names))) IN
  FoldLeft(LAMBDA done, k : IF Ok(done) THEN Eval(node.kids[k], locals.env, done) ELSE done,
           locals.st, [k \in DOMAIN node.kids |-> k])

\* A value that is no number is where a number was too large.
Checked(st) == IF Ok(st) /\ st.value = NoNumber THEN Undefined(st) ELSE st

Eval(node, env, st) ==
  IF ~Ok(st) THEN st
  ELSE Checked(
    CASE node.kind = "literal"     -> Give(st, node.value)
      [] node.kind \in {"self", "super"} -> Give(st, env.self)
      [] node.kind = "thisContext" -> New(st, Instance("Context", << >>, << >>))
      [] node.kind = "identifier"  -> EvalIdentifier(node.name, env, st)
      [] node.kind = "assignment"  -> EvalAssignment(node.kids[1].name, env, Eval(node.kids[2], env, st))
      [] node.kind = "sequence"    -> EvalSequence(node, env, st)
      [] node.kind = "block"       -> New(st, Closure(node, env))
      [] node.kind = "send"        -> EvalMessage(node, env, st)
      [] node.kind = "return"      -> LET done == Eval(node.kids[1], env, st) IN
                                      IF env.inBlock THEN Undefined(done)
                                      ELSE IF Ok(done) THEN [done EXCEPT !.outcome = "return"] ELSE done)

\* What main answers, once the files have installed the methods.
MeaningOf(source) == EvalSend(InitialStore(source), "main", ClassOop("GlobalContext"), << >>, FALSE)

\* Files that install methods and run other files, each method for the class
\* that the statement before names.
Installs(source, file, k) ==
  LET statement == file.kids[k]
      argument == statement.kids[2] IN
  /\ statement.kind = "send" /\ statement.chain = << >> /\ statement.kids[1].kind = "self"
  /\ \/ statement.name = "class:" /\ argument.kind = "identifier" /\ argument.name \in GlobalNames
     \/ statement.name = "function:" /\ argument.kind = "literal" /\ argument.value.tag = "ast"
     \/ /\ statement.name = "method:" /\ argument.kind = "literal" /\ argument.value.tag = "ast"
        /\ k > 1 /\ file.kids[k - 1].kind = "send" /\ file.kids[k - 1].name = "class:"
     \/ /\ statement.name = "executeFileNamed:" /\ argument.kind = "literal" /\ argument.value.tag = "file"
        /\ argument.value.value \in DOMAIN source.files
FileInstalls(source, file) == /\ file.kind = "sequence" /\ file.names = << >> /\ file.kids # << >>
                         /\ \A k \in DOMAIN file.kids : Installs(source, file, k)

InstallsItsMethods(source) ==
  \A f \in DOMAIN source.files : FileInstalls(source, source.files[f])
=============================================================================
