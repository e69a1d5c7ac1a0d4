--------------------------- MODULE SourcePrograms ---------------------------
(***************************************************************************)
(* Programs for the interpreter: methods of samples/test.lodtalk and of    *)
(* the runtime, all sequences of some statements about variables and       *)
(* blocks, all pairs of numbers at the limits, and what goes wrong.        *)
(***************************************************************************)
EXTENDS Syntax, Image, SequencesExt

\* Abbreviations for syntax trees.
I(n)      == LiteralNode(Word("int", n, ""))
F(q)      == LiteralNode(Word("float", q, ""))
C(n)      == LiteralNode(Word("char", n, ""))
Lit(oop)  == LiteralNode(oop)
ScriptHandle(k) == Lit(Word("ast", k, "")) \* the k-th method of the program
V(name)   == IdentifierExpression(name)
Set(name, value) == AssignmentExpression(V(name), value)
Send(r, selector, arguments) == MessageSendNode(r, selector, arguments, << >>)
Un(r, selector)     == Send(r, selector, << >>)
Bin(r, selector, a) == Send(r, selector, <<a>>)
Block(arguments, statements) == BlockExpression(arguments, SequenceNode(<< >>, statements))
Do(statements)  == Block(<< >>, statements)
Self     == SelfReference
Return(e) == ReturnStatement(e)
Def(class, selector, arguments, locals, statements) ==
  MethodAST(class, selector, arguments, << >>, SequenceNode(locals, statements))
Primitive1(class, selector, number, arguments, statements) ==
  MethodAST(class, selector, arguments, <<PragmaDefinition(number)>>, SequenceNode(<< >>, statements))
Global == Metaclass("GlobalContext")
Main(locals, statements) == Def(Global, "main", << >>, locals, statements)
Answering(e) == Main(<< >>, <<Return(e)>>)

\* The script that installs the methods: self class: C. self method: ast, or
\* self function: ast.
Install(methods) ==
  FlattenSeq([k \in DOMAIN methods |->
    LET ast == ScriptHandle(k)
        class == methods[k].value.name IN
    IF class = Global THEN <<Bin(Self, "function:", ast)>>
    ELSE <<Bin(Self, "class:", V(class)), Bin(Self, "method:", ast)>>])
ProgramOf(methods, files) ==
  [methods |-> methods, files |-> files, classes |-> {methods[k].value.name : k \in DOMAIN methods}]
Script1(methods, more) == SequenceNode(<< >>, Install(methods) \o more)
Plain(methods) == ProgramOf(methods, <<Script1(methods, << >>)>>)
Expression(e)  == Plain(<<Answering(e)>>)
Program == "Program"
ANew == Un(V(Program), "basicNew")

(***************************************************************************)
(* samples/test.lodtalk.                                                   *)
(***************************************************************************)
closureRetArg  == Def(Program, "closureRetArg:", <<"a">>, << >>, <<Return(Do(<<V("a")>>))>>)
closureRetTemp == Def(Program, "closureRetTemp:", <<"a">>, <<"b">>,
                      <<Set("b", I(5)), Return(Do(<<V("b")>>))>>)
makeCounter == Def(Program, "makeCounter", << >>, <<"a">>,
                   <<Set("a", I(-1)), Return(Do(<<Set("a", Bin(V("a"), "+", I(1)))>>))>>)
selectAB == Def(Program, "select:a:b:", <<"condition", "a", "b">>, << >>,
                <<Return(Send(V("condition"), "ifTrue:ifFalse:", <<Do(<<V("a")>>), Do(<<V("b")>>)>>))>>)
whileA == Def(Program, "while:", <<"a">>, << >>,
              <<Bin(Do(<<V("a")>>), "whileTrue:", Do(<<Un(Self, "class")>>))>>)
loop == Def(Program, "loop", << >>, <<"sum">>,
            <<Set("sum", I(0)),
              Return(Send(I(1), "to:do:", <<I(4), Block(<<"i">>, <<Set("sum", Bin(V("sum"), "+", V("i")))>>)>>))>>)
closureMaker == Def(Program, "closureMaker", << >>, << >>, <<Return(Do(<< >>))>>)
recursion == Def(Global, "recursion:", <<"levels">>, << >>,
                 <<Bin(Bin(V("levels"), ">", I(0)), "ifTrue:",
                       Do(<<Bin(Self, "recursion:", Bin(V("levels"), "-", I(1)))>>)), Return(V("levels"))>>)
Counted == Main(<<"counter">>,
  <<Set("counter", Un(ANew, "makeCounter")), Un(V("counter"), "value"), Un(V("counter"), "value"),
    Return(Un(V("counter"), "value"))>>)

Samples ==
  <<Plain(<<closureRetArg, Answering(Un(Bin(ANew, "closureRetArg:", I(3)), "value"))>>),
    Plain(<<closureRetTemp, Answering(Un(Bin(ANew, "closureRetTemp:", I(3)), "value"))>>),
    Plain(<<makeCounter, Counted>>),
    Plain(<<selectAB, Answering(Send(ANew, "select:a:b:", <<Lit(true), I(1), I(2)>>))>>),
    Plain(<<selectAB, Answering(Send(ANew, "select:a:b:", <<Lit(false), I(1), I(2)>>))>>),
    Plain(<<selectAB, Answering(Send(ANew, "select:a:b:", <<Lit(nil), I(1), I(2)>>))>>),
    Plain(<<whileA, Answering(Bin(ANew, "while:", Lit(false)))>>),
    Plain(<<loop, Answering(Un(ANew, "loop"))>>),
    Plain(<<closureMaker, Answering(Un(Un(ANew, "closureMaker"), "value"))>>),
    Plain(<<recursion, Answering(Bin(Self, "recursion:", I(3)))>>)>>

(***************************************************************************)
(* The runtime's loops and truth values.                                   *)
(***************************************************************************)
toDo == Def("Number", "to:do:", <<"stop", "aBlock">>, <<"nextValue">>,
  <<Set("nextValue", Self),
    Bin(Do(<<Bin(V("nextValue"), "<=", V("stop"))>>), "whileTrue:",
        Do(<<Bin(V("aBlock"), "value:", V("nextValue")), Set("nextValue", Bin(V("nextValue"), "+", I(1)))>>))>>)
whileTrue1 == Def("BlockClosure", "whileTrue:", <<"aBlock">>, << >>,
  <<Bin(Do(<<Un(Self, "value")>>), "whileTrue:", Do(<<Un(V("aBlock"), "value")>>))>>)
trueAnd  == Def("True", "and:", <<"aBlock">>, << >>, <<Return(Un(V("aBlock"), "value"))>>)
falseAnd == Def("False", "and:", <<"aBlock">>, << >>, <<Return(Self)>>)
trueIf   == Def("True", "ifTrue:", <<"aBlock">>, << >>, <<Return(Un(V("aBlock"), "value"))>>)
Truths == <<trueAnd, falseAnd, trueIf>>

Runtime ==
  <<Plain(<<toDo, Main(<<"block", "sum">>,
       <<Set("sum", I(0)), Set("block", Block(<<"i">>, <<Set("sum", Bin(V("sum"), "+", V("i")))>>)),
         Send(I(1), "to:do:", <<I(3), V("block")>>), Return(V("sum"))>>)>>),
    Plain(<<whileTrue1, Main(<<"block", "n">>,
       <<Set("n", I(0)), Set("block", Do(<<Bin(V("n"), "<", I(2))>>)),
         Bin(V("block"), "whileTrue:", Do(<<Set("n", Bin(V("n"), "+", I(1)))>>)), Return(V("n"))>>)>>)>>
  \o [i \in 1..2 |-> Plain(Truths \o <<Answering(Bin(Lit(Boolean(i = 1)), "and:", Do(<<I(7)>>)))>>)]
  \o <<Plain(Truths \o <<Answering(MessageSendNode(Lit(true), "ifTrue:", <<Do(<<I(1)>>)>>,
                                      <<ChainedMessage("ifTrue:", <<Do(<<I(2)>>)>>)>>))>>)>>

(***************************************************************************)
(* Variables and blocks: two statements and an answer.                     *)
(***************************************************************************)
Inc(name) == Set(name, Bin(V(name), "+", I(1)))
Statements ==
  <<Set("b", V("a")),
    Set("c", Do(<<V("b")>>)),
    Set("c", Do(<<Inc("b")>>)),
    Set("c", Block(<<"x">>, <<Bin(V("x"), "+", V("a"))>>)),
    Set("c", Block(<<"x">>, <<Bin(V("x"), "-", V("b"))>>)),
    Set("c", BlockExpression(<<"x">>, SequenceNode(<<"t">>, <<Set("t", V("x")), Inc("t"), V("t")>>))),
    Bin(Bin(V("a"), ">", I(1)), "ifTrue:", Do(<<Set("b", I(2))>>)),
    Send(V("b"), "ifNil:ifNotNil:", <<Do(<<Set("b", I(6))>>), Do(<<Set("b", I(8))>>)>>),
    Send(I(1), "to:do:", <<I(2), Block(<<"i">>, <<Set("b", V("i"))>>)>>),
    Bin(Do(<<Bin(V("b"), "<", I(5))>>), "whileTrue:", Do(<<Inc("b")>>))>>
Answers ==
  <<V("b"), Un(V("c"), "value"), Bin(V("c"), "value:", I(2)), Un(Do(<<Un(V("c"), "value")>>), "value"),
    Un(Do(<<Inc("b"), Un(Do(<<Inc("b")>>), "value")>>), "value"),
    Send(Bin(V("b"), "=", V("a")), "ifTrue:ifFalse:", <<V("c"), Do(<<V("b")>>)>>)>>
Call == Answering(Bin(Self, "run:", I(3)))
VariableProgram(i, j, k) ==
  Plain(<<Def(Global, "run:", <<"a">>, <<"c", "b">>,
              <<Statements[i], Statements[j], Return(Answers[k])>>), Call>>)
VariablePrograms ==
  LET s == Len(Statements)
      r == Len(Answers) IN
  [n \in 1..s * s * r |-> VariableProgram((n - 1) \div (s * r) + 1, (((n - 1) \div r) % s) + 1, ((n - 1) % r) + 1)]

(***************************************************************************)
(* Numbers: each message for each pair, as an instruction and through a    *)
(* method with a primitive.                                                *)
(***************************************************************************)
Integers1 == <<-64, -5, -1, 0, 1, 3, 63>>
Floats1   == <<I(2), I(-3), F(6), F(-2), F(4), F(10)>>
Chars1    == <<C(65), C(200), C(3)>>
FailedWithCode == Lit(Symbol("failed"))
ByPrimitive(class, number, a, b) ==
  Plain(<<Primitive1(class, "compute:", number, <<"x">>, <<Return(FailedWithCode)>>),
          Answering(Bin(a, "compute:", b))>>)
Pairs(values, messages, program2(_, _, _)) ==
  LET v == Len(values)
      m == Len(messages) IN
  [n \in 1..v * v * m |-> program2((n - 1) \div (v * v) + 1, values[(((n - 1) \div v) % v) + 1],
                                   values[((n - 1) % v) + 1])]
IntegerNodes == [i \in DOMAIN Integers1 |-> I(Integers1[i])]
FloatMessageOrder == NumberMessages \o <<"//", "\\\\">>

NumberPrograms ==
  Pairs(IntegerNodes, IntegerMessages, LAMBDA n, a, b : Expression(Bin(a, IntegerMessages[n], b)))
  \o Pairs(IntegerNodes, IntegerMessages, LAMBDA n, a, b : ByPrimitive("SmallInteger", n, a, b))
  \o Pairs(Floats1, FloatMessageOrder, LAMBDA n, a, b : Expression(Bin(a, FloatMessageOrder[n], b)))
  \o Pairs(Floats1, NumberMessages, LAMBDA n, a, b : ByPrimitive("Number", 40 + n, a, b))
  \o Pairs(Chars1, FloatMessageOrder, LAMBDA n, a, b : Expression(Bin(a, FloatMessageOrder[n], b)))
  \o [n \in 1..Len(Floats1) |-> Expression(Un(Floats1[n], "truncated"))]
  \o [n \in 1..Len(Floats1) |-> Expression(Un(Floats1[n], "fractionPart"))]
  \o [n \in 1..Len(Floats1) |-> Expression(Un(Floats1[n], "exponent"))]
  \o [n \in 1..Len(Floats1) |-> Expression(Bin(Floats1[n], "timesTwoPower:", I(2)))]
  \o [n \in 1..Len(Floats1) |-> Expression(Un(Floats1[n], "asFloat"))]

(***************************************************************************)
(* Objects, messages, contexts and globals.                                *)
(***************************************************************************)
count    == Def(Program, "count", << >>, << >>, <<Return(V("count"))>>)
setCount == Def(Program, "count:", <<"n">>, << >>, <<Set("count", V("n"))>>)
increment == Def(Program, "increment", << >>, << >>,
                 <<Set("count", Bin(V("count"), "+", I(1))), Return(Do(<<V("count")>>))>>)
instance == Def("Program class", "fresh", << >>, << >>,
                <<Return(MessageSendNode(Un(Self, "basicNew"), "count:", <<I(4)>>,
                                         <<ChainedMessage("increment", << >>), ChainedMessage("count", << >>)>>))>>)
tooLate == Def("Object", "doesNotUnderstand:", <<"aMessage">>, << >>, <<Return(Un(V("aMessage"), "class"))>>)
handled == Def("Object", "nativeMethodFailed:", <<"code">>, << >>, <<Return(V("code"))>>)
sizeOf  == Primitive1("Object", "sizeOf", 62, << >>, <<Return(FailedWithCode)>>)
same    == Primitive1("Object", "same:", 110, <<"x">>, <<Return(FailedWithCode)>>)
kind    == Primitive1("Object", "kind", 111, << >>, <<Return(FailedWithCode)>>)
make    == Primitive1("Behavior", "make", 70, << >>, <<Return(FailedWithCode)>>)
makeN   == Primitive1("Behavior", "make:", 71, <<"n">>, <<Return(FailedWithCode)>>)
unknown == Primitive1("Object", "unknown", 999, << >>, <<Return(I(5))>>)
wrongCount == Primitive1("SmallInteger", "wrong", 1, << >>, <<Return(I(6))>>)
elementAt == Primitive1("Object", "elementAt:", 60, <<"i">>, <<Return(FailedWithCode)>>)
elementAtPut == Primitive1("Object", "elementAt:put:", 61, <<"i", "v">>, <<Return(FailedWithCode)>>)
Primitives == <<sizeOf, same, kind, make, makeN, unknown, wrongCount, elementAt, elementAtPut>>
WithPrimitives(e) == Plain(Primitives \o <<Answering(e)>>)
AnArray(n) == Bin(V("Array"), "basicNew:", I(n))

Objects ==
  <<Plain(<<count, setCount, increment, instance, Answering(Un(V(Program), "fresh"))>>),
    Plain(<<count, setCount, increment, Main(<<"p">>,
       <<Set("p", ANew), Bin(V("p"), "count:", I(1)), Un(Un(V("p"), "increment"), "value"),
         Return(Un(Un(V("p"), "increment"), "value"))>>)>>),
    Plain(<<tooLate, Answering(Bin(Self, "missing:", I(1)))>>),
    Plain(<<tooLate, Main(<< >>, <<Un(Do(<<I(1)>>), "value"), Return(Bin(Do(<<I(1)>>), "value:", I(2)))>>)>>),
    Expression(Un(Bin(Block(<<"x">>, <<V("x")>>), "value:", Self), "class")),
    Expression(ThisContextReference),
    Expression(Un(Do(<<ThisContextReference>>), "value")),
    Expression(Un(V("Shared"), "class")),
    Expression(Un(Un(AnArray(3), "basicSize"), "class")),
    Expression(Un(AnArray(3), "basicSize")),
    Expression(Bin(Self, "==", V("GlobalContext"))),
    Plain(<<Main(<< >>, <<Set("Shared", I(9)), Return(Bin(V("Shared"), "bitXor:", I(1)))>>)>>),
    Plain(<<Main(<<"b">>, <<Set("b", Do(<<Set("Shared", ANew)>>)), Un(V("b"), "value"),
                            Return(Un(V("Shared"), "class"))>>)>>),
    Plain(<<Main(<< >>, << >>)>>),
    Plain(<<Main(<<"n">>, <<Set("n", I(3)),
       Bin(Do(<<Bin(V("n"), "<=", I(0))>>), "whileFalse:", Do(<<Set("n", Bin(V("n"), "-", I(1)))>>)),
       Return(Bin(Bin(V("n"), "=", I(0)), "ifFalse:", Do(<<I(1)>>)))>>)>>),
    Expression(Bin(Lit(nil), "ifNil:", Do(<<I(3)>>))),
    Expression(Bin(I(2), "ifNotNil:", Do(<<I(3)>>))),
    Expression(Send(I(2), "ifNotNil:ifNil:", <<Do(<<I(3)>>), Do(<<I(4)>>)>>)),
    Expression(Send(Lit(false), "ifFalse:ifTrue:", <<Do(<<I(3)>>), Do(<<I(4)>>)>>)),
    Plain(<<Def(Global, "first:", <<"n">>, << >>,
       <<Send(I(1), "to:do:", <<I(5), Block(<<"i">>, <<Bin(Bin(V("i"), "=", V("n")), "ifTrue:", Do(<<Return(V("i"))>>))>>)>>)>>),
       Answering(Bin(Self, "first:", I(2)))>>),
    WithPrimitives(Un(AnArray(2), "sizeOf")), WithPrimitives(Un(I(2), "sizeOf")),
    WithPrimitives(Bin(I(2), "same:", I(2))), WithPrimitives(Bin(I(2), "same:", Lit(nil))),
    WithPrimitives(Un(I(2), "kind")), WithPrimitives(Un(Un(V(Program), "make"), "class")),
    WithPrimitives(Un(Bin(V("Array"), "make:", I(2)), "sizeOf")),
    WithPrimitives(Un(I(2), "unknown")), WithPrimitives(Un(I(2), "wrong"))>>

(***************************************************************************)
(* Scripts: nested files, redefinitions, what a script cannot do.          *)
(***************************************************************************)
File(n) == Lit(Word("file", n, ""))
Redefined == <<Answering(I(1)), Answering(I(2))>>
Nested(methods, outer, inner) == ProgramOf(methods, <<SequenceNode(<< >>, outer), inner>>)
Stray(statement) == ProgramOf(<<Answering(I(1))>>, <<Script1(<<Answering(I(1))>>, <<statement>>)>>)
StrayHandled(statement) ==
  LET methods == <<handled, Answering(I(1))>> IN ProgramOf(methods, <<Script1(methods, <<statement>>)>>)

ScriptPrograms ==
  <<Plain(Redefined),
    Nested(<<Answering(I(3))>>, <<Bin(Self, "executeFileNamed:", File(2))>>,
           Script1(<<Answering(I(3))>>, << >>)),
    Nested(<<Answering(I(3))>>, Install(<<Answering(I(3))>>) \o
             <<Bin(Bin(Self, "executeFileNamed:", File(2)), "category:", Lit(Symbol("c")))>>,
           SequenceNode(<< >>, <<Self>>)),
    Nested(<<Answering(I(3))>>, <<Bin(Self, "executeFileNamed:", File(2))>> \o Install(<<Answering(I(3))>>),
           SequenceNode(<< >>, << >>)),
    Nested(<<Answering(I(3))>>, <<Bin(Self, "executeFileNamed:", File(2))>>, Node("unreadable", "", << >>, nil, << >>, << >>)),
    Nested(<<handled, Answering(I(3))>>,
           <<Bin(Self, "class:", V("Object")), Bin(Self, "method:", ScriptHandle(1)),
             Bin(Self, "function:", ScriptHandle(2)), Bin(Self, "executeFileNamed:", File(2))>>,
           SequenceNode(<< >>, <<Bin(I(1), "+", Lit(nil)), Bin(I(1), "+", I(2))>>)),
    Stray(Bin(Self, "executeFileNamed:", File(7))), Stray(Bin(Self, "executeFileNamed:", Lit(nil))),
    Stray(Bin(Self, "method:", ScriptHandle(1))), Stray(Bin(Self, "function:", Lit(nil))),
    Stray(MessageSendNode(Self, "category:", <<Lit(Symbol("c"))>>, <<ChainedMessage("category:", <<Lit(nil)>>)>>)),
    Stray(Bin(I(1), "+", I(2))), Stray(Bin(I(1), "+", Lit(nil))), Stray(Un(Self, "missing")),
    Stray(V("Nowhere")), Stray(Do(<< >>)), Stray(SequenceNode(<<"x">>, << >>)), Stray(SuperReference),
    StrayHandled(Bin(I(1), "+", Lit(nil))), StrayHandled(Bin(I(1), "at:", I(1)))>>

(***************************************************************************)
(* What the compiler refuses, and what aborts, crashes or goes wrong.      *)
(***************************************************************************)
Failing ==
  <<Plain(<<handled, Answering(Bin(I(1), "+", Lit(nil)))>>),
    Plain(<<handled, Answering(Bin(AnArray(1), "at:", I(1)))>>),
    Plain(<<handled, Answering(Send(AnArray(1), "at:put:", <<I(1), I(2)>>))>>),
    WithPrimitives(Bin(AnArray(1), "elementAt:", I(1))),
    WithPrimitives(Send(AnArray(1), "elementAt:put:", <<I(1), I(2)>>)),
    Expression(Bin(I(1), "+", Lit(nil))), Expression(V("Nowhere")), Expression(Un(SuperReference, "class")),
    Expression(Un(Do(<<Return(I(1))>>), "value")), Expression(Bin(I(1), "ifTrue:", Do(<<I(1)>>))),
    Expression(Bin(Lit(true), "ifTrue:", Do(<< >>))), Expression(Bin(Lit(false), "ifTrue:", Do(<< >>))),
    Expression(Bin(Lit(true), "ifTrue:", Block(<<"x">>, <<V("x")>>))), Expression(Un(Do(<<I(1)>>), "repeat")),
    Expression(Bin(I(2), "ifNil:", Do(<<I(3)>>))), Expression(Bin(I(1), "bitOr:", Lit(nil))),
    Expression(Send(I(1), "to:by:do:", <<I(2), I(1), Block(<<"i">>, <<V("i")>>)>>)),
    Expression(Bin(V("Array"), "basicNew:", I(-1))), Expression(Bin(V("Array"), "basicNew:", Lit(nil))),
    Expression(Bin(Block(<<"x">>, <<Un(Do(<<V("x")>>), "value")>>), "value:", I(1))),
    Plain(<<whileTrue1, Expression(I(1)).methods[1],
            Def(Global, "go", << >>, <<"b">>, <<Set("b", Do(<<Lit(true)>>))>>)>>),
    Plain(<<Main(<<"n", "b">>, <<Set("n", I(0)), Set("b", Do(<<Inc("n")>>)),
                                 Bin(Do(<<Bin(V("n"), "<", I(1))>>), "whileTrue:", V("b"))>>)>>),
    Plain(<<Main(<<"a", "b">>, <<Set("a", I(1)), Set("b", Do(<<V("a")>>)), Return(Un(V("b"), "value"))>>)>>),
    Plain(<<Main(<<"a">>, <<Set("a", I(1)),
       Return(Un(Do(<<Un(BlockExpression(<< >>, SequenceNode(<<"t">>, <<Set("t", V("a")), Do(<<V("t")>>)>>)), "value")>>),
                 "value"))>>)>>),
    Plain(<<Def(Global, "twice:", <<"x", "x">>, << >>, <<Self>>), Answering(I(1))>>),
    Plain(<<Def(Global, "main:", <<"x">>, << >>, << >>)>>)>>

MCPrograms == Samples \o Runtime \o Objects \o ScriptPrograms \o Failing \o VariablePrograms \o NumberPrograms
BadBlock == <<Expression(Bin(Block(<<"x">>, <<Un(Do(<<V("x")>>), "value")>>), "value:", I(1)))>>
              \o [n \in 1..6 |-> Expression(Bin(I(n), "+", I(1)))]

MCGlobalNames == {"Shared"} \cup {c \in DOMAIN ClassHierarchy : c \in DOMAIN NativeClasses}
=============================================================================
