----------------------------- MODULE Interpreter -----------------------------
(***************************************************************************)
(* The stack interpreter (StackInterpreter.cpp) running what the compiler  *)
(* makes of a program, with the native methods of Object.cpp and the       *)
(* scripts of Compiler.cpp that install the methods.                       *)
(*                                                                         *)
(* The machine is one record.  Every handler of the C++ class is an        *)
(* operator from the machine before to the machine after it, and the       *)
(* actions below apply them.  A word of the stack is one element of        *)
(* machine.stack; the stack grows towards higher indices, where the C++    *)
(* one grows towards lower addresses.  pc is the instruction whose opcode  *)
(* has been fetched, 0 when the machine returns to the C++ code that       *)
(* entered it.                                                             *)
(***************************************************************************)
EXTENDS Oops, Classes, Image, SequencesExt

CONSTANTS
  MaxStack,  \* words of stack that are modelled
  MaxHeap    \* objects that are modelled

VARIABLES
  program,   \* which of the programs runs
  compiled,  \* its methods, compiled, and its scripts
  expected,  \* what the program is to do; the machine never reads it (Execution)
  machine
vars == <<program, compiled, expected, machine>>

\* References to methods and to the syntax trees of methods.
CompiledMethod(k, class) == Word("compiled", k, class)
NativeMethod(function)   == Word("native", 0, function)
MethodASTHandle(k)       == Word("ast", k, "")
MethodOf(oop) == compiled.methods[oop.value][oop.name]
CodeOf(oop)   == MethodOf(oop).code

(***************************************************************************)
(* Objects and classes.                                                    *)
(***************************************************************************)
Object(class, slots, elements) == [class |-> class, slots |-> slots, elements |-> elements]

classIndexOf(m, oop) ==
  CASE oop.tag = "nil"     -> "UndefinedObject"
    [] oop.tag = "true"    -> "True"
    [] oop.tag = "false"   -> "False"
    [] oop.tag = "int"     -> "SmallInteger"
    [] oop.tag = "float"   -> "SmallFloat"
    [] oop.tag = "char"    -> "Character"
    [] oop.tag = "symbol"  -> "ByteSymbol"
    [] oop.tag = "ast"     -> "MethodASTHandle"
    [] oop.tag = "file"    -> "ByteString"
    [] oop.tag = "pointer" -> m.heap[oop.value].class
    [] oop.tag = "class"   -> Metaclass(oop.name)

\* Words of a frame that are no objects; using one as an object is undefined.
IsObject(oop) == oop.tag \notin {"raw", "compiled", "native"}

isClassOrMetaclass(oop) == oop.tag = "class"
isBlockClosure(m, oop)  == oop.tag = "pointer" /\ m.heap[oop.value].class = "BlockClosure"

\* Faulty variant: the superclasses are not searched.
LookupHereOnly(m, class, selector) ==
  IF class # "" /\ selector \in DOMAIN m.methodDict[class] THEN m.methodDict[class][selector] ELSE nil

\* Of the class and its superclasses, the nearest one with a method.
lookupSelector(m, class, selector) ==
  LET lineage == LineageOf(class)
      found == {i \in DOMAIN lineage : /\ lineage[i] \in DOMAIN m.methodDict
                                      /\ selector \in DOMAIN m.methodDict[lineage[i]]} IN
  IF found = {} THEN nil ELSE m.methodDict[lineage[Min(found)]][selector]

Allocate(m, object) == [m EXCEPT !.heap = Append(@, object)]
Newest(m) == Pointer(Len(m.heap))

(***************************************************************************)
(* The stack, and frames: the receiver and the arguments, the return pc,   *)
(* and from the frame pointer up the caller's frame pointer, the method,   *)
(* the metadata, the context, the receiver and the temporaries.            *)
(***************************************************************************)
ReceiverOffset  == 4
FirstTempOffset == 5

Push(m, oop) == [m EXCEPT !.stack[m.sp + 1] = oop, !.sp = @ + 1]
PushAll(m, oops) ==
  [m EXCEPT !.stack = [i \in DOMAIN @ |-> IF i \in m.sp + 1..m.sp + Len(oops) THEN oops[i - m.sp] ELSE @[i]],
            !.sp = @ + Len(oops)]
popMultiplesOops(m, n) == [m EXCEPT !.sp = @ - n]
stackOopAt(m, i) == m.stack[m.sp - i]
currentReceiver(m) == m.stack[m.framePointer + ReceiverOffset]
ThisContext(m) == m.stack[m.framePointer + 3]

encodeFrameMetaData(context, block, arguments) ==
  Raw((arguments % 256) + (IF block THEN 256 ELSE 0) + (IF context THEN 65536 ELSE 0))
ArgumentsIn(meta)  == meta.value % 256
BlockIn(meta)      == (meta.value \div 256) % 256 # 0
HasContextIn(meta) == (meta.value \div 65536) % 256 # 0

Stop(m, status) == [m EXCEPT !.status = status]

fetchFrameData(m) ==
  IF m.framePointer = 0 THEN Stop(m, "aborted")
  ELSE LET meta == m.stack[m.framePointer + 2] IN
       [m EXCEPT !.argumentCount = ArgumentsIn(meta), !.isBlock = BlockIn(meta),
                 !.hasContext = HasContextIn(meta), !.method = m.stack[m.framePointer + 1]]

\* The index of a temporary: arguments are below the frame, the last on top.
\* Above the words that are modelled there is nil.
TemporaryAt(m, i) ==
  IF i < m.argumentCount THEN m.framePointer - 2 - (m.argumentCount - i - 1)
  ELSE m.framePointer + FirstTempOffset + (i - m.argumentCount)
getTemporary(m, i) == IF TemporaryAt(m, i) \in DOMAIN m.stack THEN m.stack[TemporaryAt(m, i)] ELSE nil
setTemporary(m, i, oop) == [m EXCEPT !.stack[TemporaryAt(m, i)] = oop]

\* The frame of a method or a block with its fixed words.
PushFrame(m, method, block, arguments, receiver) ==
  LET below == Push(m, Raw(m.framePointer)) IN
  PushAll([below EXCEPT !.framePointer = below.sp],
          <<method, encodeFrameMetaData(FALSE, block, arguments), nil, receiver>>)

createTerminalStackFrame(m) ==
  LET below == PushAll([m EXCEPT !.sp = 0], <<nil, Raw(0), Raw(0)>>) IN
  fetchFrameData(PushAll([below EXCEPT !.framePointer = below.sp],
                         <<nil, encodeFrameMetaData(FALSE, FALSE, 0), nil, nil>>))

(***************************************************************************)
(* Contexts.  A frame that makes a closure, or that is asked for its       *)
(* context, is married to a new one.                                       *)
(***************************************************************************)
ensureFrameIsMarried(m) ==
  LET fp == m.framePointer
      meta == m.stack[fp + 2]
      closure == IF BlockIn(meta) THEN m.stack[fp - 2 - ArgumentsIn(meta)] ELSE nil
      arguments == ArgumentsIn(meta)
      context == Object("Context", <<Raw(fp + 1), Raw(m.stack[fp].value + 1), Raw(m.sp + 1),
                                     m.stack[fp + 1], closure, currentReceiver(m),
                                     encodeSmallInteger(arguments)>>,
                        [i \in 1..arguments |-> m.stack[fp - 2 - arguments + i]])
      born == Allocate(m, context) IN
  IF HasContextIn(meta) THEN m
  ELSE [born EXCEPT !.stack[fp + 3] = Newest(born),
                    !.stack[fp + 2] = encodeFrameMetaData(TRUE, BlockIn(meta), ArgumentsIn(meta))]

\* Faulty variant: the context goes on pointing at the frame.
KeepMarried(m, context) == m

widowContext(m, context) ==
  [m EXCEPT !.heap[context.value].slots = [@ EXCEPT ![1] = nil, ![2] = nil, ![3] = encodeSmallInteger(0)]]

(***************************************************************************)
(* The pc.  Labels have no bytes, so the opcode that is fetched at one is  *)
(* that of the instruction after it.                                       *)
(***************************************************************************)
FirstFrom(code, pc) == LET rest == {i \in pc..Len(code) : code[i].op # "Label"} IN
                       IF rest = {} THEN Len(code) + 1 ELSE Min(rest)

\* Continue at an instruction of the method of the frame; 0 ends the loop.
FetchAt(m, pc) ==
  IF m.status # "running" \/ pc = 0 THEN [m EXCEPT !.pc = pc]
  ELSE IF m.method.tag # "compiled" THEN Stop(m, "crashed")
  ELSE [m EXCEPT !.pc = FirstFrom(CodeOf(m.method), pc)]
fetchNextInstructionOpcode(m) == FetchAt(m, m.pc + 1)

\* The operands of a send have been read when the pc is pushed.
pushPC(m) == Push(m, Raw(IF m.pc = 0 THEN 0 ELSE m.pc + 1))

(***************************************************************************)
(* Returning.                                                              *)
(***************************************************************************)
\* The last frame of a stack is left without a value for anyone.
baseReturnValue(m) ==
  IF m.hasContext THEN Stop(m, "aborted")
  ELSE [m EXCEPT !.pc = m.stack[m.framePointer - 1].value, !.sp = m.framePointer - 1,
                 !.framePointer = m.stack[m.framePointer].value]

\* Faulty variant: the receiver stays on the stack below the value.
ReturnAboveReceiver(m, value) ==
  LET fp == m.framePointer
      left == [m EXCEPT !.sp = fp - 2 - m.argumentCount, !.framePointer = m.stack[fp].value] IN
  FetchAt(fetchFrameData(Push(left, value)), m.stack[fp - 1].value)

\* Faulty variant: the copies of the frame data stay those of the frame that is left.
ReturnWithStaleFrame(m, value) ==
  LET fp == m.framePointer
      left == [m EXCEPT !.sp = fp - 3 - m.argumentCount, !.framePointer = m.stack[fp].value] IN
  FetchAt(Push(left, value), m.stack[fp - 1].value)

\* Faulty variant: one word too many is popped.
ReturnBelowReceiver(m, value) ==
  LET fp == m.framePointer
      left == [m EXCEPT !.sp = fp - 4 - m.argumentCount, !.framePointer = m.stack[fp].value] IN
  FetchAt(fetchFrameData(Push(left, value)), m.stack[fp - 1].value)

localReturnValue(m, value) ==
  LET fp == m.framePointer
      widowed == IF HasContextIn(m.stack[fp + 2]) THEN widowContext(m, ThisContext(m)) ELSE m
      left == [widowed EXCEPT !.sp = fp - 2 - (m.argumentCount + 1),
                              !.framePointer = m.stack[fp].value] IN
  IF fp < 3 \/ m.stack[fp].tag # "raw" \/ m.stack[fp - 1].tag # "raw" THEN Stop(m, "crashed")
  ELSE IF m.stack[fp].value = 0 THEN baseReturnValue(m)
  ELSE FetchAt(fetchFrameData(Push(left, value)), m.stack[fp - 1].value)

\* A return from inside of a block is not implemented.
returnValue(m, value) == IF m.isBlock THEN Stop(m, "aborted") ELSE localReturnValue(m, value)

(***************************************************************************)
(* Primitives.  They run in a frame of their own as native methods, or in  *)
(* the frame of a method that calls them by number.                        *)
(***************************************************************************)
ArgumentCount(m) == ArgumentsIn(m.stack[m.framePointer + 2])
primitiveFailed(m) == [m EXCEPT !.primitiveHasFailed = TRUE]

Conclude(m, result) ==
  CASE result.outcome = "answer"    -> returnValue(m, result.oop)
    [] result.outcome = "failed"    -> primitiveFailed(m)
    [] result.outcome = "crash"     -> Stop(m, "crashed")
    [] result.outcome = "assertion" -> Stop(m, "assertion")

stSize(m) ==
  LET self == currentReceiver(m) IN
  IF ArgumentCount(m) # 0 \/ self.tag # "pointer" THEN primitiveFailed(m)
  ELSE IF classIndexOf(m, self) \notin Indexable THEN primitiveFailed(m)
  ELSE returnValue(m, encodeSmallInteger(Len(m.heap[self.value].slots) + Len(m.heap[self.value].elements)))

\* The size is asked for in the frame of at:, whose argument count is not the
\* one that stSize expects: it fails, and the word pushed for it stays.
stAt(m)    == IF ArgumentCount(m) # 1 THEN primitiveFailed(m) ELSE stSize(Push(m, currentReceiver(m)))
stAtPut(m) == IF ArgumentCount(m) # 2 THEN primitiveFailed(m) ELSE stSize(Push(m, currentReceiver(m)))

stIdentityEqual(m) ==
  IF ArgumentCount(m) # 1 THEN primitiveFailed(m)
  ELSE returnValue(m, Boolean(currentReceiver(m) = getTemporary(m, 0)))

ClassOf(m, oop) == ClassOop(classIndexOf(m, oop))
stClass(m) == IF ArgumentCount(m) # 0 THEN primitiveFailed(m)
              ELSE returnValue(m, ClassOf(m, currentReceiver(m)))

Nils(n) == [i \in 1..n |-> nil]
basicNativeNew(m, class, size) == Allocate(m, Object(class, Nils(InstanceCount(class)), Nils(size)))

stBasicNew(m) ==
  LET born == basicNativeNew(m, currentReceiver(m).name, 0) IN
  IF ArgumentCount(m) # 0 THEN primitiveFailed(m) ELSE returnValue(born, Newest(born))

stBasicNewSize(m) ==
  LET size == getTemporary(m, 0)
      born == basicNativeNew(m, currentReceiver(m).name, size.value) IN
  IF ArgumentCount(m) # 1 THEN primitiveFailed(m)
  ELSE IF size.tag # "int" \/ size.value \notin Nat THEN Stop(m, "crashed")
  ELSE returnValue(born, Newest(born))

\* The native methods of numbers.  Those without an argument, and the others.
UnaryNative(function, a) ==
  CASE function = "SmallInteger::asFloat" -> asFloat(a)
    [] function = "Float::truncated"      -> SmallFloatTruncation(a)
    [] function = "Float::fractionPart"   -> SmallFloatFractionPart(a)
    [] function = "Float::exponent"       -> SmallFloatExponent(a)
UnaryFunctions == {"SmallInteger::asFloat", "Float::truncated", "Float::fractionPart", "Float::exponent"}

SmallIntegerFunctions == Implementations("SmallInteger", IntegerMessages)
FloatFunctions == Implementations("Float", NumberMessages)

BinaryNative(function, a, b) ==
  IF function = "Float::timesTwoPower:" THEN SmallFloatTimesTwoPower(a, b)
  ELSE IF function \in Range(SmallIntegerFunctions)
  THEN SmallIntegerNative(CHOOSE m \in DOMAIN SmallIntegerFunctions : SmallIntegerFunctions[m] = function, a, b)
  ELSE FloatNative(CHOOSE m \in DOMAIN FloatFunctions : FloatFunctions[m] = function, a, b)

NumberFunctions == UnaryFunctions \cup Range(SmallIntegerFunctions) \cup Range(FloatFunctions)
                     \cup {"Float::timesTwoPower:"}
NumberNative(m, function) ==
  IF function \in UnaryFunctions
  THEN IF ArgumentCount(m) # 0 THEN primitiveFailed(m)
       ELSE Conclude(m, UnaryNative(function, currentReceiver(m)))
  ELSE IF ArgumentCount(m) # 1 THEN primitiveFailed(m)
  ELSE Conclude(m, BinaryNative(function, currentReceiver(m), getTemporary(m, 0)))

(***************************************************************************)
(* Scripts, and their native methods.  What ASTInterpreter does for a node *)
(* is a sequence of operations.                                            *)
(***************************************************************************)
ScriptOp(op, oop, count) == [op |-> op, oop |-> oop, count |-> count]

ScriptSlot(m, i) == m.heap[currentReceiver(m).value].slots[i]
SetScriptSlot(m, i, oop) ==
  returnValue([m EXCEPT !.heap[currentReceiver(m).value].slots[i] = oop], currentReceiver(m))

\* The dictionary with a method at a selector.
AtPut(dictionary, selector, method) ==
  [s \in DOMAIN dictionary \cup {selector} |-> IF s = selector THEN method ELSE dictionary[s]]

\* Compile the method for a class and put it into its method dictionary.  The
\* model follows the classes that the program names.
AddMethod(m, k, class) ==
  LET method == compiled.methods[k][class.name] IN
  IF k \notin DOMAIN compiled.methods THEN Stop(m, "bounded")
  ELSE IF class.name \notin DOMAIN compiled.methods[k] THEN Stop(m, "bounded")
  ELSE IF method.failed THEN Stop(m, "aborted")
  ELSE [m EXCEPT !.methodDict[class.name] = AtPut(@, method.selector, CompiledMethod(k, class.name))]

\* The class is in the slot named index: globalContextClass or currentClass.
AddTo(m, index) ==
  LET handle == getTemporary(m, 0)
      class == ScriptSlot(m, index) IN
  IF handle.tag # "ast" \/ ~isClassOrMetaclass(class) THEN Stop(m, "aborted")
  ELSE returnValue(AddMethod(m, handle.value, class), currentReceiver(m))

\* The script context of a file, and the script that runs in it.
Script(ops, self) == [ops |-> ops, ip |-> 1, self |-> self]
executeScriptFromFile(m, file) ==
  LET context == Object("ScriptContext", <<nil, nil, ClassOop(Metaclass("GlobalContext")), nil>>, << >>)
      born == Allocate(m, context) IN
  IF ~compiled.scripts[file].readable THEN primitiveFailed(born)
  ELSE [born EXCEPT !.scripts = Append(@, Script(compiled.scripts[file].ops, Newest(born)))]

stExecuteFileNamed(m) ==
  LET file == getTemporary(m, 0) IN
  IF file.tag # "file" \/ file.value \notin DOMAIN compiled.scripts THEN Stop(m, "aborted")
  ELSE executeScriptFromFile(Push(m, nil), file.value)

ScriptFunctions == {"ScriptContext::stSetCurrentCategory", "ScriptContext::stSetCurrentClass",
                    "ScriptContext::stAddFunction", "ScriptContext::stAddMethod",
                    "ScriptContext::stExecuteFileNamed"}
ScriptNative(m, function) ==
  IF ArgumentCount(m) # 1 THEN primitiveFailed(m)
  ELSE IF currentReceiver(m).tag # "pointer" THEN Stop(m, "crashed")
  ELSE CASE function = "ScriptContext::stSetCurrentCategory" -> SetScriptSlot(m, 1, getTemporary(m, 0))
         [] function = "ScriptContext::stSetCurrentClass" -> SetScriptSlot(m, 2, getTemporary(m, 0))
         [] function = "ScriptContext::stAddFunction" -> AddTo(m, 3)
         [] function = "ScriptContext::stAddMethod"   -> AddTo(m, 2)
         [] function = "ScriptContext::stExecuteFileNamed" -> stExecuteFileNamed(m)

\* The functions that have a number too; a function that nothing registers fails.
ObjectNative(m, function) ==
  CASE function \in NumberFunctions -> NumberNative(m, function)
    [] function = "Object::stAt"    -> stAt(m)
    [] function = "Object::stAtPut" -> stAtPut(m)
    [] function = "Object::stSize"  -> stSize(m)
    [] function = "Object::stClass" -> stClass(m)
    [] function = "Object::stIdentityEqual"  -> stIdentityEqual(m)
    [] function = "Behavior::stBasicNew"     -> stBasicNew(m)
    [] function = "Behavior::stBasicNewSize" -> stBasicNewSize(m)
    [] OTHER -> primitiveFailed(m)

Primitive(m, function) ==
  IF function \in ScriptFunctions THEN ScriptNative(m, function) ELSE ObjectNative(m, function)

(***************************************************************************)
(* Sending.                                                                *)
(***************************************************************************)
BlockActivationSelectors ==
  <<"value", "value:", "value:value:", "value:value:value:", "value:value:value:value:",
    "value:value:value:value:value:", "value:value:value:value:value:value:">>

activateMethodFrame(m, method) ==
  LET header == MethodOf(method)
      receiver == stackOopAt(m, 1 + header.arguments)
      framed == PushFrame(m, method, FALSE, header.arguments, receiver) IN
  FetchAt(fetchFrameData(PushAll(framed, Nils(header.temporals))), 1)

\* A closure's slots are its outer context, its start pc and its argument count;
\* one that basicNew has made has no context to read.
activateBlockClosure(m, closure) ==
  LET context == m.heap[closure.slots[1].value]
      framed == PushFrame(m, context.slots[4], TRUE, closure.slots[3].value, context.slots[6]) IN
  IF closure.slots[1].tag # "pointer" THEN Stop(m, "crashed")
  ELSE FetchAt(fetchFrameData(PushAll(framed, closure.elements)), closure.slots[2].value)

\* What follows when the primitive of a native method is through: a failed one
\* sends nativeMethodFailed: to its receiver, which is the next step.
AfterPrimitive(m) ==
  IF m.primitiveHasFailed /\ m.status = "running"
  THEN [PushAll(m, <<currentReceiver(m), encodeSmallInteger(-1)>>) EXCEPT !.pc = 0, !.nativeFailed = TRUE]
  ELSE m

callNativeMethod(m, method, argumentCount) ==
  LET receiver == stackOopAt(m, 1 + argumentCount)
      framed == fetchFrameData(PushFrame(m, method, FALSE, argumentCount, receiver))
      ready == [framed EXCEPT !.pc = 0, !.primitiveHasFailed = FALSE]
      done == Primitive(ready, method.name) IN
  IF Len(done.scripts) > Len(m.scripts) THEN done ELSE AfterPrimitive(done)

Activate(m, method, argumentCount) ==
  IF method.tag = "compiled" THEN activateMethodFrame(pushPC(m), method)
  ELSE callNativeMethod(pushPC(m), method, argumentCount)

\* The message as an object, in place of its arguments.
NotUnderstood(m, selector, argumentCount) ==
  LET arguments == [i \in 1..argumentCount |-> stackOopAt(m, argumentCount - i)]
      array == Allocate(m, Object("Array", << >>, arguments))
      class == ClassOf(m, stackOopAt(m, argumentCount))
      message == Allocate(array, Object("Message", <<Symbol(selector), Newest(array), class>>, << >>)) IN
  Push(popMultiplesOops(message, argumentCount), Newest(message))

sendSelectorArgumentCount(m, selector, argumentCount) ==
  LET receiver == stackOopAt(m, argumentCount)
      class == classIndexOf(m, receiver)
      found == lookupSelector(m, class, selector)
      handler == lookupSelector(m, class, "doesNotUnderstand:") IN
  IF ~IsObject(receiver) THEN Stop(m, "crashed")
  ELSE IF /\ isBlockClosure(m, receiver)
          /\ argumentCount < Len(BlockActivationSelectors)
          /\ selector = BlockActivationSelectors[argumentCount + 1]
          /\ m.heap[receiver.value].slots[3].value = argumentCount
  THEN activateBlockClosure(pushPC(m), m.heap[receiver.value])
  ELSE IF found # nil THEN Activate(m, found, argumentCount)
  ELSE IF handler = nil THEN Stop(m, "aborted")
  ELSE Activate(NotUnderstood(m, selector, argumentCount), handler, 1)

(***************************************************************************)
(* The bytecodes.  Each action is a family of cases of interpret(); those  *)
(* that go on to the next instruction fetch its opcode first.              *)
(***************************************************************************)
Running == machine.status = "running"
Instruction == CodeOf(machine.method)[machine.pc]
Interprets(ops) == Running /\ machine.pc # 0 /\ Instruction.op \in ops

\* What the model does not follow any further, and what has run off the stack
\* or the code.
StackMargin == 24  \* more words than one step pushes
Bounded(m) ==
  IF m.status # "running" THEN m
  ELSE IF m.sp > MaxStack - StackMargin \/ Len(m.heap) > MaxHeap THEN Stop(m, "bounded")
  ELSE IF m.sp < 3 \/ (m.pc # 0 /\ m.pc > Len(CodeOf(m.method))) THEN Stop(m, "crashed")
  ELSE m
Become(m) == machine' = Bounded(m) /\ UNCHANGED <<program, compiled, expected>>

Onward   == fetchNextInstructionOpcode(machine)
Top      == stackOopAt(machine, 0)
PopOop(m) == popMultiplesOops(m, 1)

interpretPushConstant ==
  /\ Interprets({"PushConstant"})
  /\ Become(Push(Onward, Instruction.oop))

interpretPushLiteral ==
  /\ Interprets({"PushLiteral"})
  /\ Become(Push(Onward, Instruction.oop))

interpretPushReceiver ==
  /\ Interprets({"PushReceiver"})
  /\ Become(Push(Onward, currentReceiver(machine)))

interpretPushLiteralVariable ==
  /\ Interprets({"PushLiteralVariable"})
  /\ Become(Push(Onward, machine.globals[Instruction.oop.name]))

interpretStoreLiteralVariable ==
  /\ Interprets({"StoreLiteralVariable"})
  /\ Become([Onward EXCEPT !.globals[Instruction.oop.name] = Top])

\* Instance variables of objects of the heap; no class of the model compiles
\* methods that use the variables of a class or of a context.
interpretPushReceiverVariable ==
  /\ Interprets({"PushReceiverVariable"})
  /\ LET self == currentReceiver(machine) IN
     IF self.tag = "pointer" /\ Instruction.a + 1 \in DOMAIN machine.heap[self.value].slots
     THEN Become(Push(Onward, machine.heap[self.value].slots[Instruction.a + 1]))
     ELSE Become(Stop(machine, "crashed"))

interpretStoreReceiverVariable ==
  /\ Interprets({"StoreReceiverVariable"})
  /\ LET self == currentReceiver(machine) IN
     IF self.tag = "pointer" /\ Instruction.a + 1 \in DOMAIN machine.heap[self.value].slots
     THEN Become([Onward EXCEPT !.heap[self.value].slots[Instruction.a + 1] = Top])
     ELSE Become(Stop(machine, "crashed"))

interpretPushTemporary ==
  /\ Interprets({"PushTemporal"})
  /\ Become(Push(Onward, getTemporary(machine, Instruction.a)))

interpretStoreTemporalVariable ==
  /\ Interprets({"StoreTemporal"})
  /\ Become(setTemporary(Onward, Instruction.a, Top))

interpretPopStoreTemporalVariable ==
  /\ Interprets({"PopStoreTemporal"})
  /\ Become(setTemporary(PopOop(Onward), Instruction.a, Top))

\* The vector of an instruction, and what becomes of the machine when the
\* temporary holds no array of that size.
Vector == getTemporary(machine, Instruction.b)
WithVector(m) ==
  IF Vector.tag # "pointer" THEN Stop(machine, "assertion")
  ELSE IF machine.heap[Vector.value].class # "Array" THEN Stop(machine, "assertion")
  ELSE IF Instruction.a + 1 \notin DOMAIN machine.heap[Vector.value].elements THEN Stop(machine, "crashed")
  ELSE m

interpretPushTemporaryInVector ==
  /\ Interprets({"PushTemporalInVector"})
  /\ Become(WithVector(Push(Onward, machine.heap[Vector.value].elements[Instruction.a + 1])))

interpretStoreTemporalInVector ==
  /\ Interprets({"StoreTemporalInVector"})
  /\ Become(WithVector([Onward EXCEPT !.heap[Vector.value].elements[Instruction.a + 1] = Top]))

interpretPopStoreTemporalInVector ==
  /\ Interprets({"PopStoreTemporalInVector"})
  /\ Become(WithVector([PopOop(Onward) EXCEPT
                          !.heap[Vector.value].elements[Instruction.a + 1] = Top]))

interpretPushNTemps ==
  /\ Interprets({"PushNClosureTemps"})
  /\ Become(PushAll(Onward, Nils(Instruction.a)))

interpretPushArrayWithElements ==
  /\ Interprets({"PushArray"})
  /\ LET born == Allocate(Onward, Object("Array", << >>, Nils(Instruction.a))) IN
     Become(Push(born, Newest(born)))

\* The frame of the closure is married first.  One bit of the number of copied
\* values is left in the operand.
interpretPushClosure ==
  /\ Interprets({"PushClosure"})
  /\ LET married == ensureFrameIsMarried(FetchAt(machine, machine.pc + Instruction.to))
         numCopied == Instruction.a % 2
         slots == <<ThisContext(married), Word("int", machine.pc + 1, ""),
                    Word("int", Instruction.b % 8, "")>>
         copied == [i \in 1..numCopied |-> stackOopAt(married, numCopied - i)]
         born == Allocate(popMultiplesOops(married, numCopied),
                          Object("BlockClosure", slots, copied)) IN
     Become(Push(born, Newest(born)))

interpretPushThisContext ==
  /\ Interprets({"PushThisContext"})
  /\ LET married == ensureFrameIsMarried(Onward) IN Become(Push(married, ThisContext(married)))

interpretDuplicateStackTop ==
  /\ Interprets({"DuplicateStackTop"})
  /\ Become(Push(Onward, Top))

interpretPopStackTop ==
  /\ Interprets({"PopStackTop"})
  /\ Become(PopOop(Onward))

interpretJump ==
  /\ Interprets({"Jump"})
  /\ Become(FetchAt(machine, machine.pc + Instruction.to))

\* A condition that is no truth value is not implemented.
interpretConditionalJump ==
  /\ Interprets({"JumpOnTrue", "JumpOnFalse"})
  /\ LET popped == PopOop(machine)
         taken == Top = Boolean(Instruction.op = "JumpOnTrue") IN
     IF Top \notin {true, false} THEN Become(Stop(machine, "aborted"))
     ELSE Become(FetchAt(popped, machine.pc + IF taken THEN Instruction.to ELSE 1))

interpretSend ==
  /\ Interprets({"Send"})
  /\ Become(sendSelectorArgumentCount(machine, Instruction.oop.name, Instruction.a))

\* The message of an instruction is answered without a send, or it is sent.
interpretSpecialMessage ==
  /\ Interprets({"SpecialMessage"})
  /\ LET message == Instruction.oop.name
         result == IF message \in ArithmeticMessages
                   THEN SpecialArithmetic(message, stackOopAt(machine, 1), Top)
                   ELSE IF message = "==" THEN Answer(Boolean(stackOopAt(machine, 1) = Top))
                   ELSE IF message = "class" THEN Answer(ClassOf(machine, Top))
                   ELSE SendInstead
         popped == popMultiplesOops(Onward, Instruction.a + 1) IN
     CASE result.outcome = "answer"    -> Become(Push(popped, result.oop))
       [] result.outcome = "send"      ->
            Become(sendSelectorArgumentCount(machine, FallbackSelector(message), Instruction.a))
       [] result.outcome = "crash"     -> Become(Stop(machine, "crashed"))
       [] result.outcome = "assertion" -> Become(Stop(machine, "assertion"))

\* The message that a failed native method sends.
sendNativeMethodFailed ==
  /\ Running /\ machine.nativeFailed
  /\ Become(sendSelectorArgumentCount([machine EXCEPT !.nativeFailed = FALSE], "nativeMethodFailed:", 1))

interpretReturn ==
  \/ Interprets({"ReturnTop"}) /\ Become(returnValue(machine, Top))
  \/ Interprets({"ReturnReceiver"}) /\ Become(returnValue(machine, currentReceiver(machine)))

interpretBlockReturn ==
  \/ Interprets({"BlockReturnTop"}) /\ Become(localReturnValue(machine, Top))
  \/ Interprets({"BlockReturnNil"}) /\ Become(localReturnValue(machine, nil))

\* A failed primitive leaves its error code in the first temporary; a number
\* without a primitive is only reported.
callPrimitiveHere(function) ==
  LET done == ObjectNative([Onward EXCEPT !.primitiveHasFailed = FALSE], function) IN
  IF done.primitiveHasFailed THEN setTemporary(done, done.argumentCount, encodeSmallInteger(-1)) ELSE done

interpretCallPrimitive ==
  /\ Interprets({"CallPrimitive"})
  /\ Become(IF Instruction.a \in DOMAIN NumberedPrimitives
            THEN callPrimitiveHere(NumberedPrimitives[Instruction.a]) ELSE Onward)

(***************************************************************************)
(* Scripts.  The visitor of the syntax tree pushes and sends while no      *)
(* bytecode runs.                                                          *)
(***************************************************************************)
CurrentScript == Last(machine.scripts)
InScript == Running /\ machine.pc = 0 /\ ~machine.nativeFailed /\ machine.scripts # << >>
Visits(op) == /\ InScript
              /\ CurrentScript.ip \in DOMAIN CurrentScript.ops
              /\ CurrentScript.ops[CurrentScript.ip].op = op
Argument == CurrentScript.ops[CurrentScript.ip]
Visited  == [machine EXCEPT !.scripts[Len(machine.scripts)].ip = @ + 1]

visitLiteralNode == Visits("push") /\ Become(Push(Visited, Argument.oop))

visitSelfReference == Visits("pushSelf") /\ Become(Push(Visited, CurrentScript.self))

visitIdentifierExpression ==
  /\ Visits("pushVariable")
  /\ IF Argument.oop.name \in GlobalNames
     THEN Become(Push(Visited, machine.globals[Argument.oop.name]))
     ELSE Become(Stop(machine, "aborted"))

visitStatementEnd == Visits("pop") /\ Become(PopOop(Visited))

visitCascade == Visits("duplicate") /\ Become(Push(Visited, Top))

visitMessageSendNode ==
  /\ Visits("send")
  /\ Become(sendSelectorArgumentCount(Visited, Argument.oop.name, Argument.count))

visitUnimplemented == Visits("unimplemented") /\ Become(Stop(machine, "aborted"))

AtEndOfScript == InScript /\ CurrentScript.ip > Len(CurrentScript.ops)

\* executeFileNamed: answers the value of the last statement, from the frame
\* that the interpreter is in then.
EndOfNestedScript ==
  /\ AtEndOfScript /\ Len(machine.scripts) > 1
  /\ LET popped == PopOop([machine EXCEPT !.scripts = Front(@)]) IN
     Become(AfterPrimitive(returnValue(popped, Top)))

\* The host runs the file with an interpreter of its own, then sends main with
\* another one (apps/Lodtalk.cpp).
MainOps == <<ScriptOp("push", ClassOop("GlobalContext"), 0), ScriptOp("send", Symbol("main"), 0)>>
EndOfFile ==
  /\ AtEndOfScript /\ Len(machine.scripts) = 1 /\ machine.phase = "script"
  /\ LET fresh == createTerminalStackFrame([machine EXCEPT !.phase = "main"]) IN
     Become([fresh EXCEPT !.scripts = <<Script(MainOps, nil)>>])

EndOfMain ==
  /\ AtEndOfScript /\ Len(machine.scripts) = 1 /\ machine.phase = "main"
  /\ Become([PopOop(machine) EXCEPT !.status = "finished", !.answer = Top])

\* The interpreter of a file starts without a frame of its own.
InitialMachine ==
  [stack |-> [i \in 1..MaxStack |-> nil], sp |-> 0, framePointer |-> 0, pc |-> 0,
   argumentCount |-> 0, isBlock |-> FALSE, hasContext |-> FALSE, method |-> nil, heap |-> << >>,
   globals |-> [g \in GlobalNames |-> IF g \in DOMAIN ClassHierarchy THEN ClassOop(g) ELSE nil],
   methodDict |-> [c \in DOMAIN ClassHierarchy |->
                     IF c \in DOMAIN NativeMethods
                     THEN [s \in DOMAIN NativeMethods[c] |-> NativeMethod(NativeMethods[c][s])]
                     ELSE << >>],
   primitiveHasFailed |-> FALSE, nativeFailed |-> FALSE, status |-> "running", phase |-> "script", answer |-> nil,
   scripts |-> << >>]

\* The host starts with the first file.
StartedMachine == executeScriptFromFile(createTerminalStackFrame(InitialMachine), 1)

Bytecode ==
  \/ interpretPushConstant \/ interpretPushLiteral \/ interpretPushReceiver \/ interpretPushLiteralVariable
  \/ interpretStoreLiteralVariable \/ interpretPushReceiverVariable
  \/ interpretStoreReceiverVariable \/ interpretPushTemporary \/ interpretStoreTemporalVariable
  \/ interpretPopStoreTemporalVariable \/ interpretPushTemporaryInVector
  \/ interpretStoreTemporalInVector \/ interpretPopStoreTemporalInVector \/ interpretPushNTemps
  \/ interpretPushArrayWithElements \/ interpretPushClosure \/ interpretPushThisContext
  \/ interpretDuplicateStackTop \/ interpretPopStackTop \/ interpretJump
  \/ interpretConditionalJump \/ interpretSend \/ interpretSpecialMessage \/ interpretReturn
  \/ interpretBlockReturn \/ interpretCallPrimitive \/ sendNativeMethodFailed

ScriptStep ==
  \/ visitLiteralNode \/ visitSelfReference \/ visitIdentifierExpression \/ visitStatementEnd
  \/ visitCascade \/ visitMessageSendNode \/ visitUnimplemented
  \/ EndOfNestedScript \/ EndOfFile \/ EndOfMain

\* Nothing happens any more once the program has come to its end.
Halted == ~Running /\ UNCHANGED vars

Next == Bytecode \/ ScriptStep \/ Halted

\* One thread runs the program, and the operating system lets it go on.  This is
\* the weak fairness of Bytecode \/ ScriptStep with its enabling condition, which
\* is Running, in place of ENABLED: a running machine always has a next step, or
\* TLC reports a deadlock.
GoesOn == []<>~Running \/ []<><<Bytecode \/ ScriptStep>>_vars
=============================================================================
