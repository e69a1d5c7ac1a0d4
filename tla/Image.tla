-------------------------------- MODULE Image --------------------------------
(***************************************************************************)
(* The classes and native methods that the virtual machine starts with:    *)
(* what the class factories of Object.cpp, Collections.cpp, Method.cpp and *)
(* Compiler.cpp register.  Classes that no program of the model meets are  *)
(* left out, those between two that it has too (String and Symbol above    *)
(* ByteSymbol, the collections above Array, InstructionStream above        *)
(* Context).                                                               *)
(***************************************************************************)
EXTENDS Integers, Sequences, TLC

\* The superclass of each class; a class that a script would create is added.
NativeClasses ==
  [ProtoObject |-> "", Object |-> "ProtoObject", UndefinedObject |-> "Object",
   Behavior |-> "Object", ClassDescription |-> "Behavior", Class |-> "ClassDescription",
   Boolean |-> "Object", True |-> "Boolean", False |-> "Boolean",
   Magnitude |-> "Object", Number |-> "Magnitude", Integer |-> "Number", SmallInteger |-> "Integer",
   Float |-> "Number", SmallFloat |-> "Float", Character |-> "Magnitude",
   ByteSymbol |-> "Object", Array |-> "Object", BlockClosure |-> "Object", Context |-> "Object",
   Message |-> "Object", GlobalContext |-> "Object", ScriptContext |-> "Object",
   MethodASTHandle |-> "Object", Program |-> "Object"]

Metaclass(class) == class \o " class"

\* Each class has a metaclass; that of the root inherits from Class.
ClassHierarchy ==
  NativeClasses @@
  [metaclass \in {Metaclass(c) : c \in DOMAIN NativeClasses} |->
     LET class == CHOOSE c \in DOMAIN NativeClasses : Metaclass(c) = metaclass IN
     IF NativeClasses[class] = "" THEN "Class" ELSE Metaclass(NativeClasses[class])]

Variables ==
  [Behavior      |-> <<"superclass", "methodDict", "format", "fixedVariableCount", "layout">>,
   BlockClosure  |-> <<"outerContext", "startpc", "numArgs">>,
   Context       |-> <<"sender", "pc", "stackp", "method", "closureOrNil", "receiver", "argumentCount">>,
   Message       |-> <<"selector", "args", "lookupClass">>,
   ScriptContext |-> <<"currentCategory", "currentClass", "globalContextClass", "basePath">>,
   Program       |-> <<"count">>]

ClassVariables == [class \in DOMAIN ClassHierarchy |->
                     IF class \in DOMAIN Variables THEN Variables[class] ELSE << >>]

(***************************************************************************)
(* Native methods, by the function that implements each selector.          *)
(***************************************************************************)
NumberMessages  == <<"+", "-", "<", ">", "<=", ">=", "=", "~=", "*", "/">>
IntegerMessages == NumberMessages \o <<"\\\\", "//", "quo:", "bitAnd:", "bitOr:", "bitXor:", "bitShift:">>

\* The functions of a class for a sequence of messages.
Implementations(class, messages) ==
  [m \in {messages[i] : i \in DOMAIN messages} |-> class \o "::" \o m]
Numbered(first, class, messages) ==
  [n \in first..first + Len(messages) - 1 |-> class \o "::" \o messages[n - first + 1]]

ObjectNatives ==
  ("basicAt:" :> "Object::stAt") @@ ("basicAt:put:" :> "Object::stAtPut")
    @@ ("basicSize" :> "Object::stSize") @@ ("==" :> "Object::stIdentityEqual")
    @@ ("class" :> "Object::stClass") @@ ("at:" :> "Object::stAt")
    @@ ("at:put:" :> "Object::stAtPut") @@ ("size:" :> "Object::stSize")

BehaviorNatives ==
  ("basicNew" :> "Behavior::stBasicNew") @@ ("basicNew:" :> "Behavior::stBasicNewSize")

SmallIntegerNatives == Implementations("SmallInteger", IntegerMessages \o <<"asFloat">>)

FloatNatives == Implementations("Float", NumberMessages
                                  \o <<"truncated", "fractionPart", "exponent", "timesTwoPower:">>)

ScriptContextNatives ==
  ("category:" :> "ScriptContext::stSetCurrentCategory")
    @@ ("class:" :> "ScriptContext::stSetCurrentClass")
    @@ ("function:" :> "ScriptContext::stAddFunction")
    @@ ("method:" :> "ScriptContext::stAddMethod")
    @@ ("executeFileNamed:" :> "ScriptContext::stExecuteFileNamed")

NativeMethods ==
  [Object |-> ObjectNatives, Behavior |-> BehaviorNatives, SmallInteger |-> SmallIntegerNatives,
   Float |-> FloatNatives, ScriptContext |-> ScriptContextNatives]

\* The functions that methods can call by a number.
NumberedPrimitives ==
  Numbered(1, "SmallInteger", IntegerMessages)
  @@ Numbered(40, "SmallInteger", <<"asFloat">>)
  @@ Numbered(41, "Float", NumberMessages
                \o <<"truncated", "fractionPart", "exponent", "timesTwoPower:">>)
  @@ (60 :> "Object::stAt") @@ (61 :> "Object::stAtPut") @@ (62 :> "Object::stSize")
  @@ (70 :> "Behavior::stBasicNew") @@ (71 :> "Behavior::stBasicNewSize")
  @@ (110 :> "Object::stIdentityEqual") @@ (111 :> "Object::stClass")

\* Classes with a variable part; contexts have one too that programs do not ask for.
Indexable == {"Array", "BlockClosure"}
=============================================================================
