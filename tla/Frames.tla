------------------------------- MODULE Frames -------------------------------
(***************************************************************************)
(* What the interpreter (StackInterpreter.cpp) owes to the methods it runs *)
(* when these were generated for a known number of operands in front of    *)
(* each instruction: frames, operands and contexts that fit together.      *)
(***************************************************************************)
EXTENDS Interpreter

\* Classes whose objects hold the frames and closures of the machine.
Reserved == {"Context", "BlockClosure"}

\* The stack has room for the terminal frame and a step.  Superclasses come to an
\* end; the objects of the machine's own classes have the variables that the
\* machine uses, and are no scripts; and only scripts find the methods of scripts.
ASSUME StackAssumption == MaxStack \in Nat /\ MaxStack >= StackMargin + 7
ASSUME LineagesAssumption == \A class \in DOMAIN Superclass : Lineage[class] \in Seq(DOMAIN Superclass)
ASSUME ReservedAssumption ==
  /\ InstanceCount("Context") = 7 /\ InstanceCount("BlockClosure") = 3
  /\ \A class \in Reserved : "ScriptContext" \notin Range(LineageOf(class))
ASSUME NativesAssumption ==
  \A class \in DOMAIN NativeMethods : \A selector \in DOMAIN NativeMethods[class] :
    NativeMethods[class][selector] \in ScriptFunctions => class = "ScriptContext"

(***************************************************************************)
(* The operands of a frame, from the instruction that begins to those that *)
(* can follow it.                                                          *)
(***************************************************************************)
Growth(code) ==
  CASE code.op \in {"PushConstant", "PushLiteral", "PushLiteralVariable", "PushReceiverVariable",
                    "PushTemporal", "PushTemporalInVector", "PushArray", "PushReceiver",
                    "PushThisContext", "DuplicateStackTop"} -> 1
    [] code.op = "PushNClosureTemps" -> code.a
    [] code.op = "PushClosure" -> 1 - code.a
    [] code.op \in {"PopStoreTemporal", "PopStoreTemporalInVector", "PopStackTop",
                    "JumpOnTrue", "JumpOnFalse"} -> -1
    [] code.op \in {"Send", "SpecialMessage"} -> -code.a
    [] OTHER -> 0

\* The operands that an instruction takes.
Operands(code) ==
  CASE code.op \in {"PopStoreTemporal", "PopStoreTemporalInVector", "PopStackTop",
                    "JumpOnTrue", "JumpOnFalse"} -> 1
    [] code.op = "PushClosure" -> code.a
    [] code.op \in {"Send", "SpecialMessage"} -> code.a + 1
    [] OTHER -> 0

\* Where the machine can go on after instruction i with d operands, and with how
\* many; the code of a block begins with the values it copies.
Leaving == {"ReturnReceiver", "ReturnTop", "BlockReturnNil", "BlockReturnTop"}
Successors(code, i, d) ==
  LET after == d + Growth(code) IN
  CASE code.op \in Leaving -> {}
    [] code.op = "Jump" -> {<<i + code.to, after>>}
    [] code.op \in {"JumpOnTrue", "JumpOnFalse"} -> {<<i + 1, after>>, <<i + code.to, after>>}
    [] code.op = "PushClosure" -> {<<i + 1, code.a>>, <<i + code.to, after>>}
    [] OTHER -> {<<i + 1, after>>}

(***************************************************************************)
(* Verified programs.  expected.depths holds for each method the number of *)
(* operands in front of the instructions that can be reached; Verified is  *)
(* what a verifier of bytecodes would test with it.                        *)
(***************************************************************************)
DepthsOf(method) == expected.depths[method.value][method.name]

\* The method runs on from pc with d operands.
Reaches(method, pc, d) == LET i == FirstFrom(CodeOf(method), pc) IN
                          pc \in Nat \ {0} /\ i \in DOMAIN DepthsOf(method) /\ d = DepthsOf(method)[i]

Programmed == {CompiledMethod(k, class) : k \in DOMAIN compiled.methods,
                                          class \in UNION {DOMAIN compiled.methods[j] : j \in DOMAIN compiled.methods}}
Methods == {method \in Programmed : /\ method.name \in DOMAIN compiled.methods[method.value]
                                    /\ ~MethodOf(method).failed}

\* Every method for the selector takes that many arguments.
Takes(selector, count) ==
  /\ count \in 0..255
  /\ \A method \in Methods : MethodOf(method).selector = selector => MethodOf(method).arguments = count

Stores(method) == \E i \in DOMAIN CodeOf(method) : CodeOf(method)[i].op = "StoreReceiverVariable"

VerifiedInstruction(method, i) ==
  LET code == CodeOf(method)[i]
      d == DepthsOf(method)[i] IN
  /\ code.a \in Nat /\ code.b \in Nat
  /\ Operands(code) <= d
  /\ \A s \in Successors(code, i, d) : Reaches(method, s[1], s[2])
  /\ code.oop.tag # "pointer"
  /\ code.op = "PushLiteralVariable" => code.oop.name \in GlobalNames
  /\ code.op = "PushClosure" => code.a <= 1
  /\ code.op = "Send" => Takes(code.oop.name, code.a)
  /\ code.op = "SpecialMessage" => Takes(FallbackSelector(code.oop.name), code.a)

VerifiedMethod(method) ==
  /\ MethodOf(method).temporals \in Nat
  /\ Len(CodeOf(method)) \in Nat /\ DOMAIN CodeOf(method) = 1..Len(CodeOf(method))
  /\ DOMAIN DepthsOf(method) \subseteq DOMAIN CodeOf(method)
  /\ \A i \in DOMAIN DepthsOf(method) :
       DepthsOf(method)[i] \in Nat /\ (CodeOf(method)[i].op # "Label" => VerifiedInstruction(method, i))
  /\ Reaches(method, 1, MethodOf(method).temporals)
  /\ Stores(method) => \A class \in Reserved : method.name \notin Range(LineageOf(class))

\* The words that a script has on the stack in front of each of its operations.
OpGrowth(op) == CASE op.op = "pop" -> -1 [] op.op = "send" -> -op.count [] OTHER -> 1
ScriptDepths(ops) ==
  LET depth[ip \in 1..Len(ops) + 1] == IF ip = 1 THEN 0 ELSE depth[ip - 1] + OpGrowth(ops[ip - 1]) IN depth
ScriptDepth(script) == ScriptDepths(script.ops)[script.ip]

VerifiedOp(op, d) ==
  CASE op.op = "push" -> op.oop.tag # "pointer"
    [] op.op = "pop"  -> d >= 1
    [] op.op = "send" -> d > op.count /\ Takes(op.oop.name, op.count)
    [] OTHER -> TRUE
VerifiedScript(ops) ==
  /\ Len(ops) \in Nat /\ DOMAIN ops = 1..Len(ops)
  /\ \A ip \in DOMAIN ops : VerifiedOp(ops[ip], ScriptDepths(ops)[ip])

Verified ==
  /\ \A method \in Methods : VerifiedMethod(method)
  /\ \A file \in DOMAIN compiled.scripts : VerifiedScript(compiled.scripts[file].ops)
  /\ 1 \in DOMAIN compiled.scripts /\ compiled.scripts[1].readable
  /\ Takes("main", 0) /\ Takes("doesNotUnderstand:", 1) /\ Takes("nativeMethodFailed:", 1)

InBytecode == Running /\ machine.pc # 0

\* Failures that leave words on the stack: of a native method, which what follows
\* finds in its way, and of an access to elements by a number (stAt, stAtPut).
LeavesWords ==
  \/ machine.nativeFailed
  \/ /\ Interprets({"CallPrimitive"}) /\ Instruction.a \in DOMAIN NumberedPrimitives
     /\ NumberedPrimitives[Instruction.a] \in {"Object::stAt", "Object::stAtPut"}

\* A machine that runs a verified program without such a failure.
Starts == machine = StartedMachine
VerifiedSpec == Verified /\ Starts /\ [][Next]_vars /\ []~LeavesWords

(***************************************************************************)
(* Properties.                                                             *)
(***************************************************************************)
\* Whenever an instruction begins, the frame holds as many operands as the
\* instruction was generated for: no branch, loop, send, return or block leaves
\* a word too many or takes one that is not its own.
StackIsBalanced ==
  InBytecode /\ expected.supported =>
    machine.sp = machine.framePointer + ReceiverOffset + DepthsOf(machine.method)[machine.pc]

\* The interpreter's copies of the frame's argument count, of its block flag and
\* of its method (fetchFrameData) are those of the frame it is in.
FrameDataIsCurrent ==
  InBytecode => LET meta == machine.stack[machine.framePointer + 2] IN
                /\ machine.argumentCount = ArgumentsIn(meta)
                /\ machine.isBlock = BlockIn(meta)
                /\ machine.method = machine.stack[machine.framePointer + 1]

\* When the bytecodes that a script's message ran are through, the script finds
\* its own frame with one value for the message (ASTInterpreter::visitMessageSendNode).
ScriptsGetTheirFrameBack ==
  Running /\ machine.pc = 0 /\ Len(machine.scripts) = 1 /\ expected.supported =>
    machine.framePointer = 3 /\ machine.sp = 7 + ScriptDepth(machine.scripts[1])

\* The frames from the current one down to the terminal frame, each one found
\* in the word that its callee has saved.
Callers ==
  LET frame[n \in 0..MaxStack] == IF n = 0 THEN machine.framePointer
                                  ELSE IF frame[n - 1] = 0 THEN 0 ELSE machine.stack[frame[n - 1]].value IN
  frame
ActiveFrames == {Callers[n] : n \in 0..MaxStack} \ {0}

\* A context that points at a frame points at one that is still active and that
\* points back at it; a frame that has returned has no married context left
\* (marryFrame, widowContext).
ContextsKnowTheirFrames ==
  Running /\ expected.supported =>
    \A i \in DOMAIN machine.heap :
      LET fp == machine.heap[i].slots[1].value - 1 IN
      machine.heap[i].class = "Context" /\ machine.heap[i].slots[1].tag = "raw" =>
        /\ fp \in ActiveFrames
        /\ machine.stack[fp + 3] = Pointer(i)
        /\ HasContextIn(machine.stack[fp + 2])

\* No step changes the words below the receiver of the frame it runs in: the
\* variables and the operands of the callers.
CallersAreUntouched ==
  [][expected.supported /\ machine'.phase = machine.phase =>
       \A i \in 1..machine.framePointer - 3 - ArgumentCount(machine) :
          machine'.stack[i] = machine.stack[i]]_vars
=============================================================================
