----------------------------- MODULE Assembler -----------------------------
(***************************************************************************)
(* Assembler::generate of vm/MethodBuilder.cpp: the bytecode of a method   *)
(* is laid out, and then encoded.  The size of a jump depends on its       *)
(* distance, which depends on the sizes of the instructions in between:    *)
(* they all start at their maximum, and passes over the instruction stream *)
(* compute better ones from the positions of the pass before, until the    *)
(* whole does not get any smaller.  The passes are taken one instruction   *)
(* at a time.                                                              *)
(***************************************************************************)
EXTENDS Bytecodes

CONSTANT Streams   \* the instruction streams that the compiler builds

\* A jump goes to a label; the label of a closure, which ends its block, comes later.
WellFormed(s) ==
  \A i \in DOMAIN s :
    /\ s[i].op \in Jumps \cup {"PushClosure"} =>
         /\ s[i].to \in DOMAIN s /\ s[s[i].to].op = "Label"
         /\ s[i].op = "PushClosure" => s[i].to > i
    /\ WellFormedInstruction(s[i])

ASSUME StreamsAssumption ==
  Streams \subseteq Seq(Instruction) /\ \A s \in Streams : WellFormed(s)

VARIABLES
  instructionStream,
  phase,                     \* the loop that is running, or how it ended
  at,                        \* the next instruction of the loop
  position, size,            \* of each instruction
  lastPosition, lastSize,    \* the ones that were committed
  currentSize, oldSize,      \* bytes of the method, in this pass and the one before
  code                       \* the bytes that are encoded

vars == <<instructionStream, phase, at, position, size, lastPosition, lastSize,
          currentSize, oldSize, code>>

Indices == DOMAIN instructionStream
n       == Len(instructionStream)
Instr   == instructionStream[at]

Init ==
  /\ instructionStream \in Streams
  /\ phase = "max" /\ at = 1
  /\ position = [i \in Indices |-> 0] /\ lastPosition = position
  /\ size = [i \in Indices |-> 0] /\ lastSize = size
  /\ currentSize = 0 /\ oldSize = 0
  /\ code = << >>

abort ==
  /\ phase' = "aborted"
  /\ UNCHANGED <<instructionStream, at, position, size, lastPosition, lastSize,
                 currentSize, oldSize, code>>

\* Faulty variant: the distance is taken from the start of the instruction.
LastDeltaFromStart(i) == lastPosition[instructionStream[i].to] - lastPosition[i]

\* The distance by the positions that were committed last, and by the current ones.
lastDelta(i) == lastPosition[instructionStream[i].to] - lastPosition[i] - lastSize[i]
delta(i)     == position[instructionStream[i].to] - position[i] - size[i]

\* The blocks of closures are measured on the committed positions.
encodeDelta(i) ==
  IF instructionStream[i].op = "PushClosure"
  THEN lastPosition[instructionStream[i].to] - lastPosition[i] - size[i]
  ELSE delta(i)

Place(bytes) ==
  /\ position' = [position EXCEPT ![at] = currentSize]
  /\ size' = [size EXCEPT ![at] = bytes]
  /\ currentSize' = currentSize + bytes
  /\ at' = at + 1

ComputeMaxSize ==
  /\ phase = "max" /\ at \in Indices
  /\ ~Unimplemented(Instr)
  /\ Place(computeMaxSize(Instr))
  /\ lastPosition' = [lastPosition EXCEPT ![at] = currentSize]
  /\ lastSize' = [lastSize EXCEPT ![at] = computeMaxSize(Instr)]
  /\ UNCHANGED <<instructionStream, phase, oldSize, code>>

RefuseInstruction ==
  /\ phase = "max" /\ at \in Indices
  /\ Unimplemented(Instr)
  /\ abort

StartPass ==
  /\ phase' = "better" /\ at' = 1
  /\ oldSize' = currentSize /\ currentSize' = 0

FirstPass ==
  /\ phase = "max" /\ at \notin Indices
  /\ StartPass
  /\ UNCHANGED <<instructionStream, position, size, lastPosition, lastSize, code>>

ComputeBetterSize ==
  /\ phase = "better" /\ at \in Indices
  /\ Place(computeBetterSize(Instr, lastDelta(at)))
  /\ UNCHANGED <<instructionStream, phase, lastPosition, lastSize, oldSize, code>>

\* Faulty variant: one pass is taken to be enough.
CommitOnce ==
  /\ phase = "better" /\ at \notin Indices
  /\ lastPosition' = position /\ lastSize' = size
  /\ phase' = "encode" /\ at' = 1 /\ UNCHANGED <<oldSize, currentSize>>
  /\ UNCHANGED <<instructionStream, position, size, code>>

\* Faulty variant: do ... while(currentSize <= oldSize)
CommitUntilLarger ==
  /\ phase = "better" /\ at \notin Indices
  /\ lastPosition' = position /\ lastSize' = size
  /\ IF currentSize <= oldSize THEN StartPass
     ELSE phase' = "encode" /\ at' = 1 /\ UNCHANGED <<oldSize, currentSize>>
  /\ UNCHANGED <<instructionStream, position, size, code>>

\* do ... while(currentSize < oldSize)
CommitSizes ==
  /\ phase = "better" /\ at \notin Indices
  /\ lastPosition' = position /\ lastSize' = size
  /\ IF currentSize < oldSize THEN StartPass
     ELSE phase' = "encode" /\ at' = 1 /\ UNCHANGED <<oldSize, currentSize>>
  /\ UNCHANGED <<instructionStream, position, size, code>>

EncodeInstruction ==
  /\ phase = "encode" /\ at \in Indices
  /\ ~NeedsExtension(Instr, encodeDelta(at))
  /\ code' = code \o encode(Instr, encodeDelta(at))
  /\ phase' = IF Len(code') > currentSize THEN "corrupted" ELSE phase
  /\ at' = at + 1
  /\ UNCHANGED <<instructionStream, position, size, lastPosition, lastSize, currentSize, oldSize>>

RefuseExtension ==
  /\ phase = "encode" /\ at \in Indices
  /\ NeedsExtension(Instr, encodeDelta(at))
  /\ abort

FinishMethod ==
  /\ phase = "encode" /\ at \notin Indices
  /\ phase' = "generated"
  /\ UNCHANGED <<instructionStream, at, position, size, lastPosition, lastSize,
                 currentSize, oldSize, code>>

generate ==
  \/ ComputeMaxSize \/ RefuseInstruction
  \/ FirstPass \/ ComputeBetterSize \/ CommitSizes
  \/ EncodeInstruction \/ RefuseExtension \/ FinishMethod

Spec == Init /\ [][generate]_vars /\ WF_vars(generate)
----------------------------------------------------------------------------
TypeOK ==
  /\ instructionStream \in Streams
  /\ phase \in {"max", "better", "encode", "generated", "aborted", "corrupted"}
  /\ at \in 1..(n + 1)
  /\ \A f \in {position, size, lastPosition, lastSize} : f \in [Indices -> Nat]
  /\ currentSize \in Nat /\ oldSize \in Nat
  /\ code \in Seq(0..255)

\* The loop stops at a fixed point: with the positions that are final, no jump
\* and no closure would get another size than the one it was laid out with.
\* Were a pass to make anything larger, the loop would stop with positions
\* that belong to no layout (MethodBuilder.cpp:802-810).
LayoutIsSettled ==
  phase \in {"encode", "generated", "corrupted"} =>
    /\ position = lastPosition /\ size = lastSize
    /\ \A i \in Indices : size[i] = computeBetterSize(instructionStream[i], encodeDelta(i))

\* Every instruction is encoded where it was laid out and fills its place: the
\* buffer is never overrun ("Memory corruption", MethodBuilder.cpp:843-847) and
\* no byte is left over ("extra size", MethodBuilder.cpp:850).
CodeFits ==
  /\ phase # "corrupted"
  /\ phase = "encode" => Len(code) = IF at \in Indices THEN position[at] ELSE currentSize
  /\ phase = "generated" => Len(code) = currentSize

\* Operands that the fields of the instruction hold.
Fits(i) ==
  /\ i.a < CASE i.op = "PushArray" -> 128 [] i.op = "CallPrimitive" -> 32768
             [] i.op = "PushClosure" -> 2 [] OTHER -> 256
  /\ i.b < IF i.op = "PushClosure" THEN 8 ELSE 256

\* The interpreter reads at the place of an instruction the instruction that
\* was assembled, with its operands, and finds the next one behind it.
ReadsBack ==
  phase = "generated" =>
    \A i \in Indices :
      LET instruction == instructionStream[i]
          read        == Decode(code, position[i])
      IN size[i] > 0 /\ Fits(instruction) =>
           /\ read.op = instruction.op /\ read.next = position[i] + size[i]
           /\ instruction.op \notin Jumps => read.a = instruction.a
           /\ instruction.op \notin Jumps \cup {"PushReceiverVariable"} => read.b = instruction.b

Lands(i) == Decode(code, position[i]).target = position[instructionStream[i].to]

\* A jump that is taken goes to its label, however the sizes of the
\* instructions in between came out, if a signed byte holds the distance; a
\* closure goes on after its block.
BranchesLand ==
  phase = "generated" =>
    \A i \in Indices :
      \/ instructionStream[i].op \in Jumps /\ size[i] > 0 /\ delta(i) \in -128..127
      \/ instructionStream[i].op = "PushClosure"
      => Lands(i)

\* A jump goes to its label, with any distance that the documentation of the
\* bytecodes gives it: "#iiiiiiii (+ Extend B * 256 ...)" (SistaV1BytecodeSet.inc:65-67).
JumpsLandAsDocumented ==
  phase = "generated" =>
    \A i \in Indices : instructionStream[i].op \in Jumps /\ size[i] > 0 => Lands(i)

\* The loop over the sizes ends, and with it the assembler.
GenerateEnds == <>(phase \in {"generated", "aborted"})
=============================================================================
