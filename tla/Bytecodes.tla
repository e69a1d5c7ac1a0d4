----------------------------- MODULE Bytecodes -----------------------------
(***************************************************************************)
(* The instructions of vm/MethodBuilder.cpp, the bytes each of them is     *)
(* encoded to, and what the interpreter reads from these bytes             *)
(* (vm/StackInterpreter.cpp).  An instruction is a record: its class, up   *)
(* to two operands, and the index of the label it refers to.               *)
(***************************************************************************)
EXTENDS Integers, Sequences, FiniteSets

\* Instructions with one index: the opcode that includes a small index, and
\* the opcode that a byte with the index follows (SistaV1BytecodeSet.inc).
ShortForm ==
  [PushReceiverVariable |-> [first |-> 0,   count |-> 16],
   PushLiteralVariable  |-> [first |-> 16,  count |-> 16],
   PushLiteral          |-> [first |-> 32,  count |-> 32],
   PushTemporal         |-> [first |-> 64,  count |-> 12],
   PopStoreTemporal     |-> [first |-> 208, count |-> 8]]

LongForm ==
  [PushReceiverVariable |-> 226, PushLiteralVariable  |-> 227, PushLiteral      |-> 228,
   PushTemporal         |-> 229, PushNClosureTemps    |-> 230, PushArray        |-> 233,
   PopStoreTemporal     |-> 242, StoreReceiverVariable |-> 243,
   StoreLiteralVariable |-> 244, StoreTemporal        |-> 245]

VectorForm ==
  [PushTemporalInVector |-> 251, StoreTemporalInVector |-> 252, PopStoreTemporalInVector |-> 253]

\* The opcode of a jump by one byte, and the one before a byte with the distance.
JumpForm ==
  [Jump        |-> [first |-> 176, long |-> 237],
   JumpOnTrue  |-> [first |-> 184, long |-> 238],
   JumpOnFalse |-> [first |-> 192, long |-> 239]]

Jumps       == {"Jump", "JumpOnTrue", "JumpOnFalse"}
OneIndex    == {"PushReceiverVariable", "PushLiteralVariable", "PushLiteral", "PushTemporal",
                "PushNClosureTemps", "PushArray", "PopStoreTemporal", "StoreReceiverVariable",
                "StoreLiteralVariable", "StoreTemporal"}
Extensible  == {"PushReceiverVariable", "PushLiteralVariable", "PushLiteral",
                "StoreReceiverVariable", "StoreLiteralVariable"}
ThreeBytes  == {"CallPrimitive", "PushTemporalInVector", "StoreTemporalInVector",
                "PopStoreTemporalInVector"}
Classes     == {"Label", "Bytecode", "Send", "SuperSend", "PushClosure"}
                 \cup Jumps \cup OneIndex \cup ThreeBytes

\* For PushReceiverVariable b is 1 when the long form is asked for.
Instruction == [op : Classes, a : Nat, b : Nat, to : Nat]

\* The opcodes of SingleBytecodeInstruction: pushes of constants, returns, the
\* special messages and the pop.
SingleBytecodes == 76..83 \cup 88..94 \cup 96..127 \cup {216}

\* An instruction as the assembler adds it: the second operand is zero in the
\* classes that have one index only.
WellFormedInstruction(i) ==
  /\ i.op = "Bytecode" => i.a \in SingleBytecodes
  /\ i.op \in {"Bytecode", "CallPrimitive"} \cup (OneIndex \ {"PushReceiverVariable"}) => i.b = 0

(***************************************************************************)
(* Sizes.  Operands that need an extension prefix are counted, though none *)
(* is ever written: encodeExtA and encodeExtB are not implemented.         *)
(***************************************************************************)
ExtensibleBytecodeSizeMax == 16

\* Two bytes of prefix for each byte of the value; methods stay below 2^32 bytes.
ByteThresholds == {1, 256, 65536, 16777216}
sizeofExt(value) == 2 * Cardinality({t \in ByteThresholds : value >= t})

Magnitude(n) == IF n < 0 THEN -n ELSE n

\* The value of extension B for a distance: C++ division rounds towards zero.
ExtensionB(delta) == Magnitude(delta) \div 256

\* The value of extension A of an instruction.
ExtensionA(i) ==
  IF i.op = "PushClosure" THEN (i.a \div 8) * 16 + i.b \div 8
  ELSE IF i.op \in Extensible THEN i.a \div 256 ELSE 0

hasShortForm(i) ==
  \/ i.op \in DOMAIN ShortForm /\ i.a < ShortForm[i.op].count
       /\ (i.op = "PushReceiverVariable" => i.b = 0)
  \/ i.op = "Send" /\ i.b <= 2 /\ i.a < 16

\* What computeMaxSize answers for the instructions that have one size only.
FixedSize(i) ==
  CASE i.op = "Label"          -> 0
    [] i.op = "Bytecode"       -> 1
    [] i.op \in OneIndex       -> IF hasShortForm(i) THEN 1 ELSE 2 + sizeofExt(ExtensionA(i))
    [] i.op = "Send"           -> IF hasShortForm(i) THEN 1 ELSE 2
    [] i.op \in ThreeBytes     -> 3

computeMaxSize(i) ==
  CASE i.op \in Jumps       -> 2 + ExtensibleBytecodeSizeMax
    [] i.op = "PushClosure" -> 3 + sizeofExt(ExtensionA(i)) + ExtensibleBytecodeSizeMax
    [] OTHER                -> FixedSize(i)

\* delta is the distance from the end of the instruction to its label.
computeBetterSize(i, delta) ==
  CASE i.op \in Jumps       -> IF delta = 0 THEN 0
                               ELSE IF delta \in 1..8 THEN 1
                               ELSE 2 + sizeofExt(ExtensionB(delta))
    [] i.op = "PushClosure" -> 3 + sizeofExt(ExtensionA(i)) + sizeofExt(ExtensionB(delta))
    [] OTHER                -> FixedSize(i)

\* Faulty variant: a literal index of a send is not limited.
UnimplementedSuper(i) == i.op = "SuperSend"

\* Instructions that abort the compiler when their size is computed.
Unimplemented(i) ==
  \/ i.op = "SuperSend"
  \/ i.op = "Send" /\ ~hasShortForm(i) /\ (i.b > 7 \/ i.a > 31)
(***************************************************************************)
(* Encoding.                                                               *)
(***************************************************************************)
\* The instruction would need a prefix, which aborts the compiler.
NeedsExtension(i, delta) ==
  \/ i.op \in OneIndex /\ ~hasShortForm(i) /\ ExtensionA(i) # 0
  \/ i.op = "PushClosure" /\ (ExtensionA(i) # 0 \/ ExtensionB(delta) # 0)
  \/ i.op \in Jumps /\ delta \notin 0..8 /\ ExtensionB(delta) # 0

\* The operands of a closure share a byte: three bits of numArgs, and numCopied
\* shifted by seven.
ClosureByte(i) == ((i.b % 8) + (i.a % 4) * 128) % 256

encode(i, delta) ==
  CASE i.op = "Label"         -> << >>
    [] i.op = "Bytecode"      -> <<i.a>>
    [] i.op \in OneIndex      -> IF hasShortForm(i) THEN <<ShortForm[i.op].first + i.a>>
                                 ELSE <<LongForm[i.op], i.a % 256>>
    [] i.op = "Send"          -> IF hasShortForm(i) THEN <<128 + 16 * i.b + i.a>>
                                 ELSE <<234, i.b + 8 * i.a>>
    [] i.op = "CallPrimitive" -> <<248, i.a % 256, (i.a \div 256) % 256>>
    [] i.op \in ThreeBytes \ {"CallPrimitive"} -> <<VectorForm[i.op], i.a % 256, i.b % 256>>
    [] i.op = "PushClosure"   -> <<250, ClosureByte(i), delta % 256>>
    [] i.op \in Jumps         -> IF delta = 0 THEN << >>
                                 ELSE IF delta \in 1..8 THEN <<JumpForm[i.op].first + delta - 1>>
                                 ELSE <<JumpForm[i.op].long, delta % 256>>

(***************************************************************************)
(* Decoding.  fetchByte reads an unsigned byte, fetchSByte a signed one.   *)
(* next is the instruction that follows in the code, target the one that a *)
(* jump that is taken, or the creation of a closure, goes on with.         *)
(***************************************************************************)
\* Faulty variant: the distance of a jump has no sign.
FetchUnsigned(code, pc) == code[pc + 1]

fetchByte(code, pc)  == code[pc + 1]
fetchSByte(code, pc) == IF code[pc + 1] >= 128 THEN code[pc + 1] - 256 ELSE code[pc + 1]

Decoded(op, a, b, next, target) == [op |-> op, a |-> a, b |-> b, next |-> next, target |-> target]

\* The interpreter has fetched the opcode of the next instruction when a
\* conditional jump moves the pc: by one less than the distance.
DecodeJump(op, code, pc) ==
  LET opcode == fetchByte(code, pc)
      delta  == fetchSByte(code, pc + 1)
  IN IF opcode = JumpForm[op].long
     THEN Decoded(op, 0, 0, pc + 2,
                  IF op = "Jump" THEN pc + 2 + delta ELSE pc + 3 + (delta - 1))
     ELSE Decoded(op, 0, 0, pc + 1,
                  IF op = "Jump" THEN pc + 1 + (opcode - JumpForm[op].first) + 1
                  ELSE pc + 2 + (opcode - JumpForm[op].first))

DecodeClosure(code, pc) ==
  LET first == fetchByte(code, pc + 1)
  IN Decoded("PushClosure", (first \div 128) % 4, first % 8, pc + 3, pc + 3 + fetchByte(code, pc + 2))

DecodeSend(code, pc) ==
  LET opcode == fetchByte(code, pc)
      data   == fetchByte(code, pc + 1)
  IN IF opcode = 234 THEN Decoded("Send", data \div 8, data % 8, pc + 2, pc + 2)
     ELSE Decoded("Send", (opcode - 128) % 16, (opcode - 128) \div 16, pc + 1, pc + 1)

\* Faulty variant: the range is one opcode too long.
InShortFormInclusive(op, opcode) == opcode - ShortForm[op].first \in 0..ShortForm[op].count

inShortForm(op, opcode) == opcode - ShortForm[op].first \in 0..(ShortForm[op].count - 1)
inJumpForm(op, opcode)  == opcode = JumpForm[op].long \/ opcode - JumpForm[op].first \in 0..7

\* The instruction at a pc, whose opcode the interpreter has fetched.
Decode(code, pc) ==
  LET opcode == fetchByte(code, pc)
      first  == fetchByte(code, pc + 1)
      shorts == {op \in DOMAIN ShortForm : inShortForm(op, opcode)}
      longs  == {op \in DOMAIN LongForm : opcode = LongForm[op]}
      jumps  == {op \in DOMAIN JumpForm : inJumpForm(op, opcode)}
      The(ops) == CHOOSE op \in ops : TRUE
  IN CASE shorts # {} -> Decoded(The(shorts), opcode - ShortForm[The(shorts)].first, 0, pc + 1, pc + 1)
       [] longs # {}  -> Decoded(The(longs), first, 0, pc + 2, pc + 2)
       [] jumps # {}  -> DecodeJump(The(jumps), code, pc)
       [] opcode \in 128..175 \cup {234} -> DecodeSend(code, pc)
       [] opcode = 248 -> Decoded("CallPrimitive", first + 256 * fetchByte(code, pc + 2), 0, pc + 3, pc + 3)
       [] opcode = 250 -> DecodeClosure(code, pc)
       [] \E op \in DOMAIN VectorForm : opcode = VectorForm[op] ->
            Decoded(CHOOSE op \in DOMAIN VectorForm : opcode = VectorForm[op],
                    first, fetchByte(code, pc + 2), pc + 3, pc + 3)
       [] OTHER -> Decoded("Bytecode", opcode, 0, pc + 1, pc + 1)

=============================================================================
