-------------------------- MODULE AssemblerProofs --------------------------
(***************************************************************************)
(* Proofs about Assembler, for any instruction streams: the loop over the  *)
(* sizes stops at a layout that is settled, and the encoded instructions   *)
(* fill it exactly.                                                        *)
(***************************************************************************)
EXTENDS Assembler, FiniteSetTheorems, TLAPS

----------------------------------------------------------------------------
(***************************************************************************)
(* Sizes of prefixes.                                                      *)
(***************************************************************************)
LEMMA ThresholdsAreFinite ==
  ASSUME NEW T \in SUBSET ByteThresholds
  PROVE  IsFiniteSet(T) /\ Cardinality(T) \in Nat /\ Cardinality(T) <= 4
<1>1. IsFiniteSet(ByteThresholds) /\ Cardinality(ByteThresholds) <= 4
  <2> DEFINE A == {1} B == A \cup {256} C == B \cup {65536} D == C \cup {16777216}
  <2>1. IsFiniteSet(A) /\ Cardinality(A) = 1 BY FS_Singleton
  <2>2. IsFiniteSet(B) /\ Cardinality(B) = 2 BY <2>1, FS_AddElement
  <2>3. IsFiniteSet(C) /\ Cardinality(C) = 3 BY <2>2, FS_AddElement
  <2>4. IsFiniteSet(D) /\ Cardinality(D) = 4 BY <2>3, FS_AddElement
  <2>5. ByteThresholds = D BY DEF ByteThresholds
  <2>6. QED BY <2>4, <2>5
<1>2. IsFiniteSet(T) /\ Cardinality(T) <= Cardinality(ByteThresholds) BY <1>1, FS_Subset
<1>3. Cardinality(T) \in Nat /\ Cardinality(ByteThresholds) \in Nat
  BY <1>1, <1>2, FS_CardinalityType
<1>4. QED BY <1>1, <1>2, <1>3

\* An extension prefix takes at most eight bytes.
LEMMA ExtSizeBounds ==
  ASSUME NEW v \in Nat
  PROVE  sizeofExt(v) \in Nat /\ sizeofExt(v) <= 8
<1> DEFINE T == {t \in ByteThresholds : v >= t}
<1>1. T \in SUBSET ByteThresholds OBVIOUS
<1>2. Cardinality(T) \in Nat /\ Cardinality(T) <= 4 BY <1>1, ThresholdsAreFinite
<1>3. sizeofExt(v) = 2 * Cardinality(T) BY DEF sizeofExt
<1>4. QED BY <1>2, <1>3

\* A value that is zero has no prefix.
LEMMA ExtSizeOfZero == sizeofExt(0) = 0
<1> DEFINE T == {t \in ByteThresholds : 0 >= t}
<1>1. T = {} BY DEF ByteThresholds
<1>2. Cardinality(T) = 0 BY <1>1, FS_EmptySet
<1>3. QED BY <1>2 DEF sizeofExt

\* The larger value never has the shorter prefix.
LEMMA ExtSizeMonotone ==
  ASSUME NEW v \in Nat, NEW w \in Nat, v <= w
  PROVE  sizeofExt(v) <= sizeofExt(w)
<1> DEFINE V == {t \in ByteThresholds : v >= t} W == {t \in ByteThresholds : w >= t}
<1>1. V \subseteq W BY DEF ByteThresholds
<1>2. W \in SUBSET ByteThresholds /\ V \in SUBSET ByteThresholds OBVIOUS
<1>3. IsFiniteSet(W) /\ Cardinality(V) \in Nat /\ Cardinality(W) \in Nat
  BY <1>2, ThresholdsAreFinite
<1>4. Cardinality(V) <= Cardinality(W) BY <1>1, <1>3, FS_Subset
<1>5. sizeofExt(v) = 2 * Cardinality(V) /\ sizeofExt(w) = 2 * Cardinality(W) BY DEF sizeofExt
<1>6. QED BY <1>3, <1>4, <1>5

\* The extension of a branch is a natural number.
LEMMA ExtensionBType == ASSUME NEW d \in Int PROVE ExtensionB(d) \in Nat
BY DEF ExtensionB, Magnitude

\* The farther away the label is, the longer is the prefix.
LEMMA ExtensionBMonotone ==
  ASSUME NEW d \in Int, NEW e \in Int, (0 <= e /\ e <= d) \/ (d <= e /\ e < 0)
  PROVE  ExtensionB(e) <= ExtensionB(d)
<1>1. Magnitude(e) \in Nat /\ Magnitude(d) \in Nat /\ Magnitude(e) <= Magnitude(d)
  BY DEF Magnitude
<1>2. QED BY <1>1 DEF ExtensionB

\* The extension of an instruction is a natural number.
LEMMA ExtensionAType == ASSUME NEW i \in Instruction PROVE ExtensionA(i) \in Nat
<1>1. i.a \in Nat /\ i.b \in Nat BY DEF Instruction
<1>2. QED BY <1>1 DEF ExtensionA

----------------------------------------------------------------------------
(***************************************************************************)
(* Sizes of instructions.                                                  *)
(***************************************************************************)
Branches == Jumps \cup {"PushClosure"}

\* The size of an instruction that is no branch is a natural number.
LEMMA FixedSizeType ==
  ASSUME NEW i \in Instruction, ~Unimplemented(i), i.op \notin Branches
  PROVE  FixedSize(i) \in Nat
<1>1. i.op \in Classes /\ i.op # "SuperSend" BY DEF Instruction, Unimplemented
<1>2. sizeofExt(ExtensionA(i)) \in Nat BY ExtensionAType, ExtSizeBounds
<1>3. CASE i.op \in OneIndex BY <1>2, <1>3 DEF FixedSize, OneIndex
<1>4. CASE i.op \notin OneIndex
  BY <1>1, <1>4 DEF FixedSize, Classes, Branches, Jumps, OneIndex, ThreeBytes
<1>5. QED BY <1>3, <1>4

\* Only branches look at the distance.
LEMMA FixedSizes ==
  ASSUME NEW i \in Instruction, NEW d, i.op \notin Branches
  PROVE  computeBetterSize(i, d) = FixedSize(i) /\ computeMaxSize(i) = FixedSize(i)
BY DEF computeBetterSize, computeMaxSize, Branches, Jumps

\* Both sizes of an implemented instruction are natural numbers.
LEMMA BetterSizeType ==
  ASSUME NEW i \in Instruction, ~Unimplemented(i), NEW d, i.op \in Branches => d \in Int
  PROVE  computeBetterSize(i, d) \in Nat /\ computeMaxSize(i) \in Nat
<1>1. CASE i.op \notin Branches BY <1>1, FixedSizes, FixedSizeType
<1>2. CASE i.op \in Branches
  <2>1. d \in Int BY <1>2
  <2>2. sizeofExt(ExtensionA(i)) \in Nat /\ sizeofExt(ExtensionB(d)) \in Nat
    BY <2>1, ExtensionAType, ExtensionBType, ExtSizeBounds
  <2>3. QED
    BY <1>2, <2>1, <2>2 DEF computeBetterSize, computeMaxSize, Branches, Jumps, ExtensibleBytecodeSizeMax
<1>3. QED BY <1>1, <1>2

\* The size for a given distance is at most the size that the first pass reserves.
LEMMA BetterIsAtMostMax ==
  ASSUME NEW i \in Instruction, ~Unimplemented(i), NEW d, i.op \in Branches => d \in Int
  PROVE  computeBetterSize(i, d) <= computeMaxSize(i)
<1>1. CASE i.op \notin Branches BY <1>1, FixedSizes, FixedSizeType
<1>2. CASE i.op \in Branches
  <2>1. d \in Int BY <1>2
  <2>2. /\ sizeofExt(ExtensionA(i)) \in Nat
        /\ sizeofExt(ExtensionB(d)) \in Nat /\ sizeofExt(ExtensionB(d)) <= 8
    BY <2>1, ExtensionAType, ExtensionBType, ExtSizeBounds
  <2>3. QED
    BY <1>2, <2>1, <2>2 DEF computeBetterSize, computeMaxSize, Branches, Jumps, ExtensibleBytecodeSizeMax
<1>3. QED BY <1>1, <1>2

\* A label that comes nearer, from the side it was on, needs no more bytes.
LEMMA BetterSizeMonotone ==
  ASSUME NEW i \in Instruction, i.op \in Branches,
         NEW d \in Int, NEW e \in Int, (0 <= e /\ e <= d) \/ (d <= e /\ e <= 0)
  PROVE  computeBetterSize(i, e) <= computeBetterSize(i, d)
<1> DEFINE A == sizeofExt(ExtensionA(i)) D == sizeofExt(ExtensionB(d)) E == sizeofExt(ExtensionB(e))
<1>1. A \in Nat /\ D \in Nat /\ E \in Nat
  BY ExtensionAType, ExtensionBType, ExtSizeBounds
<1>2. E <= D
  <2>1. CASE e = 0
    <3>1. ExtensionB(e) = 0 BY <2>1 DEF ExtensionB, Magnitude
    <3>2. QED BY <1>1, <3>1, ExtSizeOfZero
  <2>2. CASE e # 0
    <3>1. ExtensionB(e) <= ExtensionB(d) BY <2>2, ExtensionBMonotone
    <3>2. QED BY <3>1, ExtensionBType, ExtSizeMonotone
  <2>3. QED BY <2>1, <2>2
<1> HIDE DEF A, D, E
<1>3. CASE i.op = "PushClosure"
  <2>1. computeBetterSize(i, e) = 3 + A + E /\ computeBetterSize(i, d) = 3 + A + D
    BY <1>3 DEF computeBetterSize, Jumps, A, D, E
  <2>2. QED BY <1>1, <1>2, <2>1
<1>4. CASE i.op \in Jumps
  <2> DEFINE S(x, ext) == IF x = 0 THEN 0 ELSE IF x \in 1..8 THEN 1 ELSE 2 + ext
  <2>1. computeBetterSize(i, e) = S(e, E) /\ computeBetterSize(i, d) = S(d, D)
    BY <1>4 DEF computeBetterSize, D, E, Jumps
  <2>2. CASE e = 0 \/ e \in 1..8 BY <1>1, <2>1, <2>2
  <2>3. CASE e > 8 \/ e < 0
    <3>1. S(e, E) = 2 + E /\ S(d, D) = 2 + D BY <2>3
    <3>2. QED BY <1>1, <1>2, <2>1, <3>1
  <2>4. QED BY <2>2, <2>3
<1>5. QED BY <1>3, <1>4 DEF Branches

----------------------------------------------------------------------------
(***************************************************************************)
(* Encoding: as many bytes as were computed.                               *)
(***************************************************************************)
Bytes == 0..255

\* The opcodes of the tables of forms are bytes.
LEMMA OpcodesAreBytes ==
  /\ \A op \in DOMAIN ShortForm :
        /\ ShortForm[op].first \in Nat /\ ShortForm[op].count \in Nat
        /\ ShortForm[op].first + ShortForm[op].count <= 256
  /\ \A op \in OneIndex : LongForm[op] \in Bytes
  /\ \A op \in ThreeBytes \ {"CallPrimitive"} : VectorForm[op] \in Bytes
  /\ \A op \in Jumps : JumpForm[op].long \in Bytes /\ JumpForm[op].first \in 0..247
<1>1. \A op \in DOMAIN ShortForm :
        /\ ShortForm[op].first \in Nat /\ ShortForm[op].count \in Nat
        /\ ShortForm[op].first + ShortForm[op].count <= 256
  BY DEF ShortForm
<1>2. \A op \in OneIndex : LongForm[op] \in Bytes BY DEF OneIndex, LongForm, Bytes
<1>3. \A op \in ThreeBytes \ {"CallPrimitive"} : VectorForm[op] \in Bytes
  BY DEF ThreeBytes, VectorForm, Bytes
<1>4. \A op \in Jumps : JumpForm[op].long \in Bytes /\ JumpForm[op].first \in 0..247
  BY DEF Jumps, JumpForm, Bytes
<1>5. QED BY <1>1, <1>2, <1>3, <1>4

\* Up to three bytes in a row are a sequence of bytes.
LEMMA ByteSequences ==
  /\ << >> \in Seq(Bytes) /\ Len(<< >>) = 0
  /\ \A x \in Bytes : <<x>> \in Seq(Bytes) /\ Len(<<x>>) = 1
  /\ \A x, y \in Bytes : <<x, y>> \in Seq(Bytes) /\ Len(<<x, y>>) = 2
  /\ \A x, y, z \in Bytes : <<x, y, z>> \in Seq(Bytes) /\ Len(<<x, y, z>>) = 3
OBVIOUS

\* What is left modulo 256 is a byte.
LEMMA RemaindersAreBytes == \A x \in Int : x % 256 \in Bytes
BY DEF Bytes

\* The cases of encode exclude each other.
LEMMA Kinds ==
  \A op :
    /\ op \in OneIndex   => op \notin ThreeBytes /\ op \notin Jumps
    /\ op \in ThreeBytes => op \notin Jumps
    /\ op \in OneIndex \/ op \in ThreeBytes \/ op \in Jumps =>
         op # "Label" /\ op # "Bytecode" /\ op # "Send" /\ op # "PushClosure"
    /\ op = "CallPrimitive" => op \in ThreeBytes
BY DEF OneIndex, ThreeBytes, Jumps

\* encode writes as many bytes for an instruction that is no branch as computed.
LEMMA EncodedFixed ==
  ASSUME NEW i \in Instruction, ~Unimplemented(i), NEW d, i.op \notin Branches,
         i.op = "Bytecode" => i.a \in Bytes, ~NeedsExtension(i, d)
  PROVE  encode(i, d) \in Seq(Bytes) /\ Len(encode(i, d)) = FixedSize(i)
<1>1. i.a \in Nat /\ i.b \in Nat /\ i.op \in Classes /\ i.op # "SuperSend"
  BY DEF Instruction, Unimplemented
<1>2. i.a % 256 \in Bytes /\ i.b % 256 \in Bytes /\ (i.a \div 256) % 256 \in Bytes
  BY <1>1, RemaindersAreBytes
<1>3. CASE i.op = "Label"
  <2>1. encode(i, d) = << >> /\ FixedSize(i) = 0 BY <1>3, Kinds DEF encode, FixedSize
  <2>2. QED BY <2>1, ByteSequences
<1>4. CASE i.op = "Bytecode"
  <2>1. encode(i, d) = <<i.a>> /\ FixedSize(i) = 1 BY <1>4, Kinds DEF encode, FixedSize
  <2>2. QED BY <1>4, <2>1, ByteSequences
<1>5. CASE i.op \in OneIndex
  <2>1. CASE hasShortForm(i)
    <3>1. encode(i, d) = <<ShortForm[i.op].first + i.a>> /\ FixedSize(i) = 1
      BY <1>5, <2>1, Kinds DEF encode, FixedSize
    <3>2. i.op \in DOMAIN ShortForm /\ i.a < ShortForm[i.op].count
      BY <1>5, <2>1 DEF hasShortForm, OneIndex
    <3> DEFINE f == ShortForm[i.op].first c == ShortForm[i.op].count
    <3>3. f \in Nat /\ c \in Nat /\ f + c <= 256 BY <3>2, OpcodesAreBytes
    <3>4. i.a < c BY <3>2
    <3>5. encode(i, d) = <<f + i.a>> BY <3>1
    <3> HIDE DEF f, c
    <3>6. \A a \in Nat : a < c => f + a \in Bytes BY <3>3 DEF Bytes
    <3>7. QED BY <1>1, <3>1, <3>4, <3>5, <3>6, ByteSequences
  <2>2. CASE ~hasShortForm(i)
    <3>1. encode(i, d) = <<LongForm[i.op], i.a % 256>>
      BY <1>5, <2>2, Kinds DEF encode
    <3>2. FixedSize(i) = 2 + sizeofExt(ExtensionA(i))
      BY <1>5, <2>2, Kinds DEF FixedSize
    <3>3. ExtensionA(i) = 0 BY <1>5, <2>2 DEF NeedsExtension
    <3>4. LongForm[i.op] \in Bytes BY <1>5, OpcodesAreBytes
    <3>5. QED BY <1>2, <3>1, <3>2, <3>3, <3>4, ExtSizeOfZero, ByteSequences
  <2>3. QED BY <2>1, <2>2
<1>6. CASE i.op = "Send"
  <2>1. CASE hasShortForm(i)
    <3>1. encode(i, d) = <<128 + 16 * i.b + i.a>> /\ FixedSize(i) = 1
      BY <1>6, <2>1, Kinds DEF encode, FixedSize
    <3>2. i.b <= 2 /\ i.a < 16 BY <1>6, <2>1 DEF hasShortForm, ShortForm
    <3>3. 128 + 16 * i.b + i.a \in Bytes BY <1>1, <3>2 DEF Bytes
    <3>4. QED BY <3>1, <3>3, ByteSequences
  <2>2. CASE ~hasShortForm(i)
    <3>1. encode(i, d) = <<234, i.b + 8 * i.a>> /\ FixedSize(i) = 2
      BY <1>6, <2>2, Kinds DEF encode, FixedSize
    <3>2. i.b <= 7 /\ i.a <= 31 BY <1>1, <1>6, <2>2 DEF Unimplemented
    <3>3. 234 \in Bytes /\ i.b + 8 * i.a \in Bytes BY <1>1, <3>2 DEF Bytes
    <3>4. QED BY <3>1, <3>3, ByteSequences
  <2>3. QED BY <2>1, <2>2
<1>7. CASE i.op = "CallPrimitive"
  <2>1. encode(i, d) = <<248, i.a % 256, (i.a \div 256) % 256>> /\ FixedSize(i) = 3
    BY <1>7, Kinds DEF encode, FixedSize
  <2>2. 248 \in Bytes BY DEF Bytes
  <2>3. QED BY <1>2, <2>1, <2>2, ByteSequences
<1>8. CASE i.op \in ThreeBytes \ {"CallPrimitive"}
  <2>1. encode(i, d) = <<VectorForm[i.op], i.a % 256, i.b % 256>> /\ FixedSize(i) = 3
    BY <1>8, Kinds DEF encode, FixedSize
  <2>2. VectorForm[i.op] \in Bytes BY <1>8, OpcodesAreBytes
  <2>3. QED BY <1>2, <2>1, <2>2, ByteSequences
<1>9. QED BY <1>1, <1>3, <1>4, <1>5, <1>6, <1>7, <1>8 DEF Classes, Branches

\* encode writes as many bytes for a branch as computed for its distance.
LEMMA EncodedBranch ==
  ASSUME NEW i \in Instruction, NEW d \in Int, i.op \in Branches, ~NeedsExtension(i, d)
  PROVE  encode(i, d) \in Seq(Bytes) /\ Len(encode(i, d)) = computeBetterSize(i, d)
<1>1. i.a \in Nat /\ i.b \in Nat BY DEF Instruction
<1>2. d % 256 \in Bytes BY RemaindersAreBytes
<1>3. CASE i.op = "PushClosure"
  <2>1. encode(i, d) = <<250, ClosureByte(i), d % 256>>
    BY <1>3, Kinds DEF encode
  <2>2. computeBetterSize(i, d) = 3 + sizeofExt(ExtensionA(i)) + sizeofExt(ExtensionB(d))
    BY <1>3 DEF computeBetterSize, Jumps
  <2>3. ExtensionA(i) = 0 /\ ExtensionB(d) = 0 BY <1>3 DEF NeedsExtension
  <2>4. 250 \in Bytes /\ ClosureByte(i) \in Bytes
    BY <1>1, RemaindersAreBytes DEF Bytes, ClosureByte
  <2>5. QED BY <1>2, <2>1, <2>2, <2>3, <2>4, ExtSizeOfZero, ByteSequences
<1>4. CASE i.op \in Jumps
  <2>1. JumpForm[i.op].long \in Bytes /\ JumpForm[i.op].first \in 0..247
    BY <1>4, OpcodesAreBytes
  <2>2. CASE d = 0
    <3>1. encode(i, d) = << >> /\ computeBetterSize(i, d) = 0
      BY <1>4, <2>2, Kinds DEF encode, computeBetterSize
    <3>2. QED BY <3>1, ByteSequences
  <2>3. CASE d \in 1..8
    <3>1. encode(i, d) = <<JumpForm[i.op].first + d - 1>> /\ computeBetterSize(i, d) = 1
      BY <1>4, <2>3, Kinds DEF encode, computeBetterSize
    <3> DEFINE f == JumpForm[i.op].first
    <3>2. f \in 0..247 /\ encode(i, d) = <<f + d - 1>> BY <2>1, <3>1
    <3> HIDE DEF f
    <3>3. f + d - 1 \in Bytes BY <2>3, <3>2 DEF Bytes
    <3>4. QED BY <3>1, <3>2, <3>3, ByteSequences
  <2>4. CASE d \notin 0..8
    <3>1. encode(i, d) = <<JumpForm[i.op].long, d % 256>>
      BY <1>4, <2>4, Kinds DEF encode
    <3>2. computeBetterSize(i, d) = 2 + sizeofExt(ExtensionB(d))
      BY <1>4, <2>4 DEF computeBetterSize, Jumps
    <3>3. ExtensionB(d) = 0 BY <1>4, <2>4 DEF NeedsExtension
    <3>4. QED BY <1>2, <2>1, <3>1, <3>2, <3>3, ExtSizeOfZero, ByteSequences
  <2>5. QED BY <2>2, <2>3, <2>4
<1>5. QED BY <1>3, <1>4 DEF Branches

\* encode writes as many bytes as computed, for every implemented instruction.
LEMMA EncodedSize ==
  ASSUME NEW i \in Instruction, ~Unimplemented(i), NEW d, i.op \in Branches => d \in Int,
         i.op = "Bytecode" => i.a \in Bytes, ~NeedsExtension(i, d)
  PROVE  encode(i, d) \in Seq(Bytes) /\ Len(encode(i, d)) = computeBetterSize(i, d)
<1>1. CASE i.op \in Branches BY <1>1, EncodedBranch
<1>2. CASE i.op \notin Branches BY <1>2, EncodedFixed, FixedSizes
<1>3. QED BY <1>1, <1>2

----------------------------------------------------------------------------
(***************************************************************************)
(* Decoding: the forms that an opcode is of.                               *)
(***************************************************************************)
Shorts(x)  == {op \in DOMAIN ShortForm : inShortForm(op, x)}
Longs(x)   == {op \in DOMAIN LongForm : x = LongForm[op]}
JumpOps(x) == {op \in DOMAIN JumpForm : inJumpForm(op, x)}

\* The opcodes with their argument in the byte, as ranges.
LEMMA ShortMembers ==
  ASSUME NEW x \in Int, NEW op
  PROVE  op \in Shorts(x) <=> \/ op = "PushReceiverVariable" /\ x \in 0..15
                              \/ op = "PushLiteralVariable" /\ x \in 16..31
                              \/ op = "PushLiteral" /\ x \in 32..63
                              \/ op = "PushTemporal" /\ x \in 64..75
                              \/ op = "PopStoreTemporal" /\ x \in 208..215
<1>1. DOMAIN ShortForm = {"PushReceiverVariable", "PushLiteralVariable", "PushLiteral",
                          "PushTemporal", "PopStoreTemporal"}
  BY DEF ShortForm
<1>2. /\ ShortForm["PushReceiverVariable"] = [first |-> 0, count |-> 16]
      /\ ShortForm["PushLiteralVariable"] = [first |-> 16, count |-> 16]
      /\ ShortForm["PushLiteral"] = [first |-> 32, count |-> 32]
      /\ ShortForm["PushTemporal"] = [first |-> 64, count |-> 12]
      /\ ShortForm["PopStoreTemporal"] = [first |-> 208, count |-> 8]
  BY DEF ShortForm
<1>3. /\ inShortForm("PushReceiverVariable", x) <=> x \in 0..15
      /\ inShortForm("PushLiteralVariable", x) <=> x \in 16..31
      /\ inShortForm("PushLiteral", x) <=> x \in 32..63
      /\ inShortForm("PushTemporal", x) <=> x \in 64..75
      /\ inShortForm("PopStoreTemporal", x) <=> x \in 208..215
  BY <1>2 DEF inShortForm
<1>4. QED BY <1>1, <1>3 DEF Shorts

\* The opcodes with their argument in the next byte.
LEMMA LongMembers ==
  ASSUME NEW x \in Int, NEW op
  PROVE  op \in Longs(x) <=> op \in OneIndex /\ x = LongForm[op]
<1>1. DOMAIN LongForm = OneIndex BY DEF LongForm, OneIndex
<1>2. QED BY <1>1 DEF Longs

\* No two instructions share an opcode with the argument in the next byte.
LEMMA LongOpcodes ==
  ASSUME NEW op \in OneIndex
  PROVE  /\ LongForm[op] \in {226, 227, 228, 229, 230, 233, 242, 243, 244, 245}
         /\ \A p \in OneIndex : LongForm[p] = LongForm[op] => p = op
<1>1. /\ LongForm["PushReceiverVariable"] = 226 /\ LongForm["PushLiteralVariable"] = 227
      /\ LongForm["PushLiteral"] = 228 /\ LongForm["PushTemporal"] = 229
      /\ LongForm["PushNClosureTemps"] = 230 /\ LongForm["PushArray"] = 233
      /\ LongForm["PopStoreTemporal"] = 242 /\ LongForm["StoreReceiverVariable"] = 243
      /\ LongForm["StoreLiteralVariable"] = 244 /\ LongForm["StoreTemporal"] = 245
  BY DEF LongForm
<1>2. QED BY <1>1 DEF OneIndex

\* The opcodes of the jumps, as ranges.
LEMMA JumpMembers ==
  ASSUME NEW x \in Int, NEW op
  PROVE  op \in JumpOps(x) <=> \/ op = "Jump" /\ x \in 176..183 \cup {237}
                               \/ op = "JumpOnTrue" /\ x \in 184..191 \cup {238}
                               \/ op = "JumpOnFalse" /\ x \in 192..199 \cup {239}
<1>1. DOMAIN JumpForm = {"Jump", "JumpOnTrue", "JumpOnFalse"} BY DEF JumpForm
<1>2. /\ JumpForm["Jump"] = [first |-> 176, long |-> 237]
      /\ JumpForm["JumpOnTrue"] = [first |-> 184, long |-> 238]
      /\ JumpForm["JumpOnFalse"] = [first |-> 192, long |-> 239]
  BY DEF JumpForm
<1>3. /\ inJumpForm("Jump", x) <=> x \in 176..183 \cup {237}
      /\ inJumpForm("JumpOnTrue", x) <=> x \in 184..191 \cup {238}
      /\ inJumpForm("JumpOnFalse", x) <=> x \in 192..199 \cup {239}
  BY <1>2 DEF inJumpForm
<1>4. QED BY <1>1, <1>3 DEF JumpOps

\* An opcode has one form only.
LEMMA ShortOpcode ==
  ASSUME NEW op \in DOMAIN ShortForm, NEW a \in Nat, a < ShortForm[op].count
  PROVE  Shorts(ShortForm[op].first + a) = {op}
<1>1. DOMAIN ShortForm = {"PushReceiverVariable", "PushLiteralVariable", "PushLiteral",
                          "PushTemporal", "PopStoreTemporal"}
  BY DEF ShortForm
<1>2. ShortForm[op].first + a \in Int
      /\ op \in Shorts(ShortForm[op].first + a)
  <2>1. ShortForm[op].first \in Nat /\ ShortForm[op].count \in Nat BY OpcodesAreBytes
  <2>2. PICK f \in Nat, c \in Nat : f = ShortForm[op].first /\ c = ShortForm[op].count BY <2>1
  <2>3. inShortForm(op, f + a) BY <2>2 DEF inShortForm
  <2>4. QED BY <2>2, <2>3 DEF Shorts
<1>3. PICK x \in Int : x = ShortForm[op].first + a BY <1>2
<1>4. \A p : p \in Shorts(x) => p = op
  <2>1. op \in Shorts(x) BY <1>2, <1>3
  <2>2. TAKE p
  <2>3. HAVE p \in Shorts(x)
  <2>4. QED BY <2>1, <2>3, ShortMembers
<1>5. QED BY <1>2, <1>3, <1>4

\* An opcode with its argument in the next byte belongs to that one instruction.
LEMMA LongOpcode ==
  ASSUME NEW op \in OneIndex
  PROVE  Shorts(LongForm[op]) = {} /\ Longs(LongForm[op]) = {op}
<1>1. PICK x \in Int : /\ x = LongForm[op]
                       /\ x \in {226, 227, 228, 229, 230, 233, 242, 243, 244, 245}
  BY LongOpcodes
<1>2. Shorts(x) = {} BY <1>1, ShortMembers
<1>3. Longs(x) = {op} BY <1>1, LongMembers, LongOpcodes
<1>4. QED BY <1>1, <1>2, <1>3

\* The opcodes of all other forms are outside the ranges of the first ones.
LEMMA OtherOpcodes ==
  ASSUME NEW x \in 128..175 \cup {234, 248, 250, 251, 252, 253} \cup SingleBytecodes
  PROVE  Shorts(x) = {} /\ Longs(x) = {} /\ JumpOps(x) = {}
<1>1. x \in Int /\ x \notin 0..75 /\ x \notin 208..215 /\ x \notin 176..199
      /\ x \notin {226, 227, 228, 229, 230, 233, 242, 243, 244, 245, 237, 238, 239}
  BY DEF SingleBytecodes
<1>2. Shorts(x) = {} BY <1>1, ShortMembers
<1>3. Longs(x) = {} BY <1>1, LongMembers, LongOpcodes
<1>4. JumpOps(x) = {} BY <1>1, JumpMembers
<1>5. QED BY <1>2, <1>3, <1>4

\* An opcode of a jump belongs to that one jump.
LEMMA JumpOpcode ==
  ASSUME NEW op \in Jumps, NEW x \in Int,
         x = JumpForm[op].long \/ x - JumpForm[op].first \in 0..7
  PROVE  Shorts(x) = {} /\ Longs(x) = {} /\ JumpOps(x) = {op}
<1>1. DOMAIN JumpForm = Jumps BY DEF JumpForm, Jumps
<1>2. op \in JumpOps(x) BY <1>1 DEF JumpOps, inJumpForm
<1>3. x \in 176..199 \cup {237, 238, 239} BY <1>2, JumpMembers
<1>4. Shorts(x) = {} BY <1>3, ShortMembers
<1>5. Longs(x) = {} BY <1>3, LongMembers, LongOpcodes
<1>6. JumpOps(x) = {op} BY <1>2, JumpMembers
<1>7. QED BY <1>4, <1>5, <1>6

\* The element of a set that has one.
Only(ops) == CHOOSE op \in ops : TRUE

\* What Only chooses.
LEMMA OnlyOne == ASSUME NEW op PROVE Only({op}) = op /\ {op} # {}
BY DEF Only

\* Decode, by the form that an opcode has.
LEMMA DecodeByForm ==
  ASSUME NEW c, NEW pc
  PROVE  LET opcode == c[pc + 1]
             first  == c[(pc + 1) + 1] IN
    Decode(c, pc) =
      CASE Shorts(opcode) # {} ->
             Decoded(Only(Shorts(opcode)), opcode - ShortForm[Only(Shorts(opcode))].first, 0, pc + 1, pc + 1)
        [] Longs(opcode) # {} -> Decoded(Only(Longs(opcode)), first, 0, pc + 2, pc + 2)
        [] JumpOps(opcode) # {} -> DecodeJump(Only(JumpOps(opcode)), c, pc)
        [] opcode \in 128..175 \cup {234} -> DecodeSend(c, pc)
        [] opcode = 248 -> Decoded("CallPrimitive", first + 256 * c[(pc + 2) + 1], 0, pc + 3, pc + 3)
        [] opcode = 250 -> DecodeClosure(c, pc)
        [] \E op \in DOMAIN VectorForm : opcode = VectorForm[op] ->
             Decoded(CHOOSE op \in DOMAIN VectorForm : opcode = VectorForm[op],
                     first, c[(pc + 2) + 1], pc + 3, pc + 3)
        [] OTHER -> Decoded("Bytecode", opcode, 0, pc + 1, pc + 1)
BY Zenon DEF Decode, Shorts, Longs, JumpOps, Only, fetchByte

\* The opcodes of the instructions on temporary vectors.
LEMMA VectorOpcodes == \A op \in DOMAIN VectorForm : VectorForm[op] \in {251, 252, 253}
BY DEF VectorForm

\* An opcode has one form, so that one case of Decode applies.
LEMMA FormsExclude ==
  ASSUME NEW x \in Int
  PROVE  /\ Shorts(x) # {} => Longs(x) = {} /\ JumpOps(x) = {}
         /\ Longs(x) # {} => JumpOps(x) = {}
         /\ Shorts(x) # {} \/ Longs(x) # {} \/ JumpOps(x) # {} =>
              /\ x \notin 128..175 \cup {234} /\ x # 248 /\ x # 250
              /\ ~ \E op \in DOMAIN VectorForm : x = VectorForm[op]
<1>1. Shorts(x) # {} => x \in 0..75 \cup 208..215 BY ShortMembers
<1>2. Longs(x) # {} => x \in {226, 227, 228, 229, 230, 233, 242, 243, 244, 245}
  BY LongMembers, LongOpcodes
<1>3. JumpOps(x) # {} => x \in 176..199 \cup {237, 238, 239} BY JumpMembers
<1>4. QED BY <1>1, <1>2, <1>3, VectorOpcodes

\* Decode of an opcode with its argument in the byte.
LEMMA DecodeShort ==
  ASSUME NEW c, NEW pc, NEW op, c[pc + 1] \in Int, Shorts(c[pc + 1]) = {op}
  PROVE  Decode(c, pc) = Decoded(op, c[pc + 1] - ShortForm[op].first, 0, pc + 1, pc + 1)
<1> DEFINE x == c[pc + 1]
<1>1. Shorts(x) # {} /\ Only(Shorts(x)) = op BY OnlyOne
<1>2. /\ Longs(x) = {} /\ JumpOps(x) = {}
      /\ x \notin 128..175 \cup {234} /\ x # 248 /\ x # 250
      /\ ~ \E p \in DOMAIN VectorForm : x = VectorForm[p]
  BY <1>1, FormsExclude
<1>3. Decode(c, pc) =
        Decoded(Only(Shorts(x)), x - ShortForm[Only(Shorts(x))].first, 0, pc + 1, pc + 1)
  BY <1>1, <1>2, DecodeByForm
<1>4. QED BY <1>1, <1>3

\* Decode of an opcode with its argument in the next byte.
LEMMA DecodeLong ==
  ASSUME NEW c, NEW pc, NEW op, c[pc + 1] \in Int, Shorts(c[pc + 1]) = {}, Longs(c[pc + 1]) = {op}
  PROVE  Decode(c, pc) = Decoded(op, c[(pc + 1) + 1], 0, pc + 2, pc + 2)
<1> DEFINE x == c[pc + 1]
<1>1. Longs(x) # {} /\ Only(Longs(x)) = op BY OnlyOne
<1>2. /\ Shorts(x) = {} /\ JumpOps(x) = {}
      /\ x \notin 128..175 \cup {234} /\ x # 248 /\ x # 250
      /\ ~ \E p \in DOMAIN VectorForm : x = VectorForm[p]
  BY <1>1, FormsExclude
<1>3. Decode(c, pc) = Decoded(Only(Longs(x)), c[(pc + 1) + 1], 0, pc + 2, pc + 2)
  BY <1>1, <1>2, DecodeByForm
<1>4. QED BY <1>1, <1>3

\* Decode of the opcode of a jump.
LEMMA DecodeAJump ==
  ASSUME NEW c, NEW pc, NEW op, c[pc + 1] \in Int,
         Shorts(c[pc + 1]) = {}, Longs(c[pc + 1]) = {}, JumpOps(c[pc + 1]) = {op}
  PROVE  Decode(c, pc) = DecodeJump(op, c, pc)
<1> DEFINE x == c[pc + 1]
<1>1. JumpOps(x) # {} /\ Only(JumpOps(x)) = op BY OnlyOne
<1>2. /\ Shorts(x) = {} /\ Longs(x) = {}
      /\ x \notin 128..175 \cup {234} /\ x # 248 /\ x # 250
      /\ ~ \E p \in DOMAIN VectorForm : x = VectorForm[p]
  BY <1>1, FormsExclude
<1>3. Decode(c, pc) = DecodeJump(Only(JumpOps(x)), c, pc) BY <1>1, <1>2, DecodeByForm
<1>4. QED BY <1>1, <1>3

DecodedOther(c, pc, opcode) ==
  CASE opcode \in 128..175 \cup {234} -> DecodeSend(c, pc)
    [] opcode = 248 ->
         Decoded("CallPrimitive", c[(pc + 1) + 1] + 256 * c[(pc + 2) + 1], 0, pc + 3, pc + 3)
    [] opcode = 250 -> DecodeClosure(c, pc)
    [] \E op \in DOMAIN VectorForm : opcode = VectorForm[op] ->
         Decoded(Only({op \in DOMAIN VectorForm : opcode = VectorForm[op]}),
                 c[(pc + 1) + 1], c[(pc + 2) + 1], pc + 3, pc + 3)
    [] OTHER -> Decoded("Bytecode", opcode, 0, pc + 1, pc + 1)

\* Decode of the opcodes of all other forms.
LEMMA DecodeOther ==
  ASSUME NEW c, NEW pc,
         c[pc + 1] \in 128..175 \cup {234, 248, 250, 251, 252, 253} \cup SingleBytecodes
  PROVE  Decode(c, pc) = DecodedOther(c, pc, c[pc + 1])
<1> DEFINE opcode == c[pc + 1]
<1>1. Shorts(opcode) = {} /\ Longs(opcode) = {} /\ JumpOps(opcode) = {} BY OtherOpcodes
<1>2. QED BY <1>1 DEF Decode, DecodedOther, Shorts, Longs, JumpOps, Only, fetchByte

\* Decode of a bytecode without arguments.
LEMMA DecodePlain ==
  ASSUME NEW c, NEW pc, c[pc + 1] \in SingleBytecodes
  PROVE  Decode(c, pc) = Decoded("Bytecode", c[pc + 1], 0, pc + 1, pc + 1)
<1>1. c[pc + 1] \in 128..175 \cup {234, 248, 250, 251, 252, 253} \cup SingleBytecodes
      /\ c[pc + 1] \notin 128..175 \cup {234, 248, 250, 251, 252, 253}
  BY DEF SingleBytecodes
<1>2. ~ \E op \in DOMAIN VectorForm : c[pc + 1] = VectorForm[op] BY <1>1, VectorOpcodes
<1>3. Decode(c, pc) = DecodedOther(c, pc, c[pc + 1]) BY <1>1, DecodeOther
<1>4. QED BY <1>1, <1>2, <1>3 DEF DecodedOther

\* Decode of the opcode of a send.
LEMMA DecodeASend ==
  ASSUME NEW c, NEW pc, c[pc + 1] \in 128..175 \cup {234}
  PROVE  Decode(c, pc) = DecodeSend(c, pc)
<1>1. c[pc + 1] \in 128..175 \cup {234, 248, 250, 251, 252, 253} \cup SingleBytecodes
      /\ c[pc + 1] \notin {251, 252, 253}
  OBVIOUS
<1>2. ~ \E op \in DOMAIN VectorForm : c[pc + 1] = VectorForm[op] BY <1>1, VectorOpcodes
<1>3. Decode(c, pc) = DecodedOther(c, pc, c[pc + 1]) BY <1>1, DecodeOther
<1>4. QED BY <1>1, <1>2, <1>3 DEF DecodedOther

\* Decode of the call of a primitive.
LEMMA DecodePrimitive ==
  ASSUME NEW c, NEW pc, c[pc + 1] = 248
  PROVE  Decode(c, pc) =
           Decoded("CallPrimitive", c[(pc + 1) + 1] + 256 * c[(pc + 2) + 1], 0, pc + 3, pc + 3)
<1>1. c[pc + 1] \in 128..175 \cup {234, 248, 250, 251, 252, 253} \cup SingleBytecodes
      /\ c[pc + 1] \notin {251, 252, 253}
  OBVIOUS
<1>2. ~ \E op \in DOMAIN VectorForm : c[pc + 1] = VectorForm[op] BY <1>1, VectorOpcodes
<1>3. Decode(c, pc) = DecodedOther(c, pc, c[pc + 1]) BY <1>1, DecodeOther
<1>4. QED BY <1>1, <1>2, <1>3 DEF DecodedOther

\* Decode of the creation of a closure.
LEMMA DecodeAClosure ==
  ASSUME NEW c, NEW pc, c[pc + 1] = 250
  PROVE  Decode(c, pc) = DecodeClosure(c, pc)
<1>1. c[pc + 1] \in 128..175 \cup {234, 248, 250, 251, 252, 253} \cup SingleBytecodes
      /\ c[pc + 1] \notin {251, 252, 253}
  OBVIOUS
<1>2. ~ \E op \in DOMAIN VectorForm : c[pc + 1] = VectorForm[op] BY <1>1, VectorOpcodes
<1>3. Decode(c, pc) = DecodedOther(c, pc, c[pc + 1]) BY <1>1, DecodeOther
<1>4. QED BY <1>1, <1>2, <1>3 DEF DecodedOther

\* Decode of an instruction on a temporary vector.
LEMMA DecodeVector ==
  ASSUME NEW c, NEW pc, NEW op \in DOMAIN VectorForm, c[pc + 1] = VectorForm[op]
  PROVE  Decode(c, pc) = Decoded(op, c[(pc + 1) + 1], c[(pc + 2) + 1], pc + 3, pc + 3)
<1> DEFINE vectors == {p \in DOMAIN VectorForm : c[pc + 1] = VectorForm[p]}
<1>1. c[pc + 1] \in {251, 252, 253} BY VectorOpcodes
<1>2. \E p \in DOMAIN VectorForm : c[pc + 1] = VectorForm[p] OBVIOUS
<1>3. Decode(c, pc) = Decoded(Only(vectors), c[(pc + 1) + 1], c[(pc + 2) + 1], pc + 3, pc + 3)
  <2>1. Decode(c, pc) = DecodedOther(c, pc, c[pc + 1]) BY <1>1, DecodeOther
  <2>2. QED BY <1>1, <1>2, <2>1 DEF DecodedOther
<1>4. vectors = {op} BY DEF VectorForm
<1> HIDE DEF vectors
<1>5. Only(vectors) = op BY <1>4, OnlyOne
<1>6. QED BY <1>3, <1>5

\* The bytes are in the code from a pc on.
Holds(c, pc, bytes) == \A j \in 1..Len(bytes) : c[pc + j] = bytes[j]

\* The first bytes of code that holds an instruction are those of the instruction.
LEMMA HeldBytes ==
  ASSUME NEW c, NEW pc \in Nat, NEW bytes, Holds(c, pc, bytes)
  PROVE  /\ Len(bytes) \in {1, 2, 3} => c[pc + 1] = bytes[1]
         /\ Len(bytes) \in {2, 3} => c[(pc + 1) + 1] = bytes[2]
         /\ Len(bytes) = 3 => c[(pc + 2) + 1] = bytes[3]
<1>1. (pc + 1) + 1 = pc + 2 /\ (pc + 2) + 1 = pc + 3 OBVIOUS
<1>2. /\ \A k \in {1, 2, 3} : 1 \in 1..k
      /\ \A k \in {2, 3} : 2 \in 1..k
      /\ 3 \in 1..3
  OBVIOUS
<1>3. Len(bytes) \in {1, 2, 3} => 1 \in 1..Len(bytes) BY <1>2, Zenon
<1>4. /\ Len(bytes) \in {2, 3} => 2 \in 1..Len(bytes)
      /\ Len(bytes) = 3 => 3 \in 1..Len(bytes)
  BY <1>2, Zenon
<1>5. QED BY <1>1, <1>2, <1>3, <1>4 DEF Holds

\* What the interpreter computes from bytes is what was split into them.
LEMMA Remainders ==
  /\ \A x \in Nat : x < 256 => x % 256 = x
  /\ \A x \in Nat : x < 32768 => (x % 256) + 256 * ((x \div 256) % 256) = x
  /\ \A a \in 0..31, b \in 0..7 : (b + 8 * a) \div 8 = a /\ (b + 8 * a) % 8 = b
  /\ \A a \in 0..15, b \in 0..2 :
        (128 + 16 * b + a - 128) % 16 = a /\ (128 + 16 * b + a - 128) \div 16 = b
  /\ \A a \in 0..1, b \in 0..7 :
        LET byte == ((b % 8) + (a % 4) * 128) % 256
        IN (byte \div 128) % 4 = a /\ byte % 8 = b
<1>1. \A x \in Nat : x < 256 => x % 256 = x OBVIOUS
<1>2. \A x \in Nat : x < 32768 => (x % 256) + 256 * ((x \div 256) % 256) = x OBVIOUS
<1>3. \A a \in 0..31, b \in 0..7 : (b + 8 * a) \div 8 = a /\ (b + 8 * a) % 8 = b OBVIOUS
<1>4. \A a \in 0..15, b \in 0..2 :
        (128 + 16 * b + a - 128) % 16 = a /\ (128 + 16 * b + a - 128) \div 16 = b
  OBVIOUS
<1>5. \A a \in 0..1, b \in 0..7 :
        LET byte == ((b % 8) + (a % 4) * 128) % 256
        IN (byte \div 128) % 4 = a /\ byte % 8 = b
  OBVIOUS
<1>6. QED BY <1>1, <1>2, <1>3, <1>4, <1>5

\* The interpreter reads the instruction that was encoded, and the next one
\* behind it.
LEMMA DecodedFixed ==
  ASSUME NEW c, NEW pc \in Nat, NEW i \in Instruction, NEW d,
         ~Unimplemented(i), WellFormedInstruction(i), Fits(i), ~NeedsExtension(i, d),
         i.op \notin Branches, i.op # "Label", Holds(c, pc, encode(i, d))
  PROVE  Decode(c, pc) = Decoded(i.op, i.a, IF i.op = "PushReceiverVariable" THEN 0 ELSE i.b,
                                 pc + FixedSize(i), pc + FixedSize(i))
<1>1. i.a \in Nat /\ i.b \in Nat /\ i.op \in Classes /\ i.op # "SuperSend"
  BY DEF Instruction, Unimplemented
<1>2. CASE i.op = "Bytecode"
  <2>1. encode(i, d) = <<i.a>> /\ FixedSize(i) = 1 BY <1>2, Kinds DEF encode, FixedSize
  <2>2. c[pc + 1] = i.a BY <2>1, HeldBytes
  <2>3. i.a \in SingleBytecodes /\ i.b = 0 BY <1>2 DEF WellFormedInstruction
  <2>4. Decode(c, pc) = Decoded("Bytecode", c[pc + 1], 0, pc + 1, pc + 1)
    BY <2>2, <2>3, DecodePlain
  <2>5. QED BY <1>2, <2>1, <2>2, <2>3, <2>4
<1>3. CASE i.op \in OneIndex
  <2>1. (IF i.op = "PushReceiverVariable" THEN 0 ELSE i.b) = 0 BY <1>3 DEF WellFormedInstruction
  <2>2. CASE hasShortForm(i)
    <3>1. encode(i, d) = <<ShortForm[i.op].first + i.a>> /\ FixedSize(i) = 1
      BY <1>3, <2>2, Kinds DEF encode, FixedSize
    <3>2. i.op \in DOMAIN ShortForm /\ i.a < ShortForm[i.op].count
      BY <1>3, <2>2 DEF hasShortForm, OneIndex
    <3>3. PICK f \in Nat : f = ShortForm[i.op].first BY <3>2, OpcodesAreBytes
    <3>4. c[pc + 1] = f + i.a BY <3>1, <3>3, HeldBytes
    <3>5. Shorts(c[pc + 1]) = {i.op} BY <1>1, <3>2, <3>3, <3>4, ShortOpcode
    <3>6. c[pc + 1] \in Int BY <1>1, <3>4
    <3>7. Decode(c, pc) = Decoded(i.op, c[pc + 1] - ShortForm[i.op].first, 0, pc + 1, pc + 1)
      BY <3>5, <3>6, DecodeShort
    <3>8. c[pc + 1] - ShortForm[i.op].first = i.a BY <1>1, <3>3, <3>4
    <3>9. QED BY <2>1, <3>1, <3>7, <3>8
  <2>3. CASE ~hasShortForm(i)
    <3>1. encode(i, d) = <<LongForm[i.op], i.a % 256>> BY <1>3, <2>3, Kinds DEF encode
    <3>2. FixedSize(i) = 2 + sizeofExt(ExtensionA(i)) BY <1>3, <2>3, Kinds DEF FixedSize
    <3>3. ExtensionA(i) = 0 BY <1>3, <2>3 DEF NeedsExtension
    <3>4. FixedSize(i) = 2 BY <3>2, <3>3, ExtSizeOfZero
    <3>5. c[pc + 1] = LongForm[i.op] /\ c[(pc + 1) + 1] = i.a % 256 BY <3>1, HeldBytes
    <3>6. c[pc + 1] \in Int BY <1>3, <3>5, LongOpcodes
    <3>7. Shorts(c[pc + 1]) = {} /\ Longs(c[pc + 1]) = {i.op} BY <1>3, <3>5, LongOpcode
    <3>8. Decode(c, pc) = Decoded(i.op, i.a % 256, 0, pc + 2, pc + 2)
      BY <3>5, <3>6, <3>7, DecodeLong
    <3>9. i.a < 256
      <4>1. i.op # "CallPrimitive" /\ i.op # "PushClosure" BY <1>3, Kinds
      <4>2. i.op = "PushArray" \/ i.op # "PushArray" OBVIOUS
      <4>3. i.a < (IF i.op = "PushArray" THEN 128 ELSE 256) BY <4>1 DEF Fits
      <4>4. QED BY <1>1, <4>3
    <3>10. i.a % 256 = i.a BY <1>1, <3>9, Remainders
    <3>11. QED BY <2>1, <3>4, <3>8, <3>10
  <2>4. QED BY <2>2, <2>3
<1>4. CASE i.op = "Send"
  <2>1. CASE hasShortForm(i)
    <3>1. encode(i, d) = <<128 + 16 * i.b + i.a>> /\ FixedSize(i) = 1
      BY <1>4, <2>1, Kinds DEF encode, FixedSize
    <3>2. i.b \in 0..2 /\ i.a \in 0..15 BY <1>1, <1>4, <2>1 DEF hasShortForm, ShortForm
    <3>3. PICK x : x = 128 + 16 * i.b + i.a OBVIOUS
    <3>4. x \in 128..175 /\ (x - 128) % 16 = i.a /\ (x - 128) \div 16 = i.b
      BY <3>2, <3>3, Remainders
    <3>5. c[pc + 1] = x BY <3>1, <3>3, HeldBytes
    <3>6. Decode(c, pc) = DecodeSend(c, pc) BY <3>4, <3>5, DecodeASend
    <3>7. DecodeSend(c, pc) = Decoded("Send", (x - 128) % 16, (x - 128) \div 16, pc + 1, pc + 1)
      BY <3>4, <3>5 DEF DecodeSend, fetchByte
    <3>8. QED BY <1>4, <3>1, <3>4, <3>6, <3>7
  <2>2. CASE ~hasShortForm(i)
    <3>1. encode(i, d) = <<234, i.b + 8 * i.a>> /\ FixedSize(i) = 2
      BY <1>4, <2>2, Kinds DEF encode, FixedSize
    <3>2. i.b \in 0..7 /\ i.a \in 0..31 BY <1>1, <1>4, <2>2 DEF Unimplemented
    <3>3. PICK x : x = i.b + 8 * i.a OBVIOUS
    <3>4. x \div 8 = i.a /\ x % 8 = i.b BY <3>2, <3>3, Remainders
    <3>5. c[pc + 1] = 234 /\ c[(pc + 1) + 1] = x BY <3>1, <3>3, HeldBytes
    <3>6. Decode(c, pc) = DecodeSend(c, pc) BY <3>5, DecodeASend
    <3>7. DecodeSend(c, pc) = Decoded("Send", x \div 8, x % 8, pc + 2, pc + 2)
      BY <3>5 DEF DecodeSend, fetchByte
    <3>8. QED BY <1>4, <3>1, <3>4, <3>6, <3>7
  <2>3. QED BY <2>1, <2>2
<1>5. CASE i.op = "CallPrimitive"
  <2>1. encode(i, d) = <<248, i.a % 256, (i.a \div 256) % 256>> /\ FixedSize(i) = 3
    BY <1>5, Kinds DEF encode, FixedSize
  <2>2. i.a < 32768 BY <1>5 DEF Fits
  <2>3. i.b = 0 BY <1>5 DEF WellFormedInstruction
  <2>4. /\ c[pc + 1] = 248 /\ c[(pc + 1) + 1] = i.a % 256
        /\ c[(pc + 2) + 1] = (i.a \div 256) % 256
    BY <2>1, HeldBytes
  <2>5. Decode(c, pc) =
          Decoded("CallPrimitive", (i.a % 256) + 256 * ((i.a \div 256) % 256), 0, pc + 3, pc + 3)
    BY <2>4, DecodePrimitive
  <2>6. (i.a % 256) + 256 * ((i.a \div 256) % 256) = i.a BY <1>1, <2>2, Remainders
  <2>7. QED BY <1>5, <2>1, <2>3, <2>5, <2>6
<1>6. CASE i.op \in ThreeBytes \ {"CallPrimitive"}
  <2>1. encode(i, d) = <<VectorForm[i.op], i.a % 256, i.b % 256>> /\ FixedSize(i) = 3
    BY <1>6, Kinds DEF encode, FixedSize
  <2>2. i.a < 256 /\ i.b < 256
    <3>1. i.op # "PushArray" /\ i.op # "CallPrimitive" /\ i.op # "PushClosure"
      BY <1>6 DEF ThreeBytes
    <3>2. QED BY <3>1 DEF Fits
  <2>3. i.a % 256 = i.a /\ i.b % 256 = i.b BY <1>1, <2>2, Remainders
  <2>4. /\ c[pc + 1] = VectorForm[i.op] /\ c[(pc + 1) + 1] = i.a /\ c[(pc + 2) + 1] = i.b
    BY <2>1, <2>3, HeldBytes
  <2>5. i.op \in DOMAIN VectorForm BY <1>6 DEF VectorForm, ThreeBytes
  <2>6. Decode(c, pc) = Decoded(i.op, c[(pc + 1) + 1], c[(pc + 2) + 1], pc + 3, pc + 3)
    BY <2>4, <2>5, DecodeVector
  <2>7. i.op # "PushReceiverVariable" BY <1>6 DEF ThreeBytes
  <2>8. QED BY <2>1, <2>4, <2>6, <2>7
<1>7. QED BY <1>1, <1>2, <1>3, <1>4, <1>5, <1>6 DEF Classes, Branches

\* A signed byte is read back from its remainder.
LEMMA SignedBytes ==
  \A d \in -128..127 : (IF d % 256 >= 128 THEN (d % 256) - 256 ELSE d % 256) = d
OBVIOUS

\* A jump that is taken goes on at its distance behind the instruction, if a
\* signed byte holds the distance.
LEMMA DecodedJump ==
  ASSUME NEW c, NEW pc \in Nat, NEW i \in Instruction, NEW d \in Int,
         i.op \in Jumps, d # 0, ~NeedsExtension(i, d), Holds(c, pc, encode(i, d))
  PROVE  /\ Decode(c, pc).op = i.op
         /\ Decode(c, pc).next = pc + computeBetterSize(i, d)
         /\ d \in -128..127 => Decode(c, pc).target = pc + computeBetterSize(i, d) + d
<1>1. PICK f \in Int, l \in Int : f = JumpForm[i.op].first /\ l = JumpForm[i.op].long
  <2>1. /\ JumpForm["Jump"] = [first |-> 176, long |-> 237]
        /\ JumpForm["JumpOnTrue"] = [first |-> 184, long |-> 238]
        /\ JumpForm["JumpOnFalse"] = [first |-> 192, long |-> 239]
    BY DEF JumpForm
  <2>2. QED BY <2>1 DEF Jumps
<1>2. ~(l - f \in 0..7)
  <2>1. /\ JumpForm["Jump"] = [first |-> 176, long |-> 237]
        /\ JumpForm["JumpOnTrue"] = [first |-> 184, long |-> 238]
        /\ JumpForm["JumpOnFalse"] = [first |-> 192, long |-> 239]
    BY DEF JumpForm
  <2>2. QED BY <1>1, <2>1 DEF Jumps
<1>3. CASE d \in 1..8
  <2>1. encode(i, d) = <<f + d - 1>> /\ computeBetterSize(i, d) = 1
    BY <1>1, <1>3, Kinds DEF encode, computeBetterSize
  <2>2. c[pc + 1] = f + d - 1 BY <2>1, HeldBytes
  <2>3. c[pc + 1] \in Int /\ c[pc + 1] - f = d - 1 /\ c[pc + 1] - f \in 0..7 BY <1>3, <2>2
  <2>4. /\ Shorts(c[pc + 1]) = {} /\ Longs(c[pc + 1]) = {} /\ JumpOps(c[pc + 1]) = {i.op}
    BY <1>1, <2>3, JumpOpcode
  <2>5. Decode(c, pc) = DecodeJump(i.op, c, pc) BY <2>3, <2>4, DecodeAJump
  <2>6. c[pc + 1] # l BY <1>2, <2>3
  <2>7. DecodeJump(i.op, c, pc) =
          Decoded(i.op, 0, 0, pc + 1, IF i.op = "Jump" THEN pc + 1 + (d - 1) + 1 ELSE pc + 2 + (d - 1))
    BY <1>1, <2>3, <2>6 DEF DecodeJump, fetchByte
  <2>8. (IF i.op = "Jump" THEN pc + 1 + (d - 1) + 1 ELSE pc + 2 + (d - 1)) = pc + 1 + d OBVIOUS
  <2>9. QED BY <2>1, <2>5, <2>7, <2>8 DEF Decoded
<1>4. CASE d \notin 1..8
  <2>1. d \notin 0..8 BY <1>4
  <2>2. encode(i, d) = <<l, d % 256>> BY <1>1, <2>1, Kinds DEF encode
  <2>3. computeBetterSize(i, d) = 2 + sizeofExt(ExtensionB(d))
    BY <2>1 DEF computeBetterSize, Jumps
  <2>4. ExtensionB(d) = 0 BY <2>1 DEF NeedsExtension
  <2>5. computeBetterSize(i, d) = 2 BY <2>3, <2>4, ExtSizeOfZero
  <2>6. c[pc + 1] = l /\ c[(pc + 1) + 1] = d % 256 BY <2>2, HeldBytes
  <2>7. Shorts(l) = {} /\ Longs(l) = {} /\ JumpOps(l) = {i.op} BY <1>1, JumpOpcode
  <2>8. Decode(c, pc) = DecodeJump(i.op, c, pc) BY <2>6, <2>7, DecodeAJump
  <2> DEFINE s == IF d % 256 >= 128 THEN (d % 256) - 256 ELSE d % 256
  <2>9. DecodeJump(i.op, c, pc) =
          Decoded(i.op, 0, 0, pc + 2, IF i.op = "Jump" THEN pc + 2 + s ELSE pc + 3 + (s - 1))
    BY <1>1, <2>6 DEF DecodeJump, fetchByte, fetchSByte
  <2>10. d \in -128..127 => (IF i.op = "Jump" THEN pc + 2 + s ELSE pc + 3 + (s - 1)) = pc + 2 + d
    <3>1. d \in -128..127 => s = d BY SignedBytes
    <3> HIDE DEF s
    <3>2. QED BY <3>1
  <2> HIDE DEF s
  <2>11. QED BY <2>5, <2>8, <2>9, <2>10 DEF Decoded
<1>5. QED BY <1>3, <1>4

\* The creation of a closure goes on behind its block.
LEMMA DecodedClosure ==
  ASSUME NEW c, NEW pc \in Nat, NEW i \in Instruction, NEW d \in Nat,
         i.op = "PushClosure", ~NeedsExtension(i, d), Holds(c, pc, encode(i, d))
  PROVE  /\ computeBetterSize(i, d) = 3
         /\ Decode(c, pc).op = i.op
         /\ Decode(c, pc).next = pc + 3 /\ Decode(c, pc).target = pc + 3 + d
         /\ Fits(i) => Decode(c, pc).a = i.a /\ Decode(c, pc).b = i.b
<1>1. i.a \in Nat /\ i.b \in Nat BY DEF Instruction
<1>2. encode(i, d) = <<250, ClosureByte(i), d % 256>> BY Kinds DEF encode
<1>3. ExtensionA(i) = 0 /\ ExtensionB(d) = 0 BY DEF NeedsExtension
<1>4. computeBetterSize(i, d) = 3
  <2>1. computeBetterSize(i, d) = 3 + sizeofExt(ExtensionA(i)) + sizeofExt(ExtensionB(d))
    BY DEF computeBetterSize, Jumps
  <2>2. QED BY <1>3, <2>1, ExtSizeOfZero
<1>5. d < 256 BY <1>3 DEF ExtensionB, Magnitude
<1>6. d % 256 = d BY <1>5, Remainders
<1>7. c[pc + 1] = 250 /\ c[(pc + 1) + 1] = ClosureByte(i) /\ c[(pc + 2) + 1] = d
  BY <1>2, <1>6, HeldBytes
<1>8. Decode(c, pc) = DecodeClosure(c, pc) BY <1>7, DecodeAClosure
<1>9. DecodeClosure(c, pc) =
        Decoded("PushClosure", (ClosureByte(i) \div 128) % 4, ClosureByte(i) % 8, pc + 3, pc + 3 + d)
  BY <1>7 DEF DecodeClosure, fetchByte
<1>10. Fits(i) => (ClosureByte(i) \div 128) % 4 = i.a /\ ClosureByte(i) % 8 = i.b
  <2>1. Fits(i) => i.a \in 0..1 /\ i.b \in 0..7 BY <1>1 DEF Fits
  <2>2. QED BY <2>1, Remainders DEF ClosureByte
<1>11. QED BY <1>4, <1>8, <1>9, <1>10 DEF Decoded

----------------------------------------------------------------------------
(***************************************************************************)
(* The inductive invariant.                                                *)
(***************************************************************************)
\* The first k - 1 instructions are laid out one behind the other, in total bytes.
Laid(p, s, k, total) ==
  /\ k = 1 => total = 0
  /\ 1 \in 1..(k - 1) => p[1] = 0
  /\ \A i \in 1..(k - 1) : p[i] + s[i] = IF i + 1 \in 1..(k - 1) THEN p[i + 1] ELSE total
  /\ \A i, j \in 1..(k - 1) : i < j => p[i] + s[i] <= p[j]
  /\ \A i \in 1..(k - 1) : p[i] + s[i] <= total

Implemented(k) == \A i \in 1..(k - 1) : ~Unimplemented(instructionStream[i])

\* The first pass: everything has its maximal size.
MaxInv ==
  phase = "max" =>
    /\ Implemented(at)
    /\ Laid(position, size, at, currentSize)
    /\ \A i \in 1..(at - 1) :
         /\ lastPosition[i] = position[i] /\ lastSize[i] = size[i]
         /\ size[i] = computeMaxSize(instructionStream[i])

\* By how much an instruction has moved in a pass, and its end, and the next one.
Shift    == [i \in Indices |-> lastPosition[i] - position[i]]
EndShift == [i \in Indices |-> lastPosition[i] + lastSize[i] - (position[i] + size[i])]
AtShift  == (IF at \in Indices THEN lastPosition[at] ELSE oldSize) - currentSize

\* Instructions only move towards the start, and the later ones by more: what is
\* between two instructions has become shorter.
Shrunk ==
  /\ AtShift >= 0
  /\ \A i \in 1..(at - 1) : 0 <= Shift[i] /\ Shift[i] <= EndShift[i] /\ EndShift[i] <= AtShift
  /\ \A i, j \in 1..(at - 1) : i < j => EndShift[i] <= Shift[j]

\* The sizes that a pass over the committed positions is going to compute.
BetterSizes(i) == computeBetterSize(instructionStream[i], lastDelta(i))

BetterInv ==
  phase = "better" =>
    /\ Implemented(n + 1)
    /\ Laid(lastPosition, lastSize, n + 1, oldSize)
    /\ \A i \in Indices : BetterSizes(i) <= lastSize[i]
    /\ Laid(position, size, at, currentSize)
    /\ \A i \in 1..(at - 1) : size[i] = BetterSizes(i)
    /\ Shrunk

EncodeInv ==
  /\ phase \in {"encode", "generated"} =>
       /\ Implemented(n + 1)
       /\ Laid(position, size, n + 1, currentSize)
       /\ position = lastPosition /\ size = lastSize
       /\ \A i \in Indices : size[i] = BetterSizes(i)
       /\ Len(code) = IF at \in Indices THEN position[at] ELSE currentSize
  /\ phase = "generated" => at = n + 1
  /\ phase # "corrupted"
  /\ phase \in {"max", "better"} => code = << >>

IInv == TypeOK /\ MaxInv /\ BetterInv /\ EncodeInv

----------------------------------------------------------------------------
(***************************************************************************)
(* Instruction streams and layouts.                                        *)
(***************************************************************************)
LEMMA StreamFacts ==
  ASSUME instructionStream \in Streams
  PROVE  /\ n \in Nat /\ Indices = 1..n
         /\ \A i \in Indices :
              /\ instructionStream[i] \in Instruction
              /\ instructionStream[i].op \in Branches =>
                   /\ instructionStream[i].to \in Indices
                   /\ instructionStream[i].to # i
              /\ instructionStream[i].op = "PushClosure" => instructionStream[i].to > i
              /\ instructionStream[i].op = "Bytecode" => instructionStream[i].a \in Bytes
<1>1. instructionStream \in Seq(Instruction) /\ WellFormed(instructionStream)
  BY StreamsAssumption
<1>2. n \in Nat /\ Indices = 1..n BY <1>1 DEF n, Indices
<1>3. ASSUME NEW i \in Indices
      PROVE  /\ instructionStream[i] \in Instruction
             /\ instructionStream[i].op \in Branches =>
                  /\ instructionStream[i].to \in Indices
                  /\ instructionStream[i].to # i
             /\ instructionStream[i].op = "PushClosure" => instructionStream[i].to > i
             /\ instructionStream[i].op = "Bytecode" => instructionStream[i].a \in Bytes
  <2>1. instructionStream[i] \in Instruction BY <1>1 DEF Indices
  <2>2. instructionStream[i].op \in Branches =>
          /\ instructionStream[i].to \in Indices
          /\ instructionStream[instructionStream[i].to].op = "Label"
    BY <1>1 DEF WellFormed, Indices, Branches
  <2>3. "Label" \notin Branches BY DEF Branches, Jumps
  <2>4. instructionStream[i].op = "PushClosure" => instructionStream[i].to > i
    BY <1>1 DEF WellFormed, Indices
  <2>5. instructionStream[i].op = "Bytecode" => instructionStream[i].a \in Bytes
    <3>1. WellFormedInstruction(instructionStream[i])
      BY <1>1 DEF WellFormed, Indices
    <3>2. SingleBytecodes \subseteq Bytes BY DEF SingleBytecodes, Bytes
    <3>3. QED BY <3>1, <3>2 DEF WellFormedInstruction
  <2>6. QED BY <2>1, <2>2, <2>3, <2>4, <2>5
<1>4. QED BY <1>2, <1>3

\* No instructions take no bytes.
LEMMA LaidNothing == ASSUME NEW p, NEW s PROVE Laid(p, s, 1, 0)
BY DEF Laid

\* One instruction more is laid out behind the others.
LEMMA LaidExtends ==
  ASSUME NEW p, NEW s, NEW q, NEW t, NEW k \in Nat \ {0}, NEW total \in Nat, NEW b \in Nat,
         \A i \in 1..(k - 1) : p[i] \in Nat /\ s[i] \in Nat,
         Laid(p, s, k, total),
         \A i \in 1..(k - 1) : q[i] = p[i] /\ t[i] = s[i],
         q[k] = total, t[k] = b
  PROVE  Laid(q, t, k + 1, total + b)
<1>1. 1 \in 1..k => q[1] = 0
  <2>1. CASE k = 1 BY <2>1 DEF Laid
  <2>2. CASE k # 1
    <3>1. 1 \in 1..(k - 1) BY <2>2
    <3>2. QED BY <3>1 DEF Laid
  <2>3. QED BY <2>1, <2>2
<1>2. ASSUME NEW i \in 1..k
      PROVE  q[i] + t[i] = IF i + 1 \in 1..k THEN q[i + 1] ELSE total + b
  <2>1. CASE i = k BY <2>1
  <2>2. CASE i # k
    <3>1. i \in 1..(k - 1) /\ i + 1 \in 1..k BY <2>2
    <3>2. p[i] + s[i] = IF i + 1 \in 1..(k - 1) THEN p[i + 1] ELSE total
      BY <3>1 DEF Laid
    <3>3. CASE i + 1 \in 1..(k - 1) BY <3>1, <3>2, <3>3
    <3>4. CASE i + 1 \notin 1..(k - 1)
      <4>1. i + 1 = k BY <3>1, <3>4
      <4>2. QED BY <3>1, <3>2, <3>4, <4>1
    <3>5. QED BY <3>3, <3>4
  <2>3. QED BY <2>1, <2>2
<1>3. ASSUME NEW i \in 1..k, NEW j \in 1..k, i < j PROVE q[i] + t[i] <= q[j]
  <2>1. i \in 1..(k - 1) BY <1>3
  <2>2. CASE j = k BY <2>1, <2>2 DEF Laid
  <2>3. CASE j # k
    <3>1. j \in 1..(k - 1) BY <2>3
    <3>2. p[i] + s[i] <= p[j] BY <1>3, <2>1, <3>1 DEF Laid
    <3>3. QED BY <2>1, <3>1, <3>2
  <2>4. QED BY <2>2, <2>3
<1>4. ASSUME NEW i \in 1..k PROVE q[i] + t[i] <= total + b
  <2>1. CASE i = k BY <2>1
  <2>2. CASE i # k
    <3>1. i \in 1..(k - 1) BY <2>2
    <3>2. p[i] + s[i] <= total /\ p[i] \in Nat /\ s[i] \in Nat BY <3>1 DEF Laid
    <3>3. QED BY <3>1, <3>2
  <2>3. QED BY <2>1, <2>2
<1>5. k + 1 - 1 = k /\ k + 1 # 1 OBVIOUS
<1>6. QED BY <1>1, <1>2, <1>3, <1>4, <1>5 DEF Laid

\* Distances of branches are integers, the ones of labels behind are not positive.
LEMMA Distances ==
  ASSUME TypeOK, NEW i \in Indices, instructionStream[i].op \in Branches
  PROVE  lastDelta(i) \in Int /\ delta(i) \in Int /\ encodeDelta(i) \in Int
<1>1. instructionStream[i].to \in Indices BY StreamFacts DEF TypeOK
<1>2. \A j \in Indices : /\ position[j] \in Nat /\ size[j] \in Nat
                          /\ lastPosition[j] \in Nat /\ lastSize[j] \in Nat
  BY DEF TypeOK
<1>3. QED BY <1>1, <1>2 DEF lastDelta, delta, encodeDelta

\* The instruction the assembler is at is one of the stream.
LEMMA InstrFacts ==
  ASSUME TypeOK, at \in Indices
  PROVE  /\ at \in Nat \ {0} /\ at \in 1..n /\ at + 1 \in 1..(n + 1) /\ (at + 1) - 1 = at
         /\ Instr \in Instruction
BY StreamFacts DEF TypeOK, Instr

\* A layout and the sizes in it when an instruction is placed.
LEMMA PlaceLaid ==
  ASSUME TypeOK, at \in Indices, NEW b \in Nat, Place(b),
         Laid(position, size, at, currentSize)
  PROVE  /\ Laid(position', size', at', currentSize')
         /\ at' = at + 1 /\ currentSize' = currentSize + b
         /\ position'[at] = currentSize /\ size'[at] = b
         /\ \A i \in 1..(at - 1) : position'[i] = position[i] /\ size'[i] = size[i]
         /\ position' \in [Indices -> Nat] /\ size' \in [Indices -> Nat] /\ currentSize' \in Nat
<1>1. n \in Nat /\ Indices = 1..n /\ at \in Nat \ {0} /\ at \in 1..n
  BY StreamFacts, InstrFacts DEF TypeOK
<1>2. position \in [Indices -> Nat] /\ size \in [Indices -> Nat] /\ currentSize \in Nat
  BY DEF TypeOK
<1>3. /\ position' = [position EXCEPT ![at] = currentSize] /\ size' = [size EXCEPT ![at] = b]
      /\ currentSize' = currentSize + b /\ at' = at + 1
  BY DEF Place
<1>4. \A i \in 1..(at - 1) : i \in Indices /\ i # at BY <1>1
<1>5. position'[at] = currentSize /\ size'[at] = b BY <1>2, <1>3
<1>6. \A i \in 1..(at - 1) : position'[i] = position[i] /\ size'[i] = size[i]
  BY <1>2, <1>3, <1>4
<1>7. \A i \in 1..(at - 1) : position[i] \in Nat /\ size[i] \in Nat BY <1>2, <1>4
<1>8. Laid(position', size', at + 1, currentSize + b)
  BY <1>1, <1>2, <1>5, <1>6, <1>7, LaidExtends
<1>9. position' \in [Indices -> Nat] /\ size' \in [Indices -> Nat] /\ currentSize' \in Nat
  BY <1>2, <1>3
<1>10. QED BY <1>3, <1>5, <1>6, <1>8, <1>9

----------------------------------------------------------------------------
(***************************************************************************)
(* The invariant holds at first and is preserved by every action.          *)
(***************************************************************************)
LEMMA InitIInv == Init => IInv
<1> SUFFICES ASSUME Init PROVE IInv OBVIOUS
<1> USE DEF Init
<1>1. n \in Nat /\ Indices = 1..n BY StreamFacts
<1>2. TypeOK BY <1>1 DEF TypeOK
<1>3. MaxInv
  <2>1. Laid(position, size, 1, 0) BY LaidNothing
  <2>2. QED BY <2>1 DEF MaxInv, Implemented
<1>4. BetterInv /\ EncodeInv BY DEF BetterInv, EncodeInv
<1>5. QED BY <1>2, <1>3, <1>4 DEF IInv

\* The first pass preserves the invariant.
LEMMA ComputeMaxSizeIInv == IInv /\ ComputeMaxSize => IInv'
<1> SUFFICES ASSUME IInv, ComputeMaxSize PROVE IInv' OBVIOUS
<1> DEFINE b == computeMaxSize(Instr)
<1>1. TypeOK /\ MaxInv /\ EncodeInv /\ phase = "max" /\ at \in Indices /\ ~Unimplemented(Instr) /\ Place(b)
  BY DEF IInv, ComputeMaxSize
<1>2. /\ lastPosition' = [lastPosition EXCEPT ![at] = currentSize]
      /\ lastSize' = [lastSize EXCEPT ![at] = b]
      /\ instructionStream' = instructionStream /\ phase' = phase
      /\ oldSize' = oldSize /\ code' = code
  BY DEF ComputeMaxSize
<1>3. n \in Nat /\ Indices = 1..n /\ Indices' = Indices /\ n' = n
  BY <1>1, <1>2, StreamFacts DEF TypeOK, Indices, n
<1>4. /\ at \in Nat \ {0} /\ at \in 1..n /\ at + 1 \in 1..(n + 1) /\ (at + 1) - 1 = at
      /\ Instr \in Instruction
  BY <1>1, InstrFacts
<1>5. b \in Nat
  <2>1. Instr.op \in Branches => 0 \in Int OBVIOUS
  <2>2. QED BY <1>1, <1>4, <2>1, BetterSizeType
<1> HIDE DEF b
<1>6. /\ Laid(position', size', at', currentSize')
      /\ at' = at + 1 /\ currentSize' = currentSize + b
      /\ position'[at] = currentSize /\ size'[at] = b
      /\ \A i \in 1..(at - 1) : position'[i] = position[i] /\ size'[i] = size[i]
      /\ position' \in [Indices -> Nat] /\ size' \in [Indices -> Nat] /\ currentSize' \in Nat
  BY <1>1, <1>5, PlaceLaid DEF MaxInv
<1>7. lastPosition' \in [Indices -> Nat] /\ lastSize' \in [Indices -> Nat]
  BY <1>1, <1>2, <1>5 DEF TypeOK
<1>8. TypeOK'
  BY <1>1, <1>2, <1>3, <1>4, <1>6, <1>7 DEF TypeOK
<1>9. MaxInv'
  <2>1. Implemented(at)'
    <3>1. ASSUME NEW i \in 1..at PROVE ~Unimplemented(instructionStream[i])
      <4>1. CASE i = at BY <1>1, <4>1 DEF Instr
      <4>2. CASE i # at
        <5>1. i \in 1..(at - 1) BY <1>4, <4>2
        <5>2. QED BY <1>1, <5>1 DEF MaxInv, Implemented
      <4>3. QED BY <4>1, <4>2
    <3>2. QED BY <1>2, <1>4, <1>6, <3>1 DEF Implemented
  <2>2. ASSUME NEW i \in 1..at
        PROVE  /\ lastPosition'[i] = position'[i] /\ lastSize'[i] = size'[i]
               /\ size'[i] = computeMaxSize(instructionStream[i])
    <3>1. lastPosition \in [Indices -> Nat] /\ lastSize \in [Indices -> Nat] BY <1>1 DEF TypeOK
    <3>2. CASE i = at BY <1>1, <1>2, <1>6, <3>1, <3>2 DEF Instr, b
    <3>3. CASE i # at
      <4>1. i \in 1..(at - 1) /\ i \in Indices BY <1>3, <1>4, <3>3
      <4>2. /\ lastPosition[i] = position[i] /\ lastSize[i] = size[i]
            /\ size[i] = computeMaxSize(instructionStream[i])
        BY <1>1, <4>1 DEF MaxInv
      <4>3. lastPosition'[i] = lastPosition[i] /\ lastSize'[i] = lastSize[i]
        BY <1>2, <3>1, <3>3, <4>1
      <4>4. QED BY <1>6, <4>1, <4>2, <4>3
    <3>4. QED BY <3>2, <3>3
  <2>3. \A i \in 1..(at' - 1) :
          /\ lastPosition'[i] = position'[i] /\ lastSize'[i] = size'[i]
          /\ size'[i] = computeMaxSize(instructionStream'[i])
    BY <1>2, <1>4, <1>6, <2>2
  <2>4. QED BY <1>6, <2>1, <2>3 DEF MaxInv
<1>10. BetterInv' /\ EncodeInv' BY <1>1, <1>2 DEF BetterInv, EncodeInv
<1>11. QED BY <1>8, <1>9, <1>10 DEF IInv

\* An abort preserves the invariant.
LEMMA AbortIInv == IInv /\ abort => IInv'
<1> SUFFICES ASSUME IInv, abort PROVE IInv' OBVIOUS
<1>1. TypeOK' BY DEF IInv, abort, TypeOK, Indices, n
<1>2. phase' = "aborted" BY DEF abort
<1>3. QED BY <1>1, <1>2 DEF IInv, MaxInv, BetterInv, EncodeInv

\* All that the first pass does preserves the invariant.
LEMMA FirstPassIInv == IInv /\ FirstPass => IInv'
<1> SUFFICES ASSUME IInv, FirstPass PROVE IInv' OBVIOUS
<1>1. TypeOK /\ MaxInv /\ EncodeInv /\ phase = "max" /\ at \notin Indices BY DEF IInv, FirstPass
<1>2. /\ phase' = "better" /\ at' = 1 /\ oldSize' = currentSize /\ currentSize' = 0
      /\ instructionStream' = instructionStream /\ position' = position /\ size' = size
      /\ lastPosition' = lastPosition /\ lastSize' = lastSize /\ code' = code
  BY DEF FirstPass, StartPass
<1>3. n \in Nat /\ Indices = 1..n /\ Indices' = Indices /\ n' = n
  BY <1>1, <1>2, StreamFacts DEF TypeOK, Indices, n
<1>4. at = n + 1 /\ at - 1 = n BY <1>1, <1>3 DEF TypeOK
<1>5. TypeOK' BY <1>1, <1>2, <1>3 DEF TypeOK
<1>6. /\ Implemented(n + 1)
      /\ \A i \in Indices :
           /\ lastPosition[i] = position[i] /\ lastSize[i] = size[i]
           /\ size[i] = computeMaxSize(instructionStream[i])
      /\ Laid(position, size, n + 1, currentSize)
  BY <1>1, <1>3, <1>4 DEF MaxInv
<1>7. lastPosition = position /\ lastSize = size BY <1>1, <1>6 DEF TypeOK
<1>8. ASSUME NEW i \in Indices PROVE BetterSizes(i) <= lastSize[i]
  <2>1. ~Unimplemented(instructionStream[i]) BY <1>3, <1>6 DEF Implemented
  <2>2. instructionStream[i] \in Instruction BY <1>1, StreamFacts DEF TypeOK
  <2>3. instructionStream[i].op \in Branches => lastDelta(i) \in Int BY <1>1, Distances
  <2>4. QED BY <1>6, <2>1, <2>2, <2>3, BetterIsAtMostMax DEF BetterSizes
<1>9. BetterInv'
  <2>1. Implemented(n + 1)' BY <1>2, <1>3, <1>6 DEF Implemented
  <2>2. Laid(lastPosition, lastSize, n + 1, oldSize)' BY <1>2, <1>3, <1>6, <1>7
  <2>3. (\A i \in Indices : BetterSizes(i) <= lastSize[i])'
    BY <1>2, <1>3, <1>8 DEF BetterSizes, lastDelta
  <2>4. Laid(position, size, at, currentSize)' BY <1>2, LaidNothing
  <2>5. AtShift' >= 0
    <3>1. \A i \in Indices : lastPosition[i] \in Nat BY <1>1 DEF TypeOK
    <3>2. currentSize \in Nat BY <1>1 DEF TypeOK
    <3>3. QED BY <1>2, <1>3, <3>1, <3>2 DEF AtShift
  <2>6. QED BY <1>2, <2>1, <2>2, <2>3, <2>4, <2>5 DEF BetterInv, Shrunk
<1>10. MaxInv' /\ EncodeInv' BY <1>1, <1>2 DEF MaxInv, EncodeInv
<1>11. QED BY <1>5, <1>9, <1>10 DEF IInv

\* The second pass preserves the invariant.
LEMMA ComputeBetterSizeIInv == IInv /\ ComputeBetterSize => IInv'
<1> SUFFICES ASSUME IInv, ComputeBetterSize PROVE IInv' OBVIOUS
<1> DEFINE b == BetterSizes(at)
<1>1. TypeOK /\ BetterInv /\ EncodeInv /\ phase = "better" /\ at \in Indices /\ Place(b)
  BY DEF IInv, ComputeBetterSize, BetterSizes, Instr
<1>2. /\ lastPosition' = lastPosition /\ lastSize' = lastSize
      /\ instructionStream' = instructionStream /\ phase' = phase
      /\ oldSize' = oldSize /\ code' = code
  BY DEF ComputeBetterSize
<1>3. n \in Nat /\ Indices = 1..n /\ Indices' = Indices /\ n' = n
  BY <1>1, <1>2, StreamFacts DEF TypeOK, Indices, n
<1>4. /\ at \in Nat \ {0} /\ at \in 1..n /\ at + 1 \in 1..(n + 1) /\ (at + 1) - 1 = at
      /\ instructionStream[at] \in Instruction
  BY <1>1, InstrFacts DEF Instr
<1>5. b \in Nat /\ b <= lastSize[at]
  <2>1. ~Unimplemented(instructionStream[at])
    <3>1. (n + 1) - 1 = n BY <1>3
    <3>2. QED BY <1>1, <1>4, <3>1 DEF BetterInv, Implemented
  <2>2. instructionStream[at].op \in Branches => lastDelta(at) \in Int BY <1>1, Distances
  <2>3. b \in Nat BY <1>4, <2>1, <2>2, BetterSizeType DEF BetterSizes
  <2>4. QED BY <1>1, <2>3 DEF BetterInv
<1>6. /\ Laid(position', size', at', currentSize')
      /\ at' = at + 1 /\ currentSize' = currentSize + b
      /\ position'[at] = currentSize /\ size'[at] = b
      /\ \A i \in 1..(at - 1) : position'[i] = position[i] /\ size'[i] = size[i]
      /\ position' \in [Indices -> Nat] /\ size' \in [Indices -> Nat] /\ currentSize' \in Nat
  BY <1>1, <1>5, PlaceLaid DEF BetterInv
<1>7. TypeOK'
  <2> HIDE DEF b
  <2>1. at' \in 1..(n' + 1) BY <1>3, <1>4, <1>6
  <2>2. \A f \in {position, size, lastPosition, lastSize}' : f \in [Indices' -> Nat]
    BY <1>1, <1>2, <1>3, <1>6 DEF TypeOK
  <2>3. /\ (instructionStream \in Streams)' /\ currentSize' \in Nat /\ oldSize' \in Nat
        /\ (code \in Seq(0..255))' /\ phase' = "better"
    BY <1>1, <1>2, <1>6 DEF TypeOK
  <2>4. QED BY <2>1, <2>2, <2>3 DEF TypeOK
<1>8. \A i \in Indices : BetterSizes(i)' = BetterSizes(i)
  BY <1>2 DEF BetterSizes, lastDelta
<1>9. ASSUME NEW i \in 1..at PROVE size'[i] = BetterSizes(i)
  <2>1. CASE i = at BY <1>6, <2>1
  <2>2. CASE i # at
    <3>1. i \in 1..(at - 1) BY <1>4, <2>2
    <3>2. QED BY <1>1, <1>6, <3>1 DEF BetterInv
  <2>3. QED BY <2>1, <2>2
<1> HIDE DEF b
<1>10. Shrunk'
  <2>1. Shrunk BY <1>1 DEF BetterInv
  <2>2. /\ lastPosition \in [Indices -> Nat] /\ lastSize \in [Indices -> Nat]
        /\ currentSize \in Nat /\ oldSize \in Nat
        /\ position \in [Indices -> Nat] /\ size \in [Indices -> Nat]
    BY <1>1 DEF TypeOK
  <2>3. AtShift = lastPosition[at] - currentSize /\ AtShift \in Int /\ AtShift >= 0
    BY <1>1, <2>1, <2>2 DEF AtShift, Shrunk
  <2>4. lastPosition[at] + lastSize[at] =
          IF at + 1 \in 1..n THEN lastPosition[at + 1] ELSE oldSize
    <3>1. (n + 1) - 1 = n BY <1>3
    <3>2. QED BY <1>1, <1>4, <3>1 DEF BetterInv, Laid
  <2>5. AtShift' = lastPosition[at] + lastSize[at] - (currentSize + b)
    <3> DEFINE next == IF at + 1 \in 1..n THEN lastPosition[at + 1] ELSE oldSize
    <3>1. AtShift' = next - (currentSize + b) BY <1>2, <1>3, <1>6 DEF AtShift
    <3>2. lastPosition[at] + lastSize[at] = next BY <2>4
    <3>3. lastPosition[at] \in Nat /\ lastSize[at] \in Nat BY <1>1, <2>2
    <3> HIDE DEF next
    <3>4. QED BY <1>5, <2>2, <3>1, <3>2, <3>3
  <2>6. /\ Shift'[at] = AtShift
        /\ EndShift'[at] = AtShift'
    BY <1>1, <1>2, <1>3, <1>6, <2>3, <2>5 DEF Shift, EndShift
  <2>7. AtShift' \in Int /\ AtShift <= AtShift'
    <3>1. lastPosition[at] \in Nat /\ lastSize[at] \in Nat BY <1>1, <2>2
    <3>2. QED BY <1>5, <2>2, <2>3, <2>5, <3>1
  <2>8. ASSUME NEW i \in 1..(at - 1)
        PROVE  /\ Shift'[i] = Shift[i] /\ EndShift'[i] = EndShift[i]
               /\ Shift[i] \in Int /\ EndShift[i] \in Int
               /\ 0 <= Shift[i] /\ Shift[i] <= EndShift[i] /\ EndShift[i] <= AtShift
    <3>1. i \in Indices BY <1>3, <1>4
    <3>2. Shift'[i] = Shift[i] /\ EndShift'[i] = EndShift[i]
      BY <1>2, <1>3, <1>6, <3>1 DEF Shift, EndShift
    <3>3. Shift[i] \in Int /\ EndShift[i] \in Int BY <2>2, <3>1 DEF Shift, EndShift
    <3>4. QED BY <2>1, <3>2, <3>3 DEF Shrunk
  <2>9. ASSUME NEW i \in 1..at
        PROVE  0 <= Shift'[i] /\ Shift'[i] <= EndShift'[i] /\ EndShift'[i] <= AtShift'
    <3>1. CASE i = at BY <2>3, <2>6, <2>7, <3>1
    <3>2. CASE i # at
      <4>1. i \in 1..(at - 1) BY <1>4, <3>2
      <4>2. QED BY <2>3, <2>7, <2>8, <4>1
    <3>3. QED BY <3>1, <3>2
  <2>10. ASSUME NEW i \in 1..at, NEW j \in 1..at, i < j PROVE EndShift'[i] <= Shift'[j]
    <3>1. i \in 1..(at - 1) BY <1>4, <2>10
    <3>2. CASE j = at BY <2>6, <2>8, <3>1, <3>2
    <3>3. CASE j # at
      <4>1. j \in 1..(at - 1) BY <1>4, <3>3
      <4>2. EndShift[i] <= Shift[j] BY <2>1, <2>10, <3>1, <4>1 DEF Shrunk
      <4>3. QED BY <2>8, <3>1, <4>1, <4>2
    <3>4. QED BY <3>2, <3>3
  <2>11. at' - 1 = at BY <1>4, <1>6
  <2>12. AtShift' >= 0 BY <2>3, <2>7
  <2>13. QED BY <2>9, <2>10, <2>11, <2>12 DEF Shrunk
<1>11. BetterInv'
  <2>1. Implemented(n + 1)' BY <1>1, <1>2, <1>3 DEF BetterInv, Implemented
  <2>2. Laid(lastPosition, lastSize, n + 1, oldSize)' BY <1>1, <1>2, <1>3 DEF BetterInv
  <2>3. (\A i \in Indices : BetterSizes(i) <= lastSize[i])'
    BY <1>1, <1>2, <1>3, <1>8 DEF BetterInv
  <2>4. (\A i \in 1..(at - 1) : size[i] = BetterSizes(i))'
    <3>1. at' - 1 = at /\ 1..at \subseteq Indices BY <1>3, <1>4, <1>6
    <3>2. QED BY <1>8, <1>9, <3>1
  <2>5. QED BY <1>6, <1>10, <2>1, <2>2, <2>3, <2>4 DEF BetterInv
<1>12. MaxInv' /\ EncodeInv' BY <1>1, <1>2 DEF MaxInv, EncodeInv
<1>13. QED BY <1>7, <1>11, <1>12 DEF IInv

\* When a pass is over, the next one would not make anything larger.
LEMMA NextPassIsBetter ==
  ASSUME TypeOK, BetterInv, phase = "better", at \notin Indices, NEW i \in Indices
  PROVE  computeBetterSize(instructionStream[i], delta(i)) <= size[i]
<1>1. n \in Nat /\ Indices = 1..n /\ (n + 1) - 1 = n BY StreamFacts DEF TypeOK
<1>2. at = n + 1 /\ at - 1 = n BY <1>1 DEF TypeOK
<1>3. size[i] = BetterSizes(i) BY <1>1, <1>2 DEF BetterInv
<1>4. instructionStream[i] \in Instruction /\ ~Unimplemented(instructionStream[i])
  BY <1>1, StreamFacts DEF TypeOK, BetterInv, Implemented
<1>5. CASE instructionStream[i].op \notin Branches
  <2>1. computeBetterSize(instructionStream[i], delta(i)) = FixedSize(instructionStream[i])
    BY <1>4, <1>5, FixedSizes
  <2>2. size[i] = FixedSize(instructionStream[i]) BY <1>3, <1>4, <1>5, FixedSizes DEF BetterSizes
  <2>3. FixedSize(instructionStream[i]) \in Nat BY <1>4, <1>5, FixedSizeType
  <2>4. QED BY <2>1, <2>2, <2>3
<1>6. CASE instructionStream[i].op \in Branches
  <2> DEFINE j == instructionStream[i].to
  <2>1. j \in Indices /\ j # i BY <1>6, StreamFacts DEF TypeOK
  <2>2. delta(i) \in Int /\ lastDelta(i) \in Int BY <1>6, Distances
  <2>3. delta(i) = position[j] - position[i] - size[i]
        /\ lastDelta(i) = lastPosition[j] - lastPosition[i] - lastSize[i]
    BY DEF delta, lastDelta
  <2> HIDE DEF j
  <2>4. /\ position[i] \in Nat /\ size[i] \in Nat /\ lastPosition[i] \in Nat /\ lastSize[i] \in Nat
        /\ position[j] \in Nat /\ size[j] \in Nat /\ lastPosition[j] \in Nat /\ lastSize[j] \in Nat
    BY <2>1 DEF TypeOK
  <2>5. /\ Shift[i] = lastPosition[i] - position[i] /\ Shift[j] = lastPosition[j] - position[j]
        /\ EndShift[i] = lastPosition[i] + lastSize[i] - (position[i] + size[i])
        /\ EndShift[j] = lastPosition[j] + lastSize[j] - (position[j] + size[j])
    BY <2>1 DEF Shift, EndShift
  <2>6. /\ Shift[i] <= EndShift[i] /\ Shift[j] <= EndShift[j]
        /\ i < j => EndShift[i] <= Shift[j]
        /\ j < i => EndShift[j] <= Shift[i]
    BY <1>1, <1>2, <2>1 DEF BetterInv, Shrunk
  <2>7. /\ i < j => position[i] + size[i] <= position[j]
        /\ j < i => position[j] + size[j] <= position[i]
    BY <1>1, <1>2, <2>1 DEF BetterInv, Laid
  <2>8. (0 <= delta(i) /\ delta(i) <= lastDelta(i)) \/ (lastDelta(i) <= delta(i) /\ delta(i) <= 0)
    <3>1. CASE i < j BY <2>3, <2>4, <2>5, <2>6, <2>7, <3>1
    <3>2. CASE j < i BY <2>3, <2>4, <2>5, <2>6, <2>7, <3>2
    <3>3. QED BY <1>1, <2>1, <3>1, <3>2
  <2>9. QED BY <1>3, <1>4, <1>6, <2>2, <2>8, BetterSizeMonotone DEF BetterSizes
<1>7. QED BY <1>5, <1>6

\* A pass that has not made the whole smaller has not moved anything.
LEMMA FixedPoint ==
  ASSUME TypeOK, BetterInv, phase = "better", at \notin Indices, ~(currentSize < oldSize)
  PROVE  position = lastPosition /\ size = lastSize
<1>1. n \in Nat /\ Indices = 1..n BY StreamFacts DEF TypeOK
<1>2. at = n + 1 /\ at - 1 = n BY <1>1 DEF TypeOK
<1>3. Shrunk /\ AtShift = oldSize - currentSize BY DEF BetterInv, AtShift
<1>4. AtShift = 0 BY <1>3 DEF TypeOK, Shrunk
<1>5. ASSUME NEW i \in Indices PROVE position[i] = lastPosition[i] /\ size[i] = lastSize[i]
  <2>1. /\ position[i] \in Nat /\ size[i] \in Nat
        /\ lastPosition[i] \in Nat /\ lastSize[i] \in Nat
    BY DEF TypeOK
  <2>2. /\ Shift[i] = lastPosition[i] - position[i]
        /\ EndShift[i] = lastPosition[i] + lastSize[i] - (position[i] + size[i])
    BY DEF Shift, EndShift
  <2>3. 0 <= Shift[i] /\ Shift[i] <= EndShift[i] /\ EndShift[i] <= 0
    BY <1>1, <1>2, <1>3, <1>4 DEF Shrunk
  <2>4. QED BY <2>1, <2>2, <2>3
<1>6. QED BY <1>5 DEF TypeOK

\* Taking over the sizes of the second pass preserves the invariant.
LEMMA CommitSizesIInv == IInv /\ CommitSizes => IInv'
<1> SUFFICES ASSUME IInv, CommitSizes PROVE IInv' OBVIOUS
<1>1. TypeOK /\ BetterInv /\ EncodeInv /\ phase = "better" /\ at \notin Indices
  BY DEF IInv, CommitSizes
<1>2. /\ lastPosition' = position /\ lastSize' = size /\ position' = position /\ size' = size
      /\ instructionStream' = instructionStream /\ code' = code
  BY DEF CommitSizes
<1>3. n \in Nat /\ Indices = 1..n /\ Indices' = Indices /\ n' = n /\ (n + 1) - 1 = n
  BY <1>1, <1>2, StreamFacts DEF TypeOK, Indices, n
<1>4. at = n + 1 /\ at - 1 = n BY <1>1, <1>3 DEF TypeOK
<1>5. /\ Implemented(n + 1) /\ Laid(position, size, n + 1, currentSize)
      /\ \A i \in Indices : size[i] = BetterSizes(i)
  BY <1>1, <1>3, <1>4 DEF BetterInv
<1>6. Implemented(n + 1)' BY <1>2, <1>3, <1>5 DEF Implemented
<1>7. CASE currentSize < oldSize
  <2>1. phase' = "better" /\ at' = 1 /\ oldSize' = currentSize /\ currentSize' = 0
    BY <1>7 DEF CommitSizes, StartPass
  <2>2. TypeOK' BY <1>1, <1>2, <1>3, <2>1 DEF TypeOK
  <2>3. Laid(lastPosition, lastSize, n + 1, oldSize)' BY <1>2, <1>3, <1>5, <2>1
  <2>4. (\A i \in Indices : BetterSizes(i) <= lastSize[i])'
    <3>1. \A i \in Indices : BetterSizes(i)' = computeBetterSize(instructionStream[i], delta(i))
      BY <1>2 DEF BetterSizes, lastDelta, delta
    <3>2. QED BY <1>1, <1>2, <1>3, <3>1, NextPassIsBetter
  <2>5. Laid(position, size, at, currentSize)' BY <2>1, LaidNothing
  <2>6. AtShift' >= 0
    <3>1. currentSize \in Nat /\ \A i \in Indices : position[i] \in Nat BY <1>1 DEF TypeOK
    <3>2. QED BY <1>2, <1>3, <2>1, <3>1 DEF AtShift
  <2>7. BetterInv' BY <1>6, <2>1, <2>3, <2>4, <2>5, <2>6 DEF BetterInv, Shrunk
  <2>8. MaxInv' /\ EncodeInv' BY <1>1, <1>2, <2>1 DEF MaxInv, EncodeInv
  <2>9. QED BY <2>2, <2>7, <2>8 DEF IInv
<1>8. CASE ~(currentSize < oldSize)
  <2>1. phase' = "encode" /\ at' = 1 /\ oldSize' = oldSize /\ currentSize' = currentSize
    BY <1>8 DEF CommitSizes
  <2>2. TypeOK' BY <1>1, <1>2, <1>3, <2>1 DEF TypeOK
  <2>3. position = lastPosition /\ size = lastSize BY <1>1, <1>8, FixedPoint
  <2>4. \A i \in Indices : BetterSizes(i)' = BetterSizes(i)
    BY <1>2, <2>3 DEF BetterSizes, lastDelta
  <2>5. Laid(position, size, n + 1, currentSize)' BY <1>2, <1>3, <1>5, <2>1
  <2>6. code = << >> BY <1>1 DEF EncodeInv
  <2>7. Len(code)' = IF at' \in Indices' THEN position'[at'] ELSE currentSize'
    <3>1. Len(code)' = 0 BY <1>2, <2>6
    <3>2. CASE 1 \in Indices
      <4>1. position[1] = 0 BY <1>3, <1>5, <3>2 DEF Laid
      <4>2. QED BY <1>2, <1>3, <2>1, <3>1, <3>2, <4>1
    <3>3. CASE 1 \notin Indices
      <4>1. n + 1 = 1 BY <1>3, <3>3
      <4>2. currentSize = 0 BY <1>5, <4>1 DEF Laid
      <4>3. QED BY <1>3, <2>1, <3>1, <3>3, <4>2
    <3>4. QED BY <3>2, <3>3
  <2>8. EncodeInv' BY <1>2, <1>3, <1>5, <1>6, <2>1, <2>3, <2>4, <2>5, <2>7 DEF EncodeInv
  <2>9. MaxInv' /\ BetterInv' BY <2>1 DEF MaxInv, BetterInv
  <2>10. QED BY <2>2, <2>8, <2>9 DEF IInv
<1>9. QED BY <1>7, <1>8

\* In a layout that is settled both ways to measure a distance agree.
LEMMA SettledSizes ==
  ASSUME TypeOK, position = lastPosition, size = lastSize, NEW i \in Indices
  PROVE  computeBetterSize(instructionStream[i], encodeDelta(i)) = BetterSizes(i)
<1>1. CASE instructionStream[i].op \in Branches
  <2>1. encodeDelta(i) = lastDelta(i) BY DEF encodeDelta, delta, lastDelta
  <2>2. QED BY <2>1 DEF BetterSizes
<1>2. CASE instructionStream[i].op \notin Branches
  <2>1. instructionStream[i] \in Instruction BY StreamFacts DEF TypeOK
  <2>2. QED BY <1>2, <2>1, FixedSizes DEF BetterSizes
<1>3. QED BY <1>1, <1>2

\* Encoding an instruction preserves the invariant.
LEMMA EncodeInstructionIInv == IInv /\ EncodeInstruction => IInv'
<1> SUFFICES ASSUME IInv, EncodeInstruction PROVE IInv' OBVIOUS
<1> DEFINE bytes == encode(Instr, encodeDelta(at))
<1>1. TypeOK /\ EncodeInv /\ phase = "encode" /\ at \in Indices /\ ~NeedsExtension(Instr, encodeDelta(at))
  BY DEF IInv, EncodeInstruction
<1>2. /\ code' = code \o bytes /\ at' = at + 1
      /\ phase' = IF Len(code') > currentSize THEN "corrupted" ELSE phase
      /\ instructionStream' = instructionStream /\ position' = position /\ size' = size
      /\ lastPosition' = lastPosition /\ lastSize' = lastSize
      /\ currentSize' = currentSize /\ oldSize' = oldSize
  BY DEF EncodeInstruction
<1>3. n \in Nat /\ Indices = 1..n /\ Indices' = Indices /\ n' = n /\ (n + 1) - 1 = n
  BY <1>1, <1>2, StreamFacts DEF TypeOK, Indices, n
<1>4. /\ at \in Nat \ {0} /\ at \in 1..n /\ at + 1 \in 1..(n + 1)
      /\ Instr \in Instruction /\ Instr = instructionStream[at]
  BY <1>1, InstrFacts DEF Instr
<1>5. /\ Implemented(n + 1) /\ Laid(position, size, n + 1, currentSize)
      /\ position = lastPosition /\ size = lastSize
      /\ \A i \in Indices : size[i] = BetterSizes(i)
      /\ Len(code) = position[at]
  BY <1>1 DEF EncodeInv
<1>6. bytes \in Seq(Bytes) /\ Len(bytes) = size[at]
  <2>1. ~Unimplemented(Instr) BY <1>3, <1>4, <1>5 DEF Implemented
  <2>2. Instr.op \in Branches => encodeDelta(at) \in Int BY <1>1, <1>4, Distances
  <2>3. Instr.op = "Bytecode" => Instr.a \in Bytes BY <1>1, <1>4, StreamFacts DEF TypeOK
  <2>4. bytes \in Seq(Bytes) /\ Len(bytes) = computeBetterSize(Instr, encodeDelta(at))
    BY <1>1, <1>4, <2>1, <2>2, <2>3, EncodedSize
  <2>5. computeBetterSize(Instr, encodeDelta(at)) = size[at]
    BY <1>1, <1>4, <1>5, SettledSizes
  <2>6. QED BY <2>4, <2>5
<1> HIDE DEF bytes
<1>7. code \in Seq(Bytes) BY <1>1 DEF TypeOK, Bytes
<1>8. code' \in Seq(Bytes) /\ Len(code') = position[at] + size[at]
  <2>1. code \o bytes \in Seq(Bytes) /\ Len(code \o bytes) = Len(code) + Len(bytes)
    BY <1>6, <1>7
  <2>2. QED BY <1>2, <1>5, <1>6, <2>1
<1>9. /\ position[at] + size[at] <= currentSize
      /\ position[at] + size[at] = IF at + 1 \in 1..n THEN position[at + 1] ELSE currentSize
  BY <1>3, <1>4, <1>5 DEF Laid
<1>10. phase' = "encode"
  <2>1. position[at] \in Nat /\ size[at] \in Nat /\ currentSize \in Nat BY <1>1 DEF TypeOK
  <2>2. ~(Len(code') > currentSize) BY <1>8, <1>9, <2>1
  <2>3. QED BY <1>1, <1>2, <2>2
<1>11. TypeOK' BY <1>1, <1>2, <1>3, <1>4, <1>8, <1>10 DEF TypeOK, Bytes
<1>12. EncodeInv'
  <2>1. Implemented(n + 1)' BY <1>2, <1>3, <1>5 DEF Implemented
  <2>2. \A i \in Indices : BetterSizes(i)' = BetterSizes(i) BY <1>2 DEF BetterSizes, lastDelta
  <2>3. Len(code)' = IF at' \in Indices' THEN position'[at'] ELSE currentSize'
    BY <1>2, <1>3, <1>8, <1>9
  <2>4. Laid(position, size, n + 1, currentSize)' BY <1>2, <1>3, <1>5
  <2>5. (\A i \in Indices : size[i] = BetterSizes(i))' BY <1>2, <1>3, <1>5, <2>2
  <2>6. QED BY <1>2, <1>5, <1>10, <2>1, <2>3, <2>4, <2>5 DEF EncodeInv
<1>13. MaxInv' /\ BetterInv' BY <1>10 DEF MaxInv, BetterInv
<1>14. QED BY <1>11, <1>12, <1>13 DEF IInv

\* The end of the method preserves the invariant.
LEMMA FinishMethodIInv == IInv /\ FinishMethod => IInv'
<1> SUFFICES ASSUME IInv, FinishMethod PROVE IInv' OBVIOUS
<1>1. TypeOK /\ EncodeInv /\ phase = "encode" /\ at \notin Indices BY DEF IInv, FinishMethod
<1>2. /\ phase' = "generated" /\ at' = at /\ code' = code
      /\ instructionStream' = instructionStream /\ position' = position /\ size' = size
      /\ lastPosition' = lastPosition /\ lastSize' = lastSize
      /\ currentSize' = currentSize /\ oldSize' = oldSize
  BY DEF FinishMethod
<1>3. n \in Nat /\ Indices = 1..n /\ Indices' = Indices /\ n' = n
  BY <1>1, <1>2, StreamFacts DEF TypeOK, Indices, n
<1>4. at = n + 1 BY <1>1, <1>3 DEF TypeOK
<1>5. TypeOK' BY <1>1, <1>2, <1>3 DEF TypeOK
<1>6. EncodeInv' BY <1>1, <1>2, <1>3, <1>4 DEF EncodeInv, Implemented, BetterSizes, lastDelta
<1>7. MaxInv' /\ BetterInv' BY <1>2 DEF MaxInv, BetterInv
<1>8. QED BY <1>5, <1>6, <1>7 DEF IInv

\* A stuttering step preserves the invariant.
LEMMA StutterIInv == IInv /\ UNCHANGED vars => IInv'
<1> SUFFICES ASSUME IInv, UNCHANGED vars PROVE IInv' OBVIOUS
<1> USE DEF vars
<1>1. TypeOK' BY DEF IInv, TypeOK, Indices, n
<1>2. MaxInv' BY DEF IInv, MaxInv, Implemented
<1>3. BetterInv'
  <2>1. BetterInv BY DEF IInv
  <2>2. BetterInv' <=> BetterInv
    BY DEF BetterInv, Implemented, BetterSizes, lastDelta, Shrunk, Shift, EndShift, AtShift, Indices, n
  <2>3. QED BY <2>1, <2>2
<1>4. EncodeInv' BY DEF IInv, EncodeInv, Implemented, BetterSizes, lastDelta, Indices, n
<1>5. QED BY <1>1, <1>2, <1>3, <1>4 DEF IInv

\* The invariant holds in all states.
LEMMA InvariantHolds == Spec => []IInv
<1>1. Init => IInv BY InitIInv
<1>2. IInv /\ [generate]_vars => IInv'
  <2> SUFFICES ASSUME IInv, [generate]_vars PROVE IInv' OBVIOUS
  <2>1. CASE ComputeMaxSize BY <2>1, ComputeMaxSizeIInv
  <2>2. CASE RefuseInstruction BY <2>2, AbortIInv DEF RefuseInstruction
  <2>3. CASE FirstPass BY <2>3, FirstPassIInv
  <2>4. CASE ComputeBetterSize BY <2>4, ComputeBetterSizeIInv
  <2>5. CASE CommitSizes BY <2>5, CommitSizesIInv
  <2>6. CASE EncodeInstruction BY <2>6, EncodeInstructionIInv
  <2>7. CASE RefuseExtension BY <2>7, AbortIInv DEF RefuseExtension
  <2>8. CASE FinishMethod BY <2>8, FinishMethodIInv
  <2>9. CASE UNCHANGED vars BY <2>9, StutterIInv
  <2>10. QED BY <2>1, <2>2, <2>3, <2>4, <2>5, <2>6, <2>7, <2>8, <2>9 DEF generate
<1>3. QED BY <1>1, <1>2, PTL DEF Spec

----------------------------------------------------------------------------
(***************************************************************************)
(* The bytes that are encoded stay where they were written, and the        *)
(* interpreter reads them at the position of their instruction.            *)
(***************************************************************************)
EncodedBytes(i) == encode(instructionStream[i], encodeDelta(i))

Written(i) ==
  /\ ~NeedsExtension(instructionStream[i], encodeDelta(i))
  /\ Holds(code, position[i], EncodedBytes(i))

CodeInv == phase \in {"encode", "generated"} => \A i \in 1..(at - 1) : Written(i)

\* The size of an instruction in the encoding is the one it was laid out with.
LEMMA EncodedAsLaid ==
  ASSUME IInv, phase \in {"encode", "generated"}, NEW i \in Indices,
         ~NeedsExtension(instructionStream[i], encodeDelta(i))
  PROVE  /\ EncodedBytes(i) \in Seq(Bytes) /\ Len(EncodedBytes(i)) = size[i]
         /\ size[i] = computeBetterSize(instructionStream[i], encodeDelta(i))
<1>1. TypeOK /\ EncodeInv BY DEF IInv
<1>2. /\ position = lastPosition /\ size = lastSize
      /\ size[i] = BetterSizes(i) /\ Implemented(n + 1)
  BY <1>1 DEF EncodeInv
<1>3. n \in Nat /\ i \in 1..n /\ (n + 1) - 1 = n BY <1>1, StreamFacts DEF TypeOK
<1>4. ~Unimplemented(instructionStream[i]) BY <1>2, <1>3 DEF Implemented
<1>5. instructionStream[i] \in Instruction BY <1>1, StreamFacts DEF TypeOK
<1>6. instructionStream[i].op = "Bytecode" => instructionStream[i].a \in Bytes
  BY <1>1, StreamFacts DEF TypeOK
<1>7. instructionStream[i].op \in Branches => encodeDelta(i) \in Int BY <1>1, Distances
<1>8. size[i] = computeBetterSize(instructionStream[i], encodeDelta(i))
  BY <1>1, <1>2, SettledSizes
<1>9. QED BY <1>4, <1>5, <1>6, <1>7, <1>8, EncodedSize DEF EncodedBytes

\* What is appended leaves the bytes before it alone.
LEMMA HeldByLonger ==
  ASSUME NEW c \in Seq(Bytes), NEW more \in Seq(Bytes), NEW pc \in Nat, NEW bytes \in Seq(Bytes),
         Holds(c, pc, bytes), pc + Len(bytes) <= Len(c)
  PROVE  Holds(c \o more, pc, bytes)
<1> SUFFICES ASSUME NEW j \in 1..Len(bytes) PROVE (c \o more)[pc + j] = bytes[j] BY DEF Holds
<1>1. PICK l \in Nat, m \in Nat : l = Len(bytes) /\ m = Len(c) OBVIOUS
<1>2. j \in 1..l /\ pc + l <= m BY <1>1
<1>3. pc + j \in 1..m BY <1>2
<1>4. (c \o more)[pc + j] = c[pc + j] BY <1>1, <1>3
<1>5. QED BY <1>4 DEF Holds

\* Bytes appended to code are held at its end.
LEMMA HeldAtTheEnd ==
  ASSUME NEW c \in Seq(Bytes), NEW bytes \in Seq(Bytes)
  PROVE  Holds(c \o bytes, Len(c), bytes)
<1> SUFFICES ASSUME NEW j \in 1..Len(bytes) PROVE (c \o bytes)[Len(c) + j] = bytes[j] BY DEF Holds
<1>1. PICK l \in Nat, m \in Nat : l = Len(bytes) /\ m = Len(c) OBVIOUS
<1>2. PICK k \in Nat : k = m + j BY <1>1
<1>3. k \in (m + 1)..(m + l) /\ k - m = j BY <1>1, <1>2
<1>4. (c \o bytes)[k] = bytes[k - m] BY <1>1, <1>3
<1>5. QED BY <1>1, <1>2, <1>3, <1>4

\* At first no instruction is encoded.
LEMMA CodeInvInit == Init => CodeInv
BY DEF Init, CodeInv

\* Every step keeps the instructions that have been encoded.
LEMMA CodeInvStep == IInv /\ CodeInv /\ [generate]_vars => CodeInv'
<1> SUFFICES ASSUME IInv, CodeInv, [generate]_vars PROVE CodeInv' OBVIOUS
<1> USE DEF CodeInv
<1>1. TypeOK /\ EncodeInv BY DEF IInv
<1>2. n \in Nat /\ Indices = 1..n /\ at \in 1..(n + 1) BY <1>1, StreamFacts DEF TypeOK
<1>3. CASE ComputeMaxSize \/ ComputeBetterSize BY <1>3 DEF ComputeMaxSize, ComputeBetterSize
<1>4. CASE RefuseInstruction \/ RefuseExtension
  BY <1>4 DEF RefuseInstruction, RefuseExtension, abort
<1>5. CASE FirstPass BY <1>5 DEF FirstPass, StartPass
<1>6. CASE CommitSizes
  <2>1. phase' = "better" \/ at' = 1 BY <1>6 DEF CommitSizes, StartPass
  <2>2. QED BY <2>1
<1>7. CASE EncodeInstruction
  <2>1. /\ phase = "encode" /\ at \in Indices
        /\ ~NeedsExtension(Instr, encodeDelta(at))
        /\ code' = code \o EncodedBytes(at) /\ at' = at + 1
        /\ instructionStream' = instructionStream /\ position' = position /\ size' = size
        /\ lastPosition' = lastPosition
    BY <1>7 DEF EncodeInstruction, EncodedBytes, Instr
  <2>2. \A i : encodeDelta(i)' = encodeDelta(i) BY <2>1 DEF encodeDelta, delta
  <2>3. \A i : Written(i)' <=> /\ ~NeedsExtension(instructionStream[i], encodeDelta(i))
                               /\ Holds(code', position[i], EncodedBytes(i))
    BY <2>1, <2>2 DEF Written, EncodedBytes, Holds
  <2>4. code \in Seq(Bytes) /\ position \in [Indices -> Nat] /\ size \in [Indices -> Nat]
    BY <1>1 DEF TypeOK, Bytes
  <2>5. /\ Laid(position, size, n + 1, currentSize) /\ Len(code) = position[at]
    BY <1>1, <2>1 DEF EncodeInv
  <2>6. EncodedBytes(at) \in Seq(Bytes) BY <2>1, EncodedAsLaid DEF Instr
  <2> DEFINE Now(i) == /\ ~NeedsExtension(instructionStream[i], encodeDelta(i))
                       /\ Holds(code', position[i], EncodedBytes(i))
  <2>7. Now(at)
    <3>1. Holds(code', position[at], EncodedBytes(at)) BY <2>1, <2>4, <2>5, <2>6, HeldAtTheEnd
    <3>2. QED BY <2>1, <3>1 DEF Instr
  <2>8. ASSUME NEW i \in 1..(at - 1) PROVE Now(i)
    <3>1. i \in Indices /\ i < at /\ i \in 1..n /\ at \in 1..n BY <1>2, <2>1
    <3>2. Written(i) BY <2>1
    <3>3. EncodedBytes(i) \in Seq(Bytes) /\ Len(EncodedBytes(i)) = size[i]
      BY <2>1, <3>1, <3>2, EncodedAsLaid DEF Written
    <3>4. (n + 1) - 1 = n BY <1>2
    <3>5. position[i] + size[i] <= position[at] BY <2>5, <3>1, <3>4 DEF Laid
    <3>6. position[i] \in Nat BY <2>4, <3>1
    <3>7. position[i] + Len(EncodedBytes(i)) <= Len(code) BY <2>5, <3>3, <3>5
    <3>8. Holds(code, position[i], EncodedBytes(i)) BY <3>2 DEF Written
    <3>9. Holds(code', position[i], EncodedBytes(i))
      BY <2>1, <2>4, <2>6, <3>3, <3>6, <3>7, <3>8, HeldByLonger
    <3>10. QED BY <3>2, <3>9 DEF Written
  <2>9. \A i \in 1..(at' - 1) : i = at \/ i \in 1..(at - 1) BY <1>2, <2>1
  <2> HIDE DEF Now
  <2>10. \A i \in 1..(at' - 1) : Now(i) BY <2>7, <2>8, <2>9
  <2>11. QED BY <2>3, <2>10 DEF Now
<1>8. CASE FinishMethod
  <2>1. /\ phase = "encode" /\ at' = at /\ code' = code /\ instructionStream' = instructionStream
        /\ position' = position /\ size' = size /\ lastPosition' = lastPosition
    BY <1>8 DEF FinishMethod
  <2>2. \A i : Written(i)' <=> Written(i)
    BY <2>1 DEF Written, EncodedBytes, encodeDelta, delta
  <2>3. QED BY <2>1, <2>2
<1>9. CASE UNCHANGED vars
  <2>1. \A i : Written(i)' <=> Written(i)
    BY <1>9 DEF vars, Written, EncodedBytes, encodeDelta, delta
  <2>2. QED BY <1>9, <2>1 DEF vars
<1>10. QED BY <1>3, <1>4, <1>5, <1>6, <1>7, <1>8, <1>9 DEF generate

\* The code holds every encoded instruction, in all states.
LEMMA CodeHolds == Spec => [](IInv /\ CodeInv)
<1>1. Init => CodeInv BY CodeInvInit
<1>2. IInv /\ CodeInv /\ [generate]_vars => CodeInv' BY CodeInvStep
<1>3. QED BY <1>1, <1>2, InvariantHolds, PTL DEF Spec

\* What is known of an instruction when the method is generated.
LEMMA Generated ==
  ASSUME IInv, CodeInv, phase = "generated", NEW i \in Indices
  PROVE  LET instruction == instructionStream[i] IN
         /\ instruction \in Instruction /\ ~Unimplemented(instruction)
         /\ WellFormedInstruction(instruction)
         /\ ~NeedsExtension(instruction, encodeDelta(i))
         /\ Holds(code, position[i], encode(instruction, encodeDelta(i)))
         /\ size[i] = computeBetterSize(instruction, encodeDelta(i))
         /\ position[i] \in Nat /\ size[i] \in Nat
         /\ instruction.op \in Branches =>
              /\ encodeDelta(i) \in Int /\ encodeDelta(i) = delta(i)
              /\ position[instruction.to] = position[i] + size[i] + encodeDelta(i)
         /\ instruction.op = "PushClosure" => encodeDelta(i) \in Nat
<1> DEFINE instruction == instructionStream[i]
<1>1. TypeOK /\ EncodeInv /\ at = n + 1 BY DEF IInv, EncodeInv
<1>2. n \in Nat /\ i \in 1..n /\ (n + 1) - 1 = n /\ Indices = 1..n BY <1>1, StreamFacts DEF TypeOK
<1>3. Written(i) BY <1>1, <1>2 DEF CodeInv
<1>4. instruction \in Instruction BY <1>1, StreamFacts DEF TypeOK
<1>5. ~Unimplemented(instruction) BY <1>1, <1>2 DEF EncodeInv, Implemented
<1>6. WellFormedInstruction(instruction)
  <2>1. instructionStream \in Streams BY <1>1 DEF TypeOK
  <2>2. WellFormed(instructionStream) BY <2>1, StreamsAssumption
  <2>3. QED BY <2>2 DEF WellFormed, Indices
<1>7. ~NeedsExtension(instruction, encodeDelta(i)) /\ Holds(code, position[i], encode(instruction, encodeDelta(i)))
  BY <1>3 DEF Written, EncodedBytes
<1>8. size[i] = computeBetterSize(instruction, encodeDelta(i)) BY <1>7, EncodedAsLaid
<1>9. position[i] \in Nat /\ size[i] \in Nat BY <1>1 DEF TypeOK
<1>10. ASSUME instruction.op \in Branches
       PROVE  /\ encodeDelta(i) \in Int /\ encodeDelta(i) = delta(i)
              /\ position[instruction.to] = position[i] + size[i] + encodeDelta(i)
  <2>1. instruction.to \in Indices BY <1>1, <1>10, StreamFacts DEF TypeOK
  <2>2. position[instruction.to] \in Nat BY <1>1, <2>1 DEF TypeOK
  <2>3. position = lastPosition BY <1>1 DEF EncodeInv
  <2>4. encodeDelta(i) = delta(i) BY <2>3 DEF encodeDelta, delta
  <2>5. delta(i) = position[instruction.to] - position[i] - size[i] BY DEF delta
  <2>6. QED BY <1>9, <2>2, <2>4, <2>5
<1>11. ASSUME instruction.op = "PushClosure" PROVE encodeDelta(i) \in Nat
  <2>1. instruction.op \in Branches BY <1>11 DEF Branches
  <2>2. instruction.to \in Indices /\ instruction.to > i
    BY <1>1, <1>11, <2>1, StreamFacts DEF TypeOK
  <2>3. position[i] + size[i] <= position[instruction.to]
    BY <1>1, <1>2, <2>2 DEF EncodeInv, Laid
  <2>4. position[instruction.to] \in Nat BY <1>1, <2>2 DEF TypeOK
  <2>5. /\ encodeDelta(i) \in Int
        /\ position[instruction.to] = position[i] + size[i] + encodeDelta(i)
    BY <1>10, <2>1
  <2>6. QED BY <1>9, <2>3, <2>4, <2>5
<1>12. QED BY <1>4, <1>5, <1>6, <1>7, <1>8, <1>9, <1>10, <1>11

----------------------------------------------------------------------------
(***************************************************************************)
(* Theorems.                                                               *)
(***************************************************************************)
\* The fields of the instructions and of the assembler keep their types.
THEOREM TypeCorrect == Spec => []TypeOK
<1>1. IInv => TypeOK BY DEF IInv
<1>2. QED BY <1>1, InvariantHolds, PTL

\* do ... while(currentSize < oldSize) stops at a fixed point, never because a
\* pass has made the method larger.
THEOREM LayoutSettles == Spec => []LayoutIsSettled
<1>1. IInv => LayoutIsSettled
  <2> SUFFICES ASSUME IInv, phase \in {"encode", "generated"}
               PROVE  /\ position = lastPosition /\ size = lastSize
                      /\ \A i \in Indices : size[i] = computeBetterSize(instructionStream[i], encodeDelta(i))
    BY DEF IInv, EncodeInv, LayoutIsSettled
  <2>1. /\ TypeOK /\ position = lastPosition /\ size = lastSize
        /\ \A i \in Indices : size[i] = BetterSizes(i)
    BY DEF IInv, EncodeInv
  <2>2. QED BY <2>1, SettledSizes
<1>2. QED BY <1>1, InvariantHolds, PTL

\* The encoding never overruns the buffer that generate has allocated, and
\* leaves no byte of it over.
THEOREM EncodingFits == Spec => []CodeFits
<1>1. IInv => CodeFits
  <2> SUFFICES ASSUME IInv PROVE CodeFits OBVIOUS
  <2>1. TypeOK /\ EncodeInv BY DEF IInv
  <2>2. phase = "generated" => at \notin Indices BY <2>1, StreamFacts DEF EncodeInv, TypeOK
  <2>3. QED BY <2>1, <2>2 DEF EncodeInv, CodeFits
<1>2. QED BY <1>1, InvariantHolds, PTL

\* A jump that is taken goes to its label, whatever the sizes of the
\* instructions in between came out as, if a signed byte holds the distance;
\* and a closure goes on behind its block.
THEOREM JumpsReachTheirLabels == Spec => []BranchesLand
<1>1. IInv /\ CodeInv => BranchesLand
  <2> SUFFICES ASSUME IInv, CodeInv, phase = "generated", NEW i \in Indices,
                      \/ instructionStream[i].op \in Jumps /\ size[i] > 0 /\ delta(i) \in -128..127
                      \/ instructionStream[i].op = "PushClosure"
               PROVE  Decode(code, position[i]).target = position[instructionStream[i].to]
    BY DEF BranchesLand, Lands
  <2> DEFINE instruction == instructionStream[i] d == encodeDelta(i)
  <2>1. /\ instruction \in Instruction /\ ~NeedsExtension(instruction, d)
        /\ Holds(code, position[i], encode(instruction, d))
        /\ size[i] = computeBetterSize(instruction, d)
        /\ position[i] \in Nat /\ size[i] \in Nat
    BY Generated
  <2>2. instruction.op \in Branches BY DEF Branches
  <2>3. d \in Int /\ d = delta(i) /\ position[instruction.to] = position[i] + size[i] + d
    BY <2>2, Generated
  <2>4. CASE instruction.op = "PushClosure"
    <3>1. d \in Nat BY <2>4, Generated
    <3>2. size[i] = 3 /\ Decode(code, position[i]).target = position[i] + 3 + d
      BY <2>1, <2>4, <3>1, DecodedClosure
    <3>3. QED BY <2>3, <3>2
  <2>5. CASE instruction.op # "PushClosure"
    <3>1. instruction.op \in Jumps /\ size[i] > 0 /\ d \in -128..127 BY <2>3, <2>5
    <3>2. d # 0 BY <2>1, <3>1, Kinds DEF computeBetterSize
    <3>3. Decode(code, position[i]).target = position[i] + computeBetterSize(instruction, d) + d
      BY <2>1, <2>3, <3>1, <3>2, DecodedJump
    <3>4. QED BY <2>1, <2>3, <3>3
  <2>6. QED BY <2>4, <2>5
<1>2. QED BY <1>1, CodeHolds, PTL

\* The interpreter reads at the place of every instruction the one that was
\* assembled, with its operands, and finds the next one behind it.
THEOREM CodeIsReadBack == Spec => []ReadsBack
<1>1. IInv /\ CodeInv => ReadsBack
  <2> SUFFICES ASSUME IInv, CodeInv, phase = "generated", NEW i \in Indices,
                      size[i] > 0, Fits(instructionStream[i])
               PROVE  LET instruction == instructionStream[i]
                          read        == Decode(code, position[i]) IN
                      /\ read.op = instruction.op /\ read.next = position[i] + size[i]
                      /\ instruction.op \notin Jumps => read.a = instruction.a
                      /\ instruction.op \notin Jumps \cup {"PushReceiverVariable"} => read.b = instruction.b
    BY DEF ReadsBack
  <2> DEFINE instruction == instructionStream[i] d == encodeDelta(i)
  <2>1. /\ instruction \in Instruction /\ ~Unimplemented(instruction)
        /\ WellFormedInstruction(instruction) /\ ~NeedsExtension(instruction, d)
        /\ Holds(code, position[i], encode(instruction, d))
        /\ size[i] = computeBetterSize(instruction, d)
        /\ position[i] \in Nat /\ size[i] \in Nat
    BY Generated
  <2>2. CASE instruction.op \in Jumps
    <3>1. instruction.op \in Branches BY <2>2 DEF Branches
    <3>2. d \in Int BY <3>1, Generated
    <3>3. d # 0 BY <2>1, <2>2, Kinds DEF computeBetterSize
    <3>4. /\ Decode(code, position[i]).op = instruction.op
          /\ Decode(code, position[i]).next = position[i] + computeBetterSize(instruction, d)
      BY <2>1, <2>2, <3>2, <3>3, DecodedJump
    <3>5. QED BY <2>1, <2>2, <3>4
  <2>3. CASE instruction.op = "PushClosure"
    <3>1. d \in Nat BY <2>3, Generated
    <3>2. /\ computeBetterSize(instruction, d) = 3
          /\ Decode(code, position[i]).op = instruction.op
          /\ Decode(code, position[i]).next = position[i] + 3
          /\ Decode(code, position[i]).a = instruction.a
          /\ Decode(code, position[i]).b = instruction.b
      BY <2>1, <2>3, <3>1, DecodedClosure
    <3>3. QED BY <2>1, <3>2
  <2>4. CASE instruction.op \notin Branches
    <3>1. computeBetterSize(instruction, d) = FixedSize(instruction) BY <2>1, <2>4, FixedSizes
    <3>2. instruction.op # "Label"
      <4>1. instruction.op = "Label" => FixedSize(instruction) = 0 BY Kinds DEF FixedSize
      <4>2. QED BY <2>1, <3>1, <4>1
    <3>3. Decode(code, position[i]) =
            Decoded(instruction.op, instruction.a,
                    IF instruction.op = "PushReceiverVariable" THEN 0 ELSE instruction.b,
                    position[i] + FixedSize(instruction), position[i] + FixedSize(instruction))
      BY <2>1, <2>4, <3>2, DecodedFixed
    <3>4. QED BY <2>1, <3>1, <3>3 DEF Decoded
  <2>5. QED BY <2>2, <2>3, <2>4 DEF Branches
<1>2. QED BY <1>1, CodeHolds, PTL
=============================================================================
