-------------------------------- MODULE Oops --------------------------------
(***************************************************************************)
(* Object references and what the machine computes with them without       *)
(* sending a message: the tags of ObjectModel.hpp, the special arithmetic  *)
(* messages of the interpreter (StackInterpreter.cpp) and the native       *)
(* methods of the number classes (Object.cpp).                             *)
(*                                                                         *)
(* An Oop is a record of its tag, a number and a name.  The number of a    *)
(* float counts quarters: the floats of the model are multiples of 1/4,    *)
(* which doubles represent exactly.                                        *)
(***************************************************************************)
EXTENDS Integers, Sequences, FiniteSets, FiniteSetsExt

CONSTANT WordBits \* the width of intptr_t

ASSUME WordBitsAssumption == WordBits \in Nat /\ WordBits >= 4

Word(tag, value, name) == [tag |-> tag, value |-> value, name |-> name]

nil           == Word("nil", 0, "")
true          == Word("true", 0, "")
false         == Word("false", 0, "")
Pointer(n)    == Word("pointer", n, "")     \* an object of the heap
Symbol(s)     == Word("symbol", 0, s)
ClassOop(c)   == Word("class", 0, c)
Raw(n)        == Word("raw", n, "")         \* a word of the stack that is no Oop
Boolean(b)    == IF b THEN true ELSE false

(***************************************************************************)
(* Widths.                                                                 *)
(***************************************************************************)
Pow2(n) == 2 ^ n
Wrap(n, bits) == ((n + Pow2(bits - 1)) % Pow2(bits)) - Pow2(bits - 1)

SmallIntegerBits == WordBits - 1
SmallIntegerMin  == -Pow2(WordBits - 1)
SmallIntegerMax  == Pow2(WordBits - 1) - 1

\* The integers that fit beside the tag.
Representable(n) == n \in -Pow2(SmallIntegerBits - 1) .. Pow2(SmallIntegerBits - 1) - 1

\* Faulty variant: an integer keeps the bits that the tag has no room for.
EncodedWithoutShift(n) == Word("int", n, "")

\* The shift that makes room for the tag loses the highest bit.
encodeSmallInteger(n) == Word("int", Wrap(n, SmallIntegerBits), "")

\* The limits are those of the word, not of what fits beside the tag.
signedFitsInSmallInteger(n) == SmallIntegerMin <= n /\ n <= SmallIntegerMax

\* What a native or a special message ends with: a value, a message that is
\* sent instead, a failed primitive, or the end of the process.
Answer(oop) == [outcome |-> "answer", oop |-> oop]
SendInstead == [outcome |-> "send", oop |-> nil]
Failed      == [outcome |-> "failed", oop |-> nil]
Crash       == [outcome |-> "crash", oop |-> nil]
Assertion   == [outcome |-> "assertion", oop |-> nil]

signedInt64ObjectFor(n) ==
  IF signedFitsInSmallInteger(Wrap(n, WordBits))
  THEN Answer(encodeSmallInteger(Wrap(n, WordBits))) ELSE Crash

\* A character is an int that loses its three highest bits to the tag.
CharacterBits == 29
encodeCharacter(n) == Word("char", Wrap(n, CharacterBits), "")

\* A float whose exponent is not one of the 256 that fit keeps the low bits of
\* it: zero turns into 2.0, an infinity into 1.0 with its sign.  The test that
\* should prevent it, floatFitsInSmallFloat, accepts every exponent.
Zero == 8
Infinity == 4
encodeSmallFloat(quarters) == Word("float", IF quarters = 0 THEN Zero ELSE quarters, "")

isSmallInteger(a) == a.tag = "int"
isCharacter(a)    == a.tag = "char"
isFloatOrInt(a)   == a.tag \in {"int", "float"}
decodeFloatOrInt(a) == IF a.tag = "int" THEN 4 * a.value ELSE a.value

(***************************************************************************)
(* Math.hpp.  C++ rounds quotients towards zero, and the remainder has the *)
(* sign of the dividend.                                                   *)
(***************************************************************************)
Abs(n) == IF n < 0 THEN -n ELSE n
CQuotient(a, b)  == IF (a < 0) = (b < 0) THEN Abs(a) \div Abs(b) ELSE -(Abs(a) \div Abs(b))
CRemainder(a, b) == a - b * CQuotient(a, b)

divideRoundNeg(dividend, divisor) ==
  IF (dividend >= 0) = (divisor > 0) THEN CQuotient(dividend, divisor)
  ELSE IF dividend >= 0 THEN CQuotient(-(dividend - divisor - 1), divisor)
  ELSE CQuotient(-(-dividend + divisor - 1), divisor)

\* Faulty variant: the remainder is not brought to the sign of the divisor.
TruncatedModule(dividend, divisor) == CRemainder(dividend, divisor)

moduleRoundNeg(dividend, divisor) ==
  LET result == CRemainder(dividend, divisor) IN
  IF result # 0 /\ (result < 0) # (divisor < 0) THEN result + divisor ELSE result

\* The quotient of two floats rounded down to a number of quarters, and to a
\* whole number.
FloatQuotient(a, b) == IF b = 0 THEN IF a < 0 THEN -Infinity ELSE Infinity
                       ELSE IF b < 0 THEN (-4 * a) \div (-b) ELSE (4 * a) \div b
FloatFloor(q) == 4 * (q \div 4)

\* Bits of integers in two's complement.
Bits(n, width) == {i \in 0..width - 1 : (n \div Pow2(i)) % 2 = 1}
FromBits(bits, width) == Wrap(MapThenSumSet(Pow2, bits), width)
BitAnd(a, b, width) == FromBits(Bits(a, width) \cap Bits(b, width), width)
BitOr(a, b, width)  == FromBits(Bits(a, width) \cup Bits(b, width), width)
BitXor(a, b, width) == FromBits((Bits(a, width) \cup Bits(b, width))
                                  \ (Bits(a, width) \cap Bits(b, width)), width)
ShiftLeft(a, n)  == Wrap(a * Pow2(n % WordBits), WordBits)
ShiftRight(a, n) == a \div Pow2(n % WordBits)

Compare(message, a, b) ==
  CASE message = "<"  -> a < b
    [] message = ">"  -> a > b
    [] message = "<=" -> a <= b
    [] message = ">=" -> a >= b
    [] message = "="  -> a = b
    [] message = "~=" -> a # b

(***************************************************************************)
(* The special messages of the interpreter: what the bytecode answers, or  *)
(* that it sends the message.                                              *)
(***************************************************************************)
Integers2(a, b)   == isSmallInteger(a) /\ isSmallInteger(b)
Characters2(a, b) == isCharacter(a) /\ isCharacter(b)
Floats2(a, b)     == isFloatOrInt(a) /\ isFloatOrInt(b) /\ ~Integers2(a, b)

SpecialMessageAdd(a, b) ==
  IF Integers2(a, b) THEN signedInt64ObjectFor(a.value + b.value)
  ELSE IF Characters2(a, b) THEN Answer(encodeCharacter(a.value + b.value))
  ELSE IF Floats2(a, b) THEN Answer(encodeSmallFloat(decodeFloatOrInt(a) + decodeFloatOrInt(b)))
  ELSE SendInstead

SpecialMessageMinus(a, b) ==
  IF Integers2(a, b) THEN signedInt64ObjectFor(a.value - b.value)
  ELSE IF Characters2(a, b) THEN Answer(encodeCharacter(a.value - b.value))
  ELSE IF Floats2(a, b) THEN Answer(encodeSmallFloat(decodeFloatOrInt(a) - decodeFloatOrInt(b)))
  ELSE SendInstead

Comparison(message, a, b) ==
  IF Integers2(a, b) \/ Characters2(a, b) THEN Answer(Boolean(Compare(message, a.value, b.value)))
  ELSE IF Floats2(a, b)
  THEN Answer(Boolean(Compare(message, decodeFloatOrInt(a), decodeFloatOrInt(b))))
  ELSE SendInstead

Orderings  == {"<", ">", "<=", ">="}
Equalities == {"=", "~="}
SpecialMessageOrdering(message, a, b) == Comparison(message, a, b)
SpecialMessageEquality(message, a, b) == Comparison(message, a, b)

\* The product is tested by dividing it, by zero too, and by what fits in a
\* word, not beside the tag.
SpecialMessageMultiply(a, b) ==
  LET result == Wrap(a.value * b.value, WordBits) IN
  IF Integers2(a, b)
  THEN IF b.value = 0 THEN Crash
       ELSE IF CQuotient(result, b.value) = a.value THEN signedInt64ObjectFor(result)
       ELSE SendInstead
  ELSE IF Characters2(a, b) THEN Answer(encodeCharacter(a.value * b.value))
  ELSE IF Floats2(a, b)
  THEN Answer(encodeSmallFloat((decodeFloatOrInt(a) * decodeFloatOrInt(b)) \div 4))
  ELSE SendInstead

SpecialMessageDivide(a, b) ==
  IF Integers2(a, b)
  THEN IF b.value = 0 THEN Crash
       ELSE IF CRemainder(a.value, b.value) = 0
       THEN Answer(encodeSmallInteger(CQuotient(a.value, b.value)))
       ELSE SendInstead
  ELSE IF Floats2(a, b)
  THEN Answer(encodeSmallFloat(FloatQuotient(decodeFloatOrInt(a), decodeFloatOrInt(b))))
  ELSE SendInstead

SpecialMessageRemainder(a, b) ==
  LET fa == decodeFloatOrInt(a)
      fb == decodeFloatOrInt(b) IN
  IF Integers2(a, b)
  THEN IF b.value = 0 THEN Assertion
       ELSE Answer(encodeSmallInteger(moduleRoundNeg(a.value, b.value)))
  ELSE IF Floats2(a, b)
  THEN Answer(encodeSmallFloat(fa - (FloatFloor(FloatQuotient(fa, fb)) * fb) \div 4))
  ELSE SendInstead

SpecialMessageIntegerDivision(a, b) ==
  IF Integers2(a, b)
  THEN IF b.value = 0 THEN Assertion
       ELSE Answer(encodeSmallInteger(divideRoundNeg(a.value, b.value)))
  ELSE IF Floats2(a, b)
  THEN Answer(encodeSmallFloat(FloatFloor(FloatQuotient(decodeFloatOrInt(a), decodeFloatOrInt(b)))))
  ELSE SendInstead

SpecialMessageBitShift(a, b) ==
  IF ~Integers2(a, b) THEN SendInstead
  ELSE Answer(encodeSmallInteger(IF b.value > 0 THEN ShiftLeft(a.value, b.value)
                                 ELSE ShiftRight(a.value, -b.value)))

SpecialMessageBitAnd(a, b) ==
  IF Integers2(a, b) THEN Answer(encodeSmallInteger(BitAnd(a.value, b.value, WordBits)))
  ELSE IF Characters2(a, b) THEN Answer(encodeCharacter(BitAnd(a.value, b.value, CharacterBits)))
  ELSE SendInstead

SpecialMessageBitOr(a, b) ==
  IF Integers2(a, b) THEN Answer(encodeSmallInteger(BitOr(a.value, b.value, WordBits)))
  ELSE IF Characters2(a, b) THEN Answer(encodeCharacter(BitOr(a.value, b.value, CharacterBits)))
  ELSE SendInstead

ArithmeticMessages ==
  {"+", "-", "*", "/", "\\\\", "//", "bitShift:", "bitAnd:", "bitOr:"} \cup Orderings \cup Equalities

SpecialArithmetic(message, a, b) ==
  CASE message = "+"   -> SpecialMessageAdd(a, b)
    [] message = "-"   -> SpecialMessageMinus(a, b)
    [] message \in Orderings  -> SpecialMessageOrdering(message, a, b)
    [] message \in Equalities -> SpecialMessageEquality(message, a, b)
    [] message = "*"   -> SpecialMessageMultiply(a, b)
    [] message = "/"   -> SpecialMessageDivide(a, b)
    [] message = "\\\\" -> SpecialMessageRemainder(a, b)
    [] message = "//"  -> SpecialMessageIntegerDivision(a, b)
    [] message = "bitShift:" -> SpecialMessageBitShift(a, b)
    [] message = "bitAnd:"   -> SpecialMessageBitAnd(a, b)
    [] message = "bitOr:"    -> SpecialMessageBitOr(a, b)

\* The message that is sent when the bytecode does not answer.
FallbackSelector(message) == IF message = "bitOr:" THEN "bitAnd:" ELSE message

(***************************************************************************)
(* The native methods of SmallInteger and Float: what they return, or that *)
(* the primitive fails.                                                    *)
(***************************************************************************)
IntegerSums     == {"+", "-"}
IntegerProducts == {"*", "/", "\\\\", "//", "quo:"}
IntegerBits     == {"bitAnd:", "bitOr:", "bitXor:", "bitShift:"}

SmallIntegerSum(message, a, b) ==
  IF Integers2(a, b)
  THEN signedInt64ObjectFor(IF message = "+" THEN a.value + b.value ELSE a.value - b.value)
  ELSE Failed

\* The factor that the product is tested with may be zero.
SmallIntegerProduct(message, a, b) ==
  LET ia == a.value
      ib == b.value
      product == Wrap(ia * ib, WordBits) IN
  IF ~Integers2(a, b) \/ (ib = 0 /\ message # "*") THEN Failed
  ELSE CASE message = "*" -> IF ib = 0 THEN Crash
                             ELSE IF CQuotient(product, ib) # ia THEN Failed
                             ELSE signedInt64ObjectFor(product)
         [] message = "/" -> IF CRemainder(ia, ib) # 0 THEN Failed
                             ELSE signedInt64ObjectFor(divideRoundNeg(ia, ib))
         [] message = "\\\\" -> signedInt64ObjectFor(moduleRoundNeg(ia, ib))
         [] message = "//"   -> signedInt64ObjectFor(divideRoundNeg(ia, ib))
         [] message = "quo:" -> signedInt64ObjectFor(CQuotient(ia, ib))

SmallIntegerComparison(message, a, b) ==
  IF Integers2(a, b) THEN Answer(Boolean(Compare(message, a.value, b.value))) ELSE Failed

SmallIntegerBitwise(message, a, b) ==
  IF ~Integers2(a, b) THEN Failed
  ELSE CASE message = "bitAnd:" -> signedInt64ObjectFor(BitAnd(a.value, b.value, WordBits))
         [] message = "bitOr:"  -> signedInt64ObjectFor(BitOr(a.value, b.value, WordBits))
         [] message = "bitXor:" -> signedInt64ObjectFor(BitXor(a.value, b.value, WordBits))
         [] message = "bitShift:" -> signedInt64ObjectFor(
              IF b.value < 0 THEN ShiftRight(a.value, -b.value) ELSE ShiftLeft(a.value, b.value))

SmallIntegerNative(message, a, b) ==
  IF message \in IntegerSums THEN SmallIntegerSum(message, a, b)
  ELSE IF message \in IntegerProducts THEN SmallIntegerProduct(message, a, b)
  ELSE IF message \in IntegerBits THEN SmallIntegerBitwise(message, a, b)
  ELSE SmallIntegerComparison(message, a, b)

Floating(a, b) == isFloatOrInt(a) /\ isFloatOrInt(b)

FloatSum(message, a, b) ==
  IF ~Floating(a, b) THEN Failed
  ELSE Answer(encodeSmallFloat(IF message = "+" THEN decodeFloatOrInt(a) + decodeFloatOrInt(b)
                               ELSE decodeFloatOrInt(a) - decodeFloatOrInt(b)))

FloatProduct(message, a, b) ==
  IF ~Floating(a, b) THEN Failed
  ELSE Answer(encodeSmallFloat(IF message = "*" THEN (decodeFloatOrInt(a) * decodeFloatOrInt(b)) \div 4
                               ELSE FloatQuotient(decodeFloatOrInt(a), decodeFloatOrInt(b))))

\* returnFloat makes a float of the truth value: 1.0, or 0.0 that turns into 2.0.
FloatComparison(message, a, b) ==
  IF ~Floating(a, b) THEN Failed
  ELSE Answer(encodeSmallFloat(
         IF Compare(message, decodeFloatOrInt(a), decodeFloatOrInt(b)) THEN 4 ELSE 0))

FloatNative(message, a, b) ==
  IF message \in Orderings \cup Equalities THEN FloatComparison(message, a, b)
  ELSE IF message \in {"+", "-"} THEN FloatSum(message, a, b)
  ELSE FloatProduct(message, a, b)

SmallFloatTruncation(a) ==
  IF isFloatOrInt(a) THEN signedInt64ObjectFor(CQuotient(decodeFloatOrInt(a), 4)) ELSE Failed

SmallFloatFractionPart(a) ==
  IF isFloatOrInt(a) THEN Answer(encodeSmallFloat(CRemainder(decodeFloatOrInt(a), 4))) ELSE Failed

\* The exponent of a mantissa between 1/2 and 1.
SmallFloatExponent(a) ==
  LET quarters == Abs(decodeFloatOrInt(a)) IN
  IF ~isFloatOrInt(a) THEN Failed
  ELSE signedInt64ObjectFor(IF quarters = 0 THEN 0
                            ELSE (CHOOSE k \in 1..2 * WordBits : Pow2(k - 1) <= quarters /\ quarters < Pow2(k)) - 2)

SmallFloatTimesTwoPower(a, b) ==
  IF ~(isFloatOrInt(a) /\ isSmallInteger(b)) THEN Failed
  ELSE Answer(encodeSmallFloat(IF b.value >= 0 THEN decodeFloatOrInt(a) * Pow2(b.value)
                               ELSE decodeFloatOrInt(a) \div Pow2(-b.value)))

asFloat(a) == IF isSmallInteger(a) THEN Answer(encodeSmallFloat(4 * a.value)) ELSE Failed
=============================================================================
