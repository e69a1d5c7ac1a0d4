---------------------------- MODULE MCAssembler ----------------------------
(***************************************************************************)
(* Methods as vm/Compiler.cpp emits them: branches, loops and blocks whose *)
(* lengths are around the distances at which an instruction changes size,  *)
(* one inside of the other, and every instruction with its operands at the *)
(* boundaries of its forms.                                                *)
(***************************************************************************)
EXTENDS Assembler

I(op, a, b, to) == [op |-> op, a |-> a, b |-> b, to |-> to]

Push  == <<I("Bytecode", 77, 0, 0)>>
Pop   == <<I("Bytecode", 216, 0, 0)>>
Ret   == <<I("Bytecode", 94, 0, 0)>>
Label == <<I("Label", 0, 0, 0)>>

\* Instructions without a label that take so many bytes.
Filler(bytes) ==
  [k \in 1..(bytes \div 3) |-> I("PushTemporalInVector", k % 256, 1, 0)]
    \o [k \in 1..(bytes % 3) |-> I("PushTemporal", k, 0, 0)]

\* A piece of code behind k instructions.
Behind(k, s) == [i \in DOMAIN s |-> [s[i] EXCEPT !.to = IF @ = 0 THEN 0 ELSE @ + k]]

Then(s, t) == s \o Behind(Len(s), t)

\* generateIfElse, generateWhile, visitBlockExpression
IfElse(t, e) ==
  LET else  == Len(t) + 4
      merge == else + Len(e) + 1
  IN Then(Push \o <<I("JumpOnFalse", 0, 0, else)>>, t) \o <<I("Jump", 0, 0, merge)>> \o Label
       \o Behind(else, e) \o Label

While(c, b) ==
  LET exit == Len(c) + Len(b) + 5
  IN Then(Then(Label, c) \o <<I("JumpOnTrue", 0, 0, exit)>>, b) \o Pop
       \o <<I("Jump", 0, 0, 1)>> \o Label

Block(copied, args, b) ==
  Then(<<I("PushClosure", copied, args, Len(b) + 3)>>, b) \o Ret \o Label

Around == {0, 1, 6, 7, 8, 9}
Far    == {118, 124, 126, 127, 130}

Methods ==
  {IfElse(Filler(t), Filler(e)) : t \in Around \cup Far, e \in Around}
    \cup {While(Filler(1), Filler(b)) : b \in Around \cup Far \cup {250}}
    \cup {IfElse(Then(Filler(t), IfElse(Filler(u), Filler(6))), Push) : t \in 0..9, u \in 0..9}
    \cup {While(IfElse(Filler(t), Push), IfElse(Filler(u), Filler(6))) : t \in Around, u \in Around}
    \cup {IfElse(Filler(t), While(Push, Filler(u))) : t \in {1, 112, 121}, u \in Around}
    \cup {Block(copied, args, Filler(b)) : copied \in {0, 1}, args \in {0, 7, 8}, b \in {0, 7, 130}}
    \cup {Block(1, 1, IfElse(Filler(u), Push)) : u \in Around}
    \cup {Block(0, 0, Filler(254)), Block(0, 0, Filler(255)), IfElse(Filler(260), Push)}

\* Two instructions in a row, the first with an operand at a boundary.
Operands ==
  {<<I(op, a, 0, 0)>> \o Push : op \in OneIndex, a \in {0, 7, 8, 11, 12, 15, 16, 31, 32, 127, 255, 256}}
    \cup {<<I("PushReceiverVariable", a, 1, 0)>> \o Push : a \in {0, 16, 256}}
    \cup {<<I("Send", a, b, 0)>> \o Push : a \in {0, 15, 16, 31, 32}, b \in {0, 1, 2, 3, 7, 8}}
    \cup {<<I(op, a, b, 0)>> \o Push : op \in ThreeBytes \ {"CallPrimitive"}, a \in {0, 255}, b \in {0, 255}}
    \cup {<<I("CallPrimitive", a, 0, 0)>> \o Push : a \in {0, 255, 256, 32767}}
    \cup {<<I("SuperSend", 0, 0, 0)>>}

AllStreams == Methods \cup Operands

\* An if whose branches are long.
LongBranches == {IfElse(Filler(t), Push) : t \in {6, 120, 130}}
=============================================================================
