---------------------------- MODULE FramesProofs ----------------------------
(***************************************************************************)
(* Proofs about Frames: what the interpreter owes to every verified        *)
(* program.  Sound is the inductive invariant: while the machine runs its  *)
(* words lie in frames (Layout) and the one that it is in has the operands *)
(* that are expected there (Balanced).  A primitive ends in an answer or a *)
(* failure (Ends), a send in a frame more, a return in a frame less, and   *)
(* each action in a machine that is as it should be (Steps, Lands) or in   *)
(* that of main (Restarts).                                                *)
(***************************************************************************)
EXTENDS Frames, SequenceTheorems, WellFoundedInduction, TLAPS

(***************************************************************************)
(* The invariant.  A machine has n frames, of which F holds the frame      *)
(* pointers, the terminal frame first, and S how many scripts run up to    *)
(* each of them: every frame without bytecodes is that of a script.        *)
(***************************************************************************)
Fields == {"stack", "sp", "framePointer", "pc", "argumentCount", "isBlock", "hasContext", "method",
           "heap", "globals", "methodDict", "primitiveHasFailed", "nativeFailed", "status", "phase",
           "answer", "scripts"}

IsSequence(s) == \E R : s \in Seq(R)

\* A word that points at an object points at one of the heap.
Known(m, oop) == oop.tag = "pointer" => oop.value \in DOMAIN m.heap

\* A method that stores into its receiver has none of a reserved class.
Fits(m, method, receiver) ==
  Stores(method) /\ receiver.tag = "pointer" => m.heap[receiver.value].class \notin Reserved

\* A context that a closure may have: its method and receiver are the fourth and
\* the sixth variable.
RunsOn(m, context, pc, d) ==
  /\ context.class = "Context" /\ context.slots[4] \in Methods
  /\ Reaches(context.slots[4], pc, d) /\ Fits(m, context.slots[4], context.slots[6])

ObjectOK(m, object) ==
  /\ DOMAIN object = {"class", "slots", "elements"}
  /\ \A i \in DOMAIN object.slots : Known(m, object.slots[i])
  /\ IsSequence(object.elements)
  /\ \A i \in DOMAIN object.elements : Known(m, object.elements[i])
  /\ object.class = "Context" => DOMAIN object.slots = 1..7
  /\ object.class = "BlockClosure" =>
       /\ DOMAIN object.slots = 1..3
       /\ object.slots[1].tag = "pointer" =>
            RunsOn(m, m.heap[object.slots[1].value], object.slots[2].value, Len(object.elements))

HeapOK(m) == IsSequence(m.heap) /\ \A i \in DOMAIN m.heap : ObjectOK(m, m.heap[i])

StackOK(m) == DOMAIN m.stack = 1..MaxStack /\ \A i \in 1..MaxStack : Known(m, m.stack[i])

GlobalsOK(m) == DOMAIN m.globals = GlobalNames /\ \A g \in GlobalNames : Known(m, m.globals[g])

ScriptOK(m, script) ==
  /\ DOMAIN script = {"ops", "ip", "self"}
  /\ VerifiedScript(script.ops) /\ script.ip \in 1..Len(script.ops) + 1 /\ Known(m, script.self)
ScriptsOK(m) == IsSequence(m.scripts) /\ \A s \in DOMAIN m.scripts : ScriptOK(m, m.scripts[s])

\* Methods are found under their selector in the class they are compiled for, and
\* the native ones of scripts in the class ScriptContext only.
EntryOK(class, selector, method) ==
  IF method.tag = "compiled"
  THEN method \in Methods /\ method.name = class /\ MethodOf(method).selector = selector
  ELSE method.tag # "pointer" /\ (method.name \in ScriptFunctions => class = "ScriptContext")
MethodDictOK(m) == \A class \in DOMAIN m.methodDict : \A selector \in DOMAIN m.methodDict[class] :
                      EntryOK(class, selector, m.methodDict[class][selector])

DataOK(m) == /\ DOMAIN m = Fields /\ m.sp \in Nat
             /\ StackOK(m) /\ HeapOK(m) /\ GlobalsOK(m) /\ ScriptsOK(m) /\ MethodDictOK(m)

\* The frame at f: its method, and its context if it has one.
MethodAt(m, f) == m.stack[f + 1]
MetaAt(m, f)   == m.stack[f + 2]
IsCompiled(m, f) == MethodAt(m, f).tag = "compiled"
Base(m, f) == f - 3 - ArgumentsIn(MetaAt(m, f))

\* The context i is that of the frame at f.
Married(m, i, f) ==
  /\ i \in DOMAIN m.heap /\ m.heap[i].class = "Context" /\ m.heap[i].slots[1] = Raw(f + 1)
  /\ m.heap[i].slots[4] = MethodAt(m, f) /\ m.heap[i].slots[6] = m.stack[f + ReceiverOffset]

FrameOK(m, f) ==
  /\ f + ReceiverOffset <= MaxStack /\ MetaAt(m, f).value \in Nat
  /\ IF IsCompiled(m, f) THEN MethodAt(m, f) \in Methods /\ Fits(m, MethodAt(m, f), m.stack[f + ReceiverOffset])
     ELSE ~HasContextIn(MetaAt(m, f))
  /\ HasContextIn(MetaAt(m, f)) => /\ m.stack[f + 3] = Pointer(m.stack[f + 3].value)
                                   /\ Married(m, m.stack[f + 3].value, f)

\* The operands that a script has on the stack: a file that another one runs
\* begins with the value of the message that runs it.
ScriptOperands(m, f, s) == (IF f = 3 THEN 0 ELSE 1) + ScriptDepth(m.scripts[s])

\* The frame at g returns to the one at f, that of the script s if it is that of
\* a script, with the operands that it expects.
Resumes(m, f, g, s) ==
  LET pc == m.stack[g - 1]
      d == (Base(m, g) + 1) - (f + ReceiverOffset) IN
  /\ m.stack[g] = Raw(f) /\ pc.tag = "raw"
  /\ IF IsCompiled(m, f) THEN pc.value # 0 /\ Reaches(MethodAt(m, f), pc.value, d)
     ELSE pc.value = 0 /\ s \in DOMAIN m.scripts /\ d = ScriptOperands(m, f, s)

FramesOK(m, n, F, S) ==
  /\ n \in Nat \ {0} /\ F \in [1..n -> Nat] /\ S \in [1..n -> Nat]
  /\ F[1] = 3 /\ m.stack[3] = Raw(0) /\ ~IsCompiled(m, 3) /\ S[1] = 1
  /\ ArgumentsIn(MetaAt(m, 3)) = 0
  /\ \A k \in 1..n : FrameOK(m, F[k])
  /\ \A k \in 2..n : /\ Resumes(m, F[k - 1], F[k], S[k - 1])
                     /\ S[k] = S[k - 1] + IF IsCompiled(m, F[k]) THEN 0 ELSE 1
  /\ \A k \in 1..n : \A j \in 1..k - 1 : /\ F[j] + ReceiverOffset <= Base(m, F[k])
                                         /\ S[j] <= S[k]
                                         /\ ~IsCompiled(m, F[k]) => S[j] < S[k]

\* A context that points at a frame is that of the frame.
ContextsOK(m, n, F) ==
  \A i \in DOMAIN m.heap : m.heap[i].class = "Context" /\ m.heap[i].slots[1].tag = "raw" =>
     \E k \in 1..n : /\ m.heap[i].slots[1].value = F[k] + 1 /\ m.stack[F[k] + 3] = Pointer(i)
                     /\ HasContextIn(MetaAt(m, F[k]))

\* The registers are those of the frame at f.
Current(m, f) ==
  /\ m.framePointer = f /\ f + ReceiverOffset <= m.sp
  /\ m.argumentCount = ArgumentsIn(MetaAt(m, f)) /\ m.isBlock = BlockIn(MetaAt(m, f))
  /\ m.method = MethodAt(m, f)

Layout(m, n, F, S) == DataOK(m) /\ FramesOK(m, n, F, S) /\ ContextsOK(m, n, F) /\ Current(m, F[n])

\* Where the machine goes on, in a frame with the operands that it expects there.
Balanced(m, s) ==
  IF m.pc = 0 THEN /\ ~IsCompiled(m, m.framePointer) /\ s = Len(m.scripts)
                   /\ m.sp = m.framePointer + ReceiverOffset + ScriptOperands(m, m.framePointer, s)
  ELSE /\ IsCompiled(m, m.framePointer)
       /\ m.pc \in DOMAIN DepthsOf(m.method) /\ CodeOf(m.method)[m.pc].op # "Label"
       /\ m.sp = m.framePointer + ReceiverOffset + DepthsOf(m.method)[m.pc]
       /\ s = Len(m.scripts)

Settled(m) == \E n \in Nat : \E F \in [1..n -> Nat], S \in [1..n -> Nat] :
                 Layout(m, n, F, S) /\ Balanced(m, S[n])

----------------------------------------------------------------------------
(***************************************************************************)
(* Numbers.                                                                *)
(***************************************************************************)
\* The numbers below another one precede it in their well-founded order.
LEMMA Precedes == \A x, y \in Nat : x < y => <<x, y>> \in OpToRel(<, Nat)
BY DEF OpToRel

\* Every set of natural numbers has a least element.
LEMMA LeastNatural ==
  ASSUME NEW S \in SUBSET Nat, S # {}
  PROVE  Min(S) \in S /\ \A y \in S : Min(S) <= y
<1>1. PICK x \in S : \A y \in S : ~(<<y, x>> \in OpToRel(<, Nat))
  BY NatLessThanWellFounded, WFMin, Zenon
<1>2. \A y \in S : ~(y < x)
  BY <1>1, Precedes, Zenon
<1>3. \A y \in S : x <= y
  BY <1>2
<1> QED BY <1>3, Zenon DEF Min

\* Induction, for a set of natural numbers.
LEMMA SetInduction ==
  ASSUME NEW S \in SUBSET Nat, 0 \in S, \A n \in S : n + 1 \in S
  PROVE  S = Nat
<1>1. SUFFICES ASSUME Nat \ S # {} PROVE FALSE
  BY Zenon
<1> DEFINE x == Min(Nat \ S)
<1>2. x \in Nat \ S /\ \A y \in Nat \ S : x <= y
  BY <1>1, LeastNatural
<1>3. x - 1 \in Nat
  BY <1>2
<1>4. x - 1 \in S
  BY <1>2, <1>3
<1>5. (x - 1) + 1 = x
  BY <1>2
<1> QED BY <1>2, <1>4, <1>5

\* What is put into the metadata of a frame is found there.
LEMMA Metadata ==
  ASSUME NEW a \in 0..255, NEW block \in BOOLEAN, NEW context \in BOOLEAN
  PROVE  LET meta == encodeFrameMetaData(context, block, a) IN
         /\ ArgumentsIn(meta) = a /\ BlockIn(meta) = block /\ HasContextIn(meta) = context
         /\ meta.value \in Nat /\ meta.tag = "raw"
BY DEF encodeFrameMetaData, ArgumentsIn, BlockIn, HasContextIn, Raw, Word

\* Whatever number the metadata is, the argument count in it fits a byte.
LEMMA MetadataRange ==
  ASSUME NEW meta, meta.value \in Nat
  PROVE  ArgumentsIn(meta) \in 0..255 /\ BlockIn(meta) \in BOOLEAN /\ HasContextIn(meta) \in BOOLEAN
BY DEF ArgumentsIn, BlockIn, HasContextIn

(***************************************************************************)
(* Methods and scripts.                                                    *)
(***************************************************************************)
\* The opcode that is fetched is that of an instruction, not a label.
LEMMA FirstFromIsCode ==
  ASSUME Verified, NEW method \in Methods, NEW pc, NEW d, Reaches(method, pc, d)
  PROVE  /\ FirstFrom(CodeOf(method), pc) \in DOMAIN DepthsOf(method)
         /\ FirstFrom(CodeOf(method), pc) \in Nat \ {0}
         /\ CodeOf(method)[FirstFrom(CodeOf(method), pc)].op # "Label"
         /\ DepthsOf(method)[FirstFrom(CodeOf(method), pc)] = d /\ d \in Nat
<1> DEFINE code == CodeOf(method)
           rest == {i \in pc..Len(code) : code[i].op # "Label"}
           first == FirstFrom(code, pc)
<1>1. VerifiedMethod(method)
  BY DEF Verified
<1>2. /\ Len(code) \in Nat /\ DOMAIN code = 1..Len(code) /\ DOMAIN DepthsOf(method) \subseteq 1..Len(code)
      /\ \A i \in DOMAIN DepthsOf(method) : DepthsOf(method)[i] \in Nat
  BY <1>1 DEF VerifiedMethod
<1>3. pc \in Nat \ {0} /\ first \in DOMAIN DepthsOf(method) /\ DepthsOf(method)[first] = d
  BY DEF Reaches
<1>4. first = IF rest = {} THEN Len(code) + 1 ELSE Min(rest)
  BY Zenon DEF FirstFrom
<1>5. rest # {}
  BY <1>2, <1>3, <1>4
<1>6. rest \in SUBSET Nat
  BY <1>2, <1>3
<1>7. Min(rest) \in rest
  BY <1>5, <1>6, LeastNatural, Zenon
<1>8. first \in rest
  BY <1>4, <1>5, <1>7, Zenon
<1>9. code[first].op # "Label"
  BY <1>8
<1> HIDE DEF code, first
<1> QED BY <1>2, <1>3, <1>9 DEF code, first

\* What is verified of the instruction that begins.
LEMMA InstructionIsVerified ==
  ASSUME Verified, NEW method \in Methods, NEW i \in DOMAIN DepthsOf(method), CodeOf(method)[i].op # "Label"
  PROVE  /\ VerifiedInstruction(method, i)
         /\ i \in Nat \ {0} /\ i \in DOMAIN CodeOf(method) /\ i <= Len(CodeOf(method))
         /\ DepthsOf(method)[i] \in Nat
BY DEF Verified, VerifiedMethod

\* The methods of a program are compiled ones, named by their file and
\* class.
LEMMA MethodsAreCompiled ==
  ASSUME NEW method \in Methods
  PROVE  /\ method.tag = "compiled" /\ method = CompiledMethod(method.value, method.name)
         /\ ~MethodOf(method).failed
BY DEF Methods, Programmed, CompiledMethod, Word

\* The depths of a script exist: for each number of operations there is a
\* function, and that for all of them is the one that ScriptDepths defines.
LEMMA ScriptDepthStep ==
  ASSUME NEW ops, Len(ops) \in Nat
  PROVE  /\ ScriptDepths(ops)[1] = 0
         /\ \A ip \in 1..Len(ops) : ScriptDepths(ops)[ip + 1] = ScriptDepths(ops)[ip] + OpGrowth(ops[ip])
<1> DEFINE Value(f, ip) == IF ip = 1 THEN 0 ELSE f[ip - 1] + OpGrowth(ops[ip - 1])
           Good(f, n) == f = [ip \in 1..n + 1 |-> Value(f, ip)]
           S == {n \in Nat : \E f : Good(f, n)}
<1>1. 0 \in S
  <2> DEFINE f == [ip \in 1..0 + 1 |-> 0]
  <2>1. Good(f, 0)
    OBVIOUS
  <2> QED BY <2>1
<1>2. ASSUME NEW n \in S PROVE n + 1 \in S
  <2>1. PICK f : Good(f, n)
    OBVIOUS
  <2> DEFINE g == [ip \in 1..(n + 1) + 1 |-> IF ip = n + 2 THEN Value(f, n + 2) ELSE f[ip]]
  <2>2. Good(g, n + 1)
    <3>1. \A ip \in 1..n + 1 : f[ip] = Value(f, ip)
      BY <2>1
    <3>2. \A ip \in 1..(n + 1) + 1 : g[ip] = Value(g, ip)
      BY <3>1
    <3> QED BY <3>2
  <2> HIDE DEF Good
  <2> QED BY <2>2
<1>3. S = Nat
  <2> HIDE DEF S
  <2>1. S \in SUBSET Nat
    BY DEF S
  <2> QED BY <1>1, <1>2, <2>1, SetInduction
<1>4. PICK f : Good(f, Len(ops))
  BY <1>3
<1>5. ScriptDepths(ops) = CHOOSE g : Good(g, Len(ops))
  BY Zenon DEF ScriptDepths
<1>6. Good(ScriptDepths(ops), Len(ops))
  <2> HIDE DEF Good
  <2> QED BY <1>4, <1>5, Zenon
<1>7. \A ip \in 1..Len(ops) + 1 : ScriptDepths(ops)[ip] = Value(ScriptDepths(ops), ip)
  BY <1>6
<1> QED BY <1>7

(***************************************************************************)
(* Sequences.                                                              *)
(***************************************************************************)
\* A sequence, of whatever elements, is a function of the numbers up to its
\* length.
LEMMA SequenceDomain ==
  ASSUME NEW s, IsSequence(s)
  PROVE  Len(s) \in Nat /\ DOMAIN s = 1..Len(s)
BY DEF IsSequence

\* A sequence with one more element.
LEMMA SequenceAppend ==
  ASSUME NEW s, IsSequence(s), NEW x
  PROVE  LET t == Append(s, x) IN
         /\ IsSequence(t) /\ Len(t) = Len(s) + 1 /\ t[Len(s) + 1] = x
         /\ \A i \in 1..Len(s) : t[i] = s[i]
<1>1. PICK R : s \in Seq(R)
  BY DEF IsSequence
<1>2. s \in Seq(R \cup {x})
  BY <1>1
<1>3. Append(s, x) \in Seq(R \cup {x})
  BY <1>2
<1>4. IsSequence(Append(s, x))
  BY <1>3 DEF IsSequence
<1> QED BY <1>2, <1>4

\* A sequence with another element in one place.
LEMMA SequenceExcept ==
  ASSUME NEW s, IsSequence(s), NEW x, NEW i \in 1..Len(s)
  PROVE  /\ IsSequence([s EXCEPT ![i] = x]) /\ Len([s EXCEPT ![i] = x]) = Len(s)
         /\ \A j \in 1..Len(s) : [s EXCEPT ![i] = x][j] = IF j = i THEN x ELSE s[j]
<1>1. PICK R : s \in Seq(R)
  BY DEF IsSequence
<1>2. s \in Seq(R \cup {x})
  BY <1>1
<1> QED BY <1>2, ExceptSeq DEF IsSequence

\* A sequence without its last element.
LEMMA SequenceFront ==
  ASSUME NEW s, IsSequence(s), Len(s) > 0
  PROVE  /\ IsSequence(Front(s)) /\ Len(Front(s)) = Len(s) - 1
         /\ \A i \in 1..Len(s) - 1 : Front(s)[i] = s[i]
         /\ Last(s) = s[Len(s)]
<1>1. PICK R : s \in Seq(R)
  BY DEF IsSequence
<1>2. Len(s) \in Nat /\ \A i \in 1..Len(s) - 1 : s[i] \in R
  BY <1>1
<1>3. /\ SubSeq(s, 1, Len(s) - 1) \in Seq(R)
      /\ Len(SubSeq(s, 1, Len(s) - 1)) = Len(s) - 1
      /\ \A i \in 1..Len(s) - 1 : SubSeq(s, 1, Len(s) - 1)[i] = s[i]
  <2> DEFINE n == Len(s) - 1
  <2>1. n \in Int /\ 1 \in Int /\ \A i \in 1..n : s[i] \in R
    BY <1>2
  <2>2. /\ SubSeq(s, 1, n) \in Seq(R) /\ Len(SubSeq(s, 1, n)) = IF 1 <= n THEN n - 1 + 1 ELSE 0
        /\ \A i \in 1..n - 1 + 1 : SubSeq(s, 1, n)[i] = s[1 + i - 1]
    <3> HIDE DEF n
    <3> QED BY <2>1, SubSeqProperties
  <2>3. ASSUME NEW i \in 1..n PROVE SubSeq(s, 1, n)[i] = s[i]
    <3>1. i \in 1..n - 1 + 1 /\ 1 + i - 1 = i
      BY <2>1
    <3> QED BY <2>2, <3>1
  <2>4. Len(SubSeq(s, 1, n)) = n
    <3>1. n \in Nat
      BY <1>2
    <3> HIDE DEF n
    <3> QED BY <2>2, <3>1
  <2> QED BY <2>2, <2>3, <2>4, Zenon
<1> QED BY <1>3 DEF IsSequence, Front, Last

\* A function of the numbers up to n is a sequence.
LEMMA SequenceFunction ==
  ASSUME NEW n \in Nat, NEW f, f = [i \in 1..n |-> f[i]]
  PROVE  IsSequence(f) /\ Len(f) = n
<1>1. f \in [1..n -> {f[i] : i \in 1..n}]
  OBVIOUS
<1>2. f \in Seq({f[i] : i \in 1..n})
  BY <1>1
<1>3. DOMAIN f = 1..n /\ DOMAIN f = 1..Len(f) /\ Len(f) \in Nat
  BY <1>1, <1>2
<1>4. Len(f) = n
  BY <1>3
<1> QED BY <1>2, <1>4 DEF IsSequence

\* The empty sequence.
LEMMA EmptySequence == IsSequence(<< >>) /\ Len(<< >>) = 0 /\ DOMAIN << >> = {}
<1>1. << >> \in Seq({})
  OBVIOUS
<1> QED BY <1>1 DEF IsSequence

(***************************************************************************)
(* The fields of a machine that the operators leave alone.                 *)
(***************************************************************************)
SameBut(m, p, changed) == DOMAIN p = Fields /\ \A f \in Fields \ changed : p[f] = m[f]

\* Push writes the word above the top of the stack.
LEMMA PushFields ==
  ASSUME NEW m, DOMAIN m = Fields, NEW oop
  PROVE  LET p == Push(m, oop) IN
         /\ SameBut(m, p, {"stack", "sp"})
         /\ p.stack = [m.stack EXCEPT ![m.sp + 1] = oop] /\ p.sp = m.sp + 1
BY DEF Push, Fields, SameBut

\* PushAll writes the words above the top of the stack, in their order.
LEMMA PushAllFields ==
  ASSUME NEW m, DOMAIN m = Fields, NEW oops
  PROVE  LET p == PushAll(m, oops) IN
         /\ SameBut(m, p, {"stack", "sp"})
         /\ p.stack = [i \in DOMAIN m.stack |-> IF i \in m.sp + 1..m.sp + Len(oops) THEN oops[i - m.sp] ELSE m.stack[i]]
         /\ p.sp = m.sp + Len(oops)
BY DEF PushAll, Fields, SameBut

\* popMultiplesOops only moves the top of the stack.
LEMMA PopFields ==
  ASSUME NEW m, DOMAIN m = Fields, NEW n
  PROVE  LET p == popMultiplesOops(m, n) IN SameBut(m, p, {"sp"}) /\ p.sp = m.sp - n
BY DEF popMultiplesOops, Fields, SameBut

\* Stop only changes the status.
LEMMA StopFields ==
  ASSUME NEW m, DOMAIN m = Fields, NEW status
  PROVE  SameBut(m, Stop(m, status), {"status"}) /\ Stop(m, status).status = status
BY DEF Stop, Fields, SameBut

\* Allocate only adds an object to the heap.
LEMMA AllocateFields ==
  ASSUME NEW m, DOMAIN m = Fields, NEW object
  PROVE  SameBut(m, Allocate(m, object), {"heap"}) /\ Allocate(m, object).heap = Append(m.heap, object)
BY DEF Allocate, Fields, SameBut

\* setTemporary only writes the word of the temporary.
LEMMA SetTemporaryFields ==
  ASSUME NEW m, DOMAIN m = Fields, NEW i, NEW oop
  PROVE  LET p == setTemporary(m, i, oop) IN
         SameBut(m, p, {"stack"}) /\ p.stack = [m.stack EXCEPT ![TemporaryAt(m, i)] = oop]
BY DEF setTemporary, Fields, SameBut

\* FetchAt only changes the pc and the status.
LEMMA FetchAtFields ==
  ASSUME NEW m, DOMAIN m = Fields, NEW pc
  PROVE  SameBut(m, FetchAt(m, pc), {"pc", "status"})
BY DEF FetchAt, Stop, Fields, SameBut

\* When the machine runs on, FetchAt has found the next instruction of the
\* method, or there is no method to go on with.
LEMMA FetchAtRunning ==
  ASSUME NEW m, DOMAIN m = Fields, NEW pc, m.status = "running", FetchAt(m, pc).status = "running"
  PROVE  IF pc = 0 THEN FetchAt(m, pc).pc = 0
         ELSE m.method.tag = "compiled" /\ FetchAt(m, pc).pc = FirstFrom(CodeOf(m.method), pc)
BY DEF FetchAt, Stop, Fields

\* fetchFrameData reads the registers from the words of the frame.
LEMMA FetchFrameFields ==
  ASSUME NEW m, DOMAIN m = Fields, m.framePointer # 0
  PROVE  LET p == fetchFrameData(m)
             meta == m.stack[m.framePointer + 2] IN
         /\ SameBut(m, p, {"argumentCount", "isBlock", "hasContext", "method"})
         /\ p.argumentCount = ArgumentsIn(meta) /\ p.isBlock = BlockIn(meta)
         /\ p.method = m.stack[m.framePointer + 1]
BY DEF fetchFrameData, Fields, SameBut

(***************************************************************************)
(* A heap that grows: objects keep their classes, contexts their methods   *)
(* and receivers.                                                          *)
(***************************************************************************)
HeapGrows(m, p) ==
  /\ DOMAIN m.heap \subseteq DOMAIN p.heap
  /\ \A i \in DOMAIN m.heap :
       /\ p.heap[i].class = m.heap[i].class
       /\ m.heap[i].class = "Context" => p.heap[i].slots[4] = m.heap[i].slots[4]
                                         /\ p.heap[i].slots[6] = m.heap[i].slots[6]

\* A word that points at an object of the heap points at one when the heap
\* grows.
LEMMA KnownGrows ==
  ASSUME NEW m, NEW p, HeapGrows(m, p), NEW oop, Known(m, oop)
  PROVE  Known(p, oop)
BY DEF HeapGrows, Known

\* A method that may run on a receiver still may when the heap grows.
LEMMA FitsGrows ==
  ASSUME NEW m, NEW p, HeapGrows(m, p), NEW method, NEW oop, Known(m, oop), Fits(m, method, oop)
  PROVE  Fits(p, method, oop)
BY DEF HeapGrows, Known, Fits

\* An object keeps its form when the heap grows.
LEMMA ObjectGrows ==
  ASSUME NEW m, NEW p, HeapOK(m), HeapGrows(m, p), NEW object, ObjectOK(m, object)
  PROVE  ObjectOK(p, object)
<1>1. ASSUME object.class = "BlockClosure", object.slots[1].tag = "pointer"
      PROVE  RunsOn(p, p.heap[object.slots[1].value], object.slots[2].value, Len(object.elements))
  <2> DEFINE i == object.slots[1].value
             pc == object.slots[2].value
             d == Len(object.elements)
  <2>1. DOMAIN object.slots = 1..3 /\ RunsOn(m, m.heap[i], pc, d)
    BY <1>1 DEF ObjectOK
  <2>2. i \in DOMAIN m.heap
    BY <1>1, <2>1 DEF ObjectOK, Known
  <2>3. m.heap[i].class = "Context" /\ ObjectOK(m, m.heap[i])
    BY <2>1, <2>2 DEF RunsOn, HeapOK
  <2>4. Known(m, m.heap[i].slots[6])
    BY <2>3 DEF ObjectOK
  <2>5. Fits(p, m.heap[i].slots[4], m.heap[i].slots[6])
    BY <2>1, <2>4, FitsGrows DEF RunsOn
  <2>6. /\ p.heap[i].class = "Context" /\ p.heap[i].slots[4] = m.heap[i].slots[4]
        /\ p.heap[i].slots[6] = m.heap[i].slots[6]
    BY <2>2, <2>3 DEF HeapGrows
  <2> QED BY <2>1, <2>5, <2>6 DEF RunsOn
<1>2. /\ \A i \in DOMAIN object.slots : Known(p, object.slots[i])
      /\ \A i \in DOMAIN object.elements : Known(p, object.elements[i])
  BY KnownGrows DEF ObjectOK
<1> QED BY <1>1, <1>2 DEF ObjectOK

\* A heap with one more object.
LEMMA HeapAppend ==
  ASSUME NEW m, NEW p, HeapOK(m), NEW object, ObjectOK(m, object), p.heap = Append(m.heap, object)
  PROVE  /\ HeapGrows(m, p) /\ HeapOK(p)
         /\ Len(p.heap) \in DOMAIN p.heap /\ p.heap[Len(p.heap)] = object
         /\ \A i \in DOMAIN m.heap : p.heap[i] = m.heap[i]
         /\ DOMAIN p.heap = DOMAIN m.heap \cup {Len(p.heap)}
<1>1. /\ IsSequence(p.heap) /\ Len(p.heap) = Len(m.heap) + 1 /\ p.heap[Len(m.heap) + 1] = object
      /\ \A i \in 1..Len(m.heap) : p.heap[i] = m.heap[i]
  BY SequenceAppend DEF HeapOK
<1>2. Len(m.heap) \in Nat /\ DOMAIN m.heap = 1..Len(m.heap) /\ DOMAIN p.heap = 1..Len(p.heap)
  BY <1>1, SequenceDomain DEF HeapOK
<1>3. \A i \in DOMAIN m.heap : p.heap[i] = m.heap[i]
  BY <1>1, <1>2
<1>4. HeapGrows(m, p)
  BY <1>1, <1>2, <1>3 DEF HeapGrows
<1>5. \A i \in DOMAIN p.heap : ObjectOK(m, p.heap[i])
  BY <1>1, <1>2 DEF HeapOK
<1>6. HeapOK(p)
  BY <1>1, <1>4, <1>5, ObjectGrows DEF HeapOK
<1> QED BY <1>1, <1>2, <1>3, <1>4, <1>6

\* A heap with another object in one place: of the same class and, for a
\* context, with the same method and receiver.
LEMMA HeapWrite ==
  ASSUME NEW m, NEW p, HeapOK(m), NEW v \in DOMAIN m.heap, NEW object, ObjectOK(m, object),
         object.class = m.heap[v].class,
         object.class = "Context" => object.slots[4] = m.heap[v].slots[4] /\ object.slots[6] = m.heap[v].slots[6],
         p.heap = [m.heap EXCEPT ![v] = object]
  PROVE  /\ HeapGrows(m, p) /\ HeapOK(p) /\ DOMAIN p.heap = DOMAIN m.heap
         /\ \A i \in DOMAIN m.heap : p.heap[i] = IF i = v THEN object ELSE m.heap[i]
<1>1. Len(m.heap) \in Nat /\ DOMAIN m.heap = 1..Len(m.heap)
  BY SequenceDomain DEF HeapOK
<1>2. IsSequence(p.heap) /\ DOMAIN p.heap = DOMAIN m.heap
  <2>1. IsSequence(m.heap) /\ v \in 1..Len(m.heap)
    BY <1>1 DEF HeapOK
  <2>2. IsSequence([m.heap EXCEPT ![v] = object])
    BY <2>1, SequenceExcept, Zenon
  <2> QED BY <2>2, Zenon
<1>3. \A i \in DOMAIN m.heap : p.heap[i] = IF i = v THEN object ELSE m.heap[i]
  OBVIOUS
<1>4. HeapGrows(m, p)
  BY <1>2, <1>3 DEF HeapGrows
<1>5. \A i \in DOMAIN p.heap : ObjectOK(m, p.heap[i])
  BY <1>2, <1>3 DEF HeapOK
<1> QED BY <1>2, <1>3, <1>4, <1>5, ObjectGrows DEF HeapOK

(***************************************************************************)
(* Frames that stay where they are.                                        *)
(***************************************************************************)
\* Where the frames are: none reaches into the words of another one.
LEMMA FramePlaces ==
  ASSUME NEW m, NEW n, NEW F, NEW S, FramesOK(m, n, F, S)
  PROVE  /\ n \in Nat \ {0} /\ F[n] \in Nat
         /\ \A k \in 1..n : /\ F[k] \in Nat /\ 3 <= F[k] /\ F[k] + 4 <= MaxStack
                            /\ ArgumentsIn(MetaAt(m, F[k])) \in 0..255
                            /\ Base(m, F[k]) = F[k] - 3 - ArgumentsIn(MetaAt(m, F[k]))
         /\ \A k \in 2..n : 7 <= Base(m, F[k])
         /\ \A k \in 1..n : \A j \in 1..k - 1 : F[j] + 4 <= Base(m, F[k]) /\ Base(m, F[k]) <= F[k] - 3
<1>1. n \in Nat \ {0} /\ F \in [1..n -> Nat] /\ F[1] = 3
  BY DEF FramesOK
<1>2. \A k \in 1..n : ArgumentsIn(MetaAt(m, F[k])) \in 0..255 /\ F[k] + 4 <= MaxStack
  BY MetadataRange DEF FramesOK, FrameOK, ReceiverOffset
<1>3. \A k \in 1..n : \A j \in 1..k - 1 : F[j] + 4 <= Base(m, F[k]) /\ Base(m, F[k]) <= F[k] - 3
  <2> TAKE k \in 1..n
  <2> TAKE j \in 1..k - 1
  <2>1. F[j] + 4 <= Base(m, F[k])
    BY DEF FramesOK, ReceiverOffset
  <2>2. F[k] \in Nat /\ ArgumentsIn(MetaAt(m, F[k])) \in 0..255
    BY <1>1, <1>2
  <2>3. Base(m, F[k]) <= F[k] - 3
    BY <2>2 DEF Base
  <2> QED BY <2>1, <2>3
<1>4. \A k \in 2..n : 7 <= Base(m, F[k])
  BY <1>1, <1>3
<1>5. \A k \in 1..n : 3 <= F[k]
  <2> TAKE k \in 1..n
  <2>1. CASE k = 1
    BY <2>1, <1>1
  <2>2. CASE k # 1
    <3>1. k \in 2..n /\ 1 \in 1..k - 1
      BY <1>1, <2>2
    <3>2. 7 <= Base(m, F[k]) /\ Base(m, F[k]) <= F[k] - 3
      BY <3>1, <1>3, <1>4
    <3>3. F[k] \in Nat /\ ArgumentsIn(MetaAt(m, F[k])) \in 0..255
      BY <1>1, <1>2
    <3>4. Base(m, F[k]) \in Int
      BY <3>3 DEF Base
    <3> QED BY <3>2, <3>3, <3>4
  <2> QED BY <2>1, <2>2
<1> QED BY <1>1, <1>2, <1>3, <1>4, <1>5 DEF Base

\* What the frames below know of the frame at f.
SameLinks(m, p, f) ==
  /\ p.stack[f - 1] = m.stack[f - 1] /\ p.stack[f] = m.stack[f] /\ MethodAt(p, f) = MethodAt(m, f)
  /\ ArgumentsIn(MetaAt(p, f)) = ArgumentsIn(MetaAt(m, f))

\* The frames are those of another machine when their links and the scripts
\* that they resume are.
LEMMA FramesSame ==
  ASSUME NEW m, NEW p, NEW n, NEW F, NEW S, FramesOK(m, n, F, S),
         \A k \in 1..n : SameLinks(m, p, F[k]) /\ FrameOK(p, F[k]),
         \A k \in 1..n - 1 : S[k] \in DOMAIN m.scripts /\ ~IsCompiled(m, F[k])
                             => S[k] \in DOMAIN p.scripts /\ p.scripts[S[k]] = m.scripts[S[k]]
  PROVE  FramesOK(p, n, F, S)
<1>1. n \in Nat \ {0} /\ F \in [1..n -> Nat] /\ S \in [1..n -> Nat] /\ F[1] = 3 /\ S[1] = 1
  BY DEF FramesOK
<1>2. \A k \in 1..n : IsCompiled(p, F[k]) = IsCompiled(m, F[k]) /\ Base(p, F[k]) = Base(m, F[k])
  BY DEF SameLinks, IsCompiled, Base
<1>3. p.stack[3] = Raw(0) /\ ~IsCompiled(p, 3) /\ ArgumentsIn(MetaAt(p, 3)) = 0
  <2>1. 1 \in 1..n /\ F[1] = 3 /\ m.stack[3] = Raw(0) /\ ~IsCompiled(m, 3) /\ ArgumentsIn(MetaAt(m, 3)) = 0
    BY <1>1 DEF FramesOK
  <2> QED BY <2>1, <1>2 DEF SameLinks
<1>4. ASSUME NEW k \in 2..n
      PROVE  /\ Resumes(p, F[k - 1], F[k], S[k - 1])
             /\ S[k] = S[k - 1] + IF IsCompiled(p, F[k]) THEN 0 ELSE 1
  <2>1. k \in 1..n /\ k - 1 \in 1..n - 1 /\ k - 1 \in 1..n
    BY <1>1
  <2>2. Resumes(m, F[k - 1], F[k], S[k - 1]) /\ S[k] = S[k - 1] + IF IsCompiled(m, F[k]) THEN 0 ELSE 1
    BY DEF FramesOK
  <2> DEFINE f == F[k - 1]
             g == F[k]
             s == S[k - 1]
  <2>3. /\ SameLinks(m, p, f) /\ SameLinks(m, p, g) /\ IsCompiled(p, f) = IsCompiled(m, f)
        /\ Base(p, g) = Base(m, g)
        /\ s \in DOMAIN m.scripts /\ ~IsCompiled(m, f) => s \in DOMAIN p.scripts /\ p.scripts[s] = m.scripts[s]
    BY <2>1, <1>2
  <2> HIDE DEF f, g, s
  <2>4. Resumes(m, f, g, s)
    BY <2>2 DEF f, g, s
  <2>5. Resumes(p, f, g, s)
    BY <2>3, <2>4 DEF Resumes, SameLinks, ScriptOperands
  <2> QED BY <2>1, <2>2, <2>5, <1>2 DEF f, g, s
<1>5. ASSUME NEW k \in 1..n, NEW j \in 1..k - 1
      PROVE  /\ F[j] + ReceiverOffset <= Base(p, F[k]) /\ S[j] <= S[k]
             /\ ~IsCompiled(p, F[k]) => S[j] < S[k]
  <2>1. /\ F[j] + ReceiverOffset <= Base(m, F[k]) /\ S[j] <= S[k]
        /\ ~IsCompiled(m, F[k]) => S[j] < S[k]
    BY DEF FramesOK
  <2> QED BY <2>1, <1>2
<1> QED BY <1>1, <1>3, <1>4, <1>5 DEF FramesOK

\* The six words of a frame.
SameFrame(m, p, f) ==
  /\ p.stack[f - 1] = m.stack[f - 1] /\ p.stack[f] = m.stack[f] /\ p.stack[f + 1] = m.stack[f + 1]
  /\ p.stack[f + 2] = m.stack[f + 2] /\ p.stack[f + 3] = m.stack[f + 3] /\ p.stack[f + 4] = m.stack[f + 4]

\* The links of a frame are among its words.
LEMMA SameFrameLinks ==
  ASSUME NEW m, NEW p, NEW f, SameFrame(m, p, f)
  PROVE  SameLinks(m, p, f) /\ MetaAt(p, f) = MetaAt(m, f)
BY DEF SameFrame, SameLinks, MethodAt, MetaAt

\* A frame with the same words stays one when the heap grows and its context
\* is left alone.
LEMMA FrameSame ==
  ASSUME NEW m, NEW p, NEW f, FrameOK(m, f), SameFrame(m, p, f), HeapGrows(m, p),
         Known(m, m.stack[f + 4]),
         \A i : Married(m, i, f) => p.heap[i] = m.heap[i]
  PROVE  FrameOK(p, f)
<1>1. MethodAt(p, f) = MethodAt(m, f) /\ MetaAt(p, f) = MetaAt(m, f) /\ p.stack[f + 3] = m.stack[f + 3]
      /\ p.stack[f + ReceiverOffset] = m.stack[f + ReceiverOffset] /\ IsCompiled(p, f) = IsCompiled(m, f)
      /\ Known(m, m.stack[f + ReceiverOffset])
  BY DEF SameFrame, MethodAt, MetaAt, ReceiverOffset, IsCompiled
<1>2. ASSUME NEW i, Married(m, i, f) PROVE Married(p, i, f)
  <2>1. i \in DOMAIN p.heap /\ p.heap[i] = m.heap[i]
    BY <1>2 DEF Married, HeapGrows
  <2> QED BY <2>1, <1>1, <1>2 DEF Married
<1>3. IsCompiled(m, f) => Fits(p, MethodAt(m, f), m.stack[f + ReceiverOffset])
  BY <1>1, FitsGrows DEF FrameOK
<1>4. HasContextIn(MetaAt(m, f)) => Married(m, m.stack[f + 3].value, f) /\ m.stack[f + 3] = Pointer(m.stack[f + 3].value)
  BY DEF FrameOK
<1>5. f + ReceiverOffset <= MaxStack /\ MetaAt(m, f).value \in Nat
      /\ IF IsCompiled(m, f) THEN MethodAt(m, f) \in Methods ELSE ~HasContextIn(MetaAt(m, f))
  BY DEF FrameOK
<1> QED BY <1>1, <1>2, <1>3, <1>4, <1>5 DEF FrameOK

(***************************************************************************)
(* What most instructions do: they write to the operands and temporaries   *)
(* of their frame and to the heap, and leave the contexts alone.           *)
(***************************************************************************)
Scratch(m) == {i \in 1..MaxStack : \/ m.framePointer + ReceiverOffset < i
                                   \/ m.framePointer - 2 - m.argumentCount < i /\ i < m.framePointer - 1}

Keeps(m, p) ==
  /\ DataOK(p) /\ m.framePointer + ReceiverOffset <= p.sp
  /\ p.framePointer = m.framePointer /\ p.argumentCount = m.argumentCount /\ p.isBlock = m.isBlock
  /\ p.method = m.method /\ p.scripts = m.scripts
  /\ \A i \in 1..MaxStack : i \in Scratch(m) \/ p.stack[i] = m.stack[i]
  /\ HeapGrows(m, p)
  /\ \A i \in DOMAIN p.heap : p.heap[i].class = "Context" =>
       IF i \in DOMAIN m.heap THEN p.heap[i] = m.heap[i] ELSE p.heap[i].slots[1].tag # "raw"

\* The words of the frames are none that such a step writes.
LEMMA KeepsFrames ==
  ASSUME NEW m, NEW p, NEW n, NEW F, NEW S, Layout(m, n, F, S), Keeps(m, p)
  PROVE  \A k \in 1..n : SameFrame(m, p, F[k])
<1> TAKE k \in 1..n
<1>1. FramesOK(m, n, F, S) /\ m.framePointer = F[n] /\ m.argumentCount = ArgumentsIn(MetaAt(m, F[n]))
  BY DEF Layout, Current
<1> DEFINE f == F[k]
           fp == m.framePointer
           a == m.argumentCount
<1>2. f \in Nat /\ fp \in Nat /\ a \in 0..255 /\ 3 <= f /\ f + 4 <= MaxStack
  BY <1>1, FramePlaces
<1>3. f = fp \/ f + 4 <= fp - 3 - a
  <2>1. CASE k = n
    BY <2>1, <1>1
  <2>2. CASE k # n
    <3>1. n \in 1..n /\ k \in 1..n - 1
      BY <2>2, <1>1, FramePlaces
    <3> QED BY <3>1, <1>1, FramePlaces
  <2> QED BY <2>1, <2>2
<1>4. \A i \in 1..MaxStack : i \in Scratch(m) => fp + 4 < i \/ (fp - 2 - a < i /\ i < fp - 1)
  BY DEF Scratch, ReceiverOffset
<1>5. MaxStack \in Nat
  BY StackAssumption
<1> HIDE DEF f, fp, a
<1>6. \A i \in f - 1..f + 4 : i \in 1..MaxStack /\ i \notin Scratch(m)
  BY <1>2, <1>3, <1>4, <1>5
<1>7. \A i \in f - 1..f + 4 : p.stack[i] = m.stack[i]
  BY <1>6 DEF Keeps
<1>8. SameFrame(m, p, f)
  BY <1>2, <1>7 DEF SameFrame
<1> QED BY <1>8 DEF f

\* Such a step leaves the frames and contexts as they should be.
LEMMA LayoutKept ==
  ASSUME NEW m, NEW p, NEW n, NEW F, NEW S, Layout(m, n, F, S), Keeps(m, p)
  PROVE  Layout(p, n, F, S)
<1>1. DataOK(m) /\ FramesOK(m, n, F, S) /\ ContextsOK(m, n, F) /\ Current(m, F[n])
  BY DEF Layout
<1>2. \A k \in 1..n : SameFrame(m, p, F[k])
  BY KeepsFrames
<1>3. ASSUME NEW k \in 1..n PROVE FrameOK(p, F[k])
  <2> DEFINE f == F[k]
  <2>1. FrameOK(m, f) /\ SameFrame(m, p, f)
    BY <1>1, <1>2 DEF FramesOK
  <2>5. f \in Nat /\ f + 4 <= MaxStack
    BY <1>1, FramePlaces
  <2>6. f + 4 \in 1..MaxStack
    BY <2>5, StackAssumption
  <2>2. Known(m, m.stack[f + 4])
    BY <2>6, <1>1 DEF DataOK, StackOK
  <2>3. HeapGrows(m, p) /\ \A i : Married(m, i, f) => p.heap[i] = m.heap[i]
    BY DEF Keeps, Married, HeapGrows
  <2> HIDE DEF f
  <2>4. FrameOK(p, f)
    BY <2>1, <2>2, <2>3, FrameSame
  <2> QED BY <2>4 DEF f
<1>4. FramesOK(p, n, F, S)
  <2>1. \A k \in 1..n : SameLinks(m, p, F[k]) /\ FrameOK(p, F[k])
    BY <1>2, <1>3, SameFrameLinks
  <2>2. p.scripts = m.scripts
    BY DEF Keeps
  <2> QED BY <1>1, <2>1, <2>2, FramesSame
<1>5. ContextsOK(p, n, F)
  <2> SUFFICES ASSUME NEW i \in DOMAIN p.heap, p.heap[i].class = "Context", p.heap[i].slots[1].tag = "raw"
               PROVE  \E k \in 1..n : /\ p.heap[i].slots[1].value = F[k] + 1 /\ p.stack[F[k] + 3] = Pointer(i)
                                      /\ HasContextIn(MetaAt(p, F[k]))
    BY DEF ContextsOK
  <2>1. i \in DOMAIN m.heap /\ p.heap[i] = m.heap[i]
    BY DEF Keeps
  <2>2. PICK k \in 1..n : /\ m.heap[i].slots[1].value = F[k] + 1 /\ m.stack[F[k] + 3] = Pointer(i)
                          /\ HasContextIn(MetaAt(m, F[k]))
    BY <2>1, <1>1 DEF ContextsOK
  <2>3. p.stack[F[k] + 3] = m.stack[F[k] + 3] /\ MetaAt(p, F[k]) = MetaAt(m, F[k])
    BY <1>2 DEF SameFrame, MetaAt
  <2> QED BY <2>1, <2>2, <2>3
<1>6. Current(p, F[n])
  <2>1. SameFrame(m, p, F[n])
    BY <1>1, <1>2, FramePlaces
  <2>2. MethodAt(p, F[n]) = MethodAt(m, F[n]) /\ MetaAt(p, F[n]) = MetaAt(m, F[n])
    BY <2>1 DEF SameFrame, MethodAt, MetaAt
  <2>3. /\ p.framePointer = m.framePointer /\ p.argumentCount = m.argumentCount /\ p.isBlock = m.isBlock
        /\ p.method = m.method /\ m.framePointer + ReceiverOffset <= p.sp
    BY DEF Keeps
  <2> QED BY <2>2, <2>3, <1>1 DEF Current
<1>7. DataOK(p)
  BY DEF Keeps
<1> QED BY <1>4, <1>5, <1>6, <1>7 DEF Layout

\* A machine whose operators can be applied.
Ready(m) == /\ DataOK(m) /\ m.framePointer \in Nat /\ m.framePointer + ReceiverOffset <= m.sp
            /\ m.argumentCount \in 0..255 /\ m.argumentCount + 3 <= m.framePointer

\* A machine with its frames in order can be worked on.
LEMMA LayoutReady ==
  ASSUME NEW m, NEW n, NEW F, NEW S, Layout(m, n, F, S)
  PROVE  Ready(m) /\ n \in Nat \ {0} /\ F[n] = m.framePointer /\ n \in 1..n
<1>1. FramesOK(m, n, F, S) /\ DataOK(m) /\ Current(m, F[n])
  BY DEF Layout
<1>2. n \in 1..n /\ n \in Nat \ {0}
  BY <1>1, FramePlaces
<1>3. F[n] \in Nat /\ 3 <= F[n] /\ ArgumentsIn(MetaAt(m, F[n])) \in 0..255
      /\ Base(m, F[n]) = F[n] - 3 - ArgumentsIn(MetaAt(m, F[n]))
  BY <1>1, <1>2, FramePlaces
<1>4. ArgumentsIn(MetaAt(m, F[n])) + 3 <= F[n]
  <2>1. CASE n = 1
    <3>1. ArgumentsIn(MetaAt(m, 3)) = 0 /\ F[n] = 3
      BY <1>1, <2>1 DEF FramesOK
    <3> QED BY <3>1
  <2>2. CASE n # 1
    <3>1. n \in 2..n
      BY <1>2, <2>2
    <3>2. 7 <= Base(m, F[n])
      BY <1>1, <3>1, FramePlaces
    <3> QED BY <3>2, <1>3
  <2> QED BY <2>1, <2>2
<1> QED BY <1>1, <1>2, <1>3, <1>4 DEF Ready, Current

\* Only fields change that the frames and the data do not consist of.
Registers == {"pc", "hasContext", "status", "phase", "answer", "primitiveHasFailed", "nativeFailed"}

\* A change of those registers keeps the frames and the data.
LEMMA KeepsRegisters ==
  ASSUME NEW m, NEW p, Ready(m), SameBut(m, p, Registers)
  PROVE  Keeps(m, p) /\ Ready(p) /\ p.sp = m.sp /\ p.stack = m.stack /\ p.heap = m.heap
<1>1. /\ DOMAIN p = Fields /\ p.stack = m.stack /\ p.sp = m.sp /\ p.heap = m.heap /\ p.globals = m.globals
      /\ p.scripts = m.scripts /\ p.methodDict = m.methodDict /\ p.framePointer = m.framePointer
      /\ p.argumentCount = m.argumentCount /\ p.isBlock = m.isBlock /\ p.method = m.method
  BY DEF SameBut, Fields, Registers
<1>2. HeapGrows(m, p)
  BY <1>1 DEF HeapGrows
<1>3. \A oop : Known(p, oop) = Known(m, oop)
  BY <1>1 DEF Known
<1>4. HeapOK(p)
  BY <1>1, <1>2, ObjectGrows DEF Ready, DataOK, HeapOK
<1>5. StackOK(p) /\ GlobalsOK(p)
  BY <1>1, <1>3 DEF Ready, DataOK, StackOK, GlobalsOK
<1>6. ScriptsOK(p) /\ MethodDictOK(p)
  BY <1>1, <1>3 DEF Ready, DataOK, ScriptsOK, MethodDictOK, ScriptOK
<1>7. DataOK(p)
  BY <1>1, <1>4, <1>5, <1>6 DEF Ready, DataOK
<1> QED BY <1>1, <1>2, <1>7 DEF Keeps, Ready

\* So does one of the operands and temporaries of the frame.
LEMMA KeepsStack ==
  ASSUME NEW m, NEW p, Ready(m), SameBut(m, p, {"stack", "sp"}),
         p.sp \in Nat, m.framePointer + ReceiverOffset <= p.sp, DOMAIN p.stack = 1..MaxStack,
         \A i \in 1..MaxStack : p.stack[i] = m.stack[i] \/ (i \in Scratch(m) /\ Known(m, p.stack[i]))
  PROVE  Keeps(m, p) /\ Ready(p)
<1>1. /\ DOMAIN p = Fields /\ p.heap = m.heap /\ p.globals = m.globals
      /\ p.scripts = m.scripts /\ p.methodDict = m.methodDict /\ p.framePointer = m.framePointer
      /\ p.argumentCount = m.argumentCount /\ p.isBlock = m.isBlock /\ p.method = m.method
  BY DEF SameBut, Fields
<1>2. HeapGrows(m, p)
  BY <1>1 DEF HeapGrows
<1>3. \A oop : Known(p, oop) = Known(m, oop)
  BY <1>1 DEF Known
<1>4. HeapOK(p)
  BY <1>1, <1>2, ObjectGrows DEF Ready, DataOK, HeapOK
<1>5. StackOK(p) /\ GlobalsOK(p)
  BY <1>1, <1>3 DEF Ready, DataOK, StackOK, GlobalsOK
<1>6. ScriptsOK(p) /\ MethodDictOK(p)
  BY <1>1, <1>3 DEF Ready, DataOK, ScriptsOK, MethodDictOK, ScriptOK
<1>7. DataOK(p)
  BY <1>1, <1>4, <1>5, <1>6 DEF Ready, DataOK
<1> QED BY <1>1, <1>2, <1>7 DEF Keeps, Ready

\* So does one of the heap that leaves the contexts alone.
LEMMA KeepsHeap ==
  ASSUME NEW m, NEW p, Ready(m), SameBut(m, p, {"heap"}), HeapGrows(m, p), HeapOK(p),
         \A i \in DOMAIN p.heap : p.heap[i].class = "Context" =>
           IF i \in DOMAIN m.heap THEN p.heap[i] = m.heap[i] ELSE p.heap[i].slots[1].tag # "raw"
  PROVE  Keeps(m, p) /\ Ready(p)
<1>1. /\ DOMAIN p = Fields /\ p.stack = m.stack /\ p.sp = m.sp /\ p.globals = m.globals
      /\ p.scripts = m.scripts /\ p.methodDict = m.methodDict /\ p.framePointer = m.framePointer
      /\ p.argumentCount = m.argumentCount /\ p.isBlock = m.isBlock /\ p.method = m.method
  BY DEF SameBut, Fields
<1>3. \A oop : Known(m, oop) => Known(p, oop)
  BY KnownGrows
<1>5. StackOK(p) /\ GlobalsOK(p)
  BY <1>1, <1>3 DEF Ready, DataOK, StackOK, GlobalsOK
<1>6. ScriptsOK(p) /\ MethodDictOK(p)
  BY <1>1, <1>3 DEF Ready, DataOK, ScriptsOK, MethodDictOK, ScriptOK
<1>7. DataOK(p)
  BY <1>1, <1>5, <1>6 DEF Ready, DataOK
<1> QED BY <1>1, <1>7 DEF Keeps, Ready

\* So does an assignment of a global.
LEMMA KeepsGlobal ==
  ASSUME NEW m, NEW p, Ready(m), SameBut(m, p, {"globals"}), NEW g, NEW oop, Known(m, oop),
         p.globals = [m.globals EXCEPT ![g] = oop]
  PROVE  Keeps(m, p) /\ Ready(p)
<1>1. /\ DOMAIN p = Fields /\ p.stack = m.stack /\ p.sp = m.sp /\ p.heap = m.heap
      /\ p.scripts = m.scripts /\ p.methodDict = m.methodDict /\ p.framePointer = m.framePointer
      /\ p.argumentCount = m.argumentCount /\ p.isBlock = m.isBlock /\ p.method = m.method
  BY DEF SameBut, Fields
<1>2. HeapGrows(m, p)
  BY <1>1 DEF HeapGrows
<1>3. \A word : Known(p, word) = Known(m, word)
  BY <1>1 DEF Known
<1>4. HeapOK(p)
  BY <1>1, <1>2, ObjectGrows DEF Ready, DataOK, HeapOK
<1>5. StackOK(p) /\ GlobalsOK(p)
  BY <1>1, <1>3 DEF Ready, DataOK, StackOK, GlobalsOK
<1>6. ScriptsOK(p) /\ MethodDictOK(p)
  BY <1>1, <1>3 DEF Ready, DataOK, ScriptsOK, MethodDictOK, ScriptOK
<1>7. DataOK(p)
  BY <1>1, <1>4, <1>5, <1>6 DEF Ready, DataOK
<1> QED BY <1>1, <1>2, <1>7 DEF Keeps, Ready

\* Two such changes make one.
LEMMA KeepsTransitive ==
  ASSUME NEW m, NEW p, NEW q, Keeps(m, p), Keeps(p, q)
  PROVE  Keeps(m, q)
<1>1. Scratch(p) = Scratch(m)
  BY DEF Keeps, Scratch
<1>2. \A i \in 1..MaxStack : i \in Scratch(m) \/ q.stack[i] = m.stack[i]
  BY <1>1 DEF Keeps
<1>3. DOMAIN m.heap \subseteq DOMAIN p.heap /\ DOMAIN p.heap \subseteq DOMAIN q.heap
  BY DEF Keeps, HeapGrows
<1>4. \A i \in DOMAIN q.heap : q.heap[i].class = "Context" =>
        IF i \in DOMAIN m.heap THEN q.heap[i] = m.heap[i] ELSE q.heap[i].slots[1].tag # "raw"
  <2> SUFFICES ASSUME NEW i \in DOMAIN q.heap, q.heap[i].class = "Context"
               PROVE  IF i \in DOMAIN m.heap THEN q.heap[i] = m.heap[i] ELSE q.heap[i].slots[1].tag # "raw"
    OBVIOUS
  <2>1. i \in DOMAIN p.heap => q.heap[i] = p.heap[i] /\ p.heap[i].class = "Context"
    BY DEF Keeps
  <2>2. i \notin DOMAIN p.heap => q.heap[i].slots[1].tag # "raw"
    BY DEF Keeps
  <2>3. i \in DOMAIN p.heap /\ p.heap[i].class = "Context" =>
          IF i \in DOMAIN m.heap THEN p.heap[i] = m.heap[i] ELSE p.heap[i].slots[1].tag # "raw"
    BY DEF Keeps
  <2> QED BY <2>1, <2>2, <2>3, <1>3
<1>5. HeapGrows(m, q)
  BY DEF Keeps, HeapGrows
<1>6. /\ DataOK(q) /\ m.framePointer + ReceiverOffset <= q.sp
      /\ q.framePointer = m.framePointer /\ q.argumentCount = m.argumentCount /\ q.isBlock = m.isBlock
      /\ q.method = m.method /\ q.scripts = m.scripts
  BY DEF Keeps
<1> QED BY <1>2, <1>4, <1>5, <1>6 DEF Keeps

(***************************************************************************)
(* The operators keep the frames.                                          *)
(***************************************************************************)
\* A word can be pushed that points at an object of the heap or at none.
LEMMA PushKeeps ==
  ASSUME NEW m, Ready(m), NEW oop, Known(m, oop)
  PROVE  /\ Keeps(m, Push(m, oop)) /\ Ready(Push(m, oop))
         /\ Push(m, oop).sp = m.sp + 1 /\ Push(m, oop).heap = m.heap
         /\ \A i \in 1..MaxStack : i # m.sp + 1 => Push(m, oop).stack[i] = m.stack[i]
         /\ m.sp + 1 <= MaxStack => Push(m, oop).stack[m.sp + 1] = oop
<1> DEFINE p == Push(m, oop)
<1>1. /\ DOMAIN m = Fields /\ m.sp \in Nat /\ m.framePointer \in Nat
      /\ m.framePointer + 4 <= m.sp /\ DOMAIN m.stack = 1..MaxStack
  BY DEF Ready, DataOK, StackOK, ReceiverOffset
<1>2. /\ SameBut(m, p, {"stack", "sp"})
      /\ p.stack = [m.stack EXCEPT ![m.sp + 1] = oop] /\ p.sp = m.sp + 1
  BY <1>1, PushFields
<1>3. p.heap = m.heap
  BY <1>2 DEF SameBut, Fields
<1> HIDE DEF p
<1>4. DOMAIN p.stack = 1..MaxStack
  BY <1>1, <1>2
<1>5. \A i \in 1..MaxStack : p.stack[i] = IF i = m.sp + 1 THEN oop ELSE m.stack[i]
  BY <1>1, <1>2
<1>6. \A i \in 1..MaxStack : i = m.sp + 1 => i \in Scratch(m)
  BY <1>1 DEF Scratch, ReceiverOffset
<1>7. \A i \in 1..MaxStack : p.stack[i] = m.stack[i] \/ (i \in Scratch(m) /\ Known(m, p.stack[i]))
  BY <1>5, <1>6
<1>8. p.sp \in Nat /\ m.framePointer + ReceiverOffset <= p.sp
  BY <1>1, <1>2 DEF ReceiverOffset
<1>9. Keeps(m, p) /\ Ready(p)
  BY <1>2, <1>4, <1>7, <1>8, KeepsStack
<1>10. m.sp + 1 <= MaxStack => p.stack[m.sp + 1] = oop
  BY <1>1, <1>5, StackAssumption
<1> QED BY <1>2, <1>3, <1>5, <1>9, <1>10 DEF p

\* Words can be pushed that point at objects of the heap.
LEMMA PushAllKeeps ==
  ASSUME NEW m, Ready(m), NEW oops, Len(oops) \in Nat, \A i \in 1..Len(oops) : Known(m, oops[i])
  PROVE  /\ Keeps(m, PushAll(m, oops)) /\ Ready(PushAll(m, oops))
         /\ PushAll(m, oops).sp = m.sp + Len(oops) /\ PushAll(m, oops).heap = m.heap
<1> DEFINE p == PushAll(m, oops)
<1>1. /\ DOMAIN m = Fields /\ m.sp \in Nat /\ m.framePointer \in Nat
      /\ m.framePointer + 4 <= m.sp /\ DOMAIN m.stack = 1..MaxStack
  BY DEF Ready, DataOK, StackOK, ReceiverOffset
<1>2. /\ SameBut(m, p, {"stack", "sp"}) /\ p.sp = m.sp + Len(oops)
      /\ p.stack = [i \in DOMAIN m.stack |-> IF i \in m.sp + 1..m.sp + Len(oops) THEN oops[i - m.sp] ELSE m.stack[i]]
  BY <1>1, PushAllFields
<1>3. p.heap = m.heap
  BY <1>2 DEF SameBut, Fields
<1> HIDE DEF p
<1>4. DOMAIN p.stack = 1..MaxStack
  BY <1>1, <1>2
<1>5. \A i \in 1..MaxStack : p.stack[i] = IF i \in m.sp + 1..m.sp + Len(oops) THEN oops[i - m.sp] ELSE m.stack[i]
  BY <1>1, <1>2
<1>6. ASSUME NEW i \in 1..MaxStack
      PROVE  p.stack[i] = m.stack[i] \/ (i \in Scratch(m) /\ Known(m, p.stack[i]))
  <2>1. CASE i \in m.sp + 1..m.sp + Len(oops)
    <3>1. i - m.sp \in 1..Len(oops) /\ m.framePointer + 4 < i
      BY <1>1, <2>1
    <3>2. p.stack[i] = oops[i - m.sp] /\ Known(m, oops[i - m.sp])
      BY <1>5, <2>1, <3>1
    <3> QED BY <3>1, <3>2 DEF Scratch, ReceiverOffset
  <2>2. CASE i \notin m.sp + 1..m.sp + Len(oops)
    BY <2>2, <1>5
  <2> QED BY <2>1, <2>2
<1>8. p.sp \in Nat /\ m.framePointer + ReceiverOffset <= p.sp
  BY <1>1, <1>2 DEF ReceiverOffset
<1>9. Keeps(m, p) /\ Ready(p)
  BY <1>2, <1>4, <1>6, <1>8, KeepsStack
<1> QED BY <1>2, <1>3, <1>9 DEF p

\* Operands can be popped down to the receiver of the frame.
LEMMA PopKeeps ==
  ASSUME NEW m, Ready(m), NEW n \in Nat, m.framePointer + 4 <= m.sp - n
  PROVE  /\ Keeps(m, popMultiplesOops(m, n)) /\ Ready(popMultiplesOops(m, n))
         /\ popMultiplesOops(m, n).sp = m.sp - n /\ popMultiplesOops(m, n).heap = m.heap
         /\ popMultiplesOops(m, n).stack = m.stack
<1> DEFINE p == popMultiplesOops(m, n)
<1>1. /\ DOMAIN m = Fields /\ m.sp \in Nat /\ m.framePointer \in Nat /\ DOMAIN m.stack = 1..MaxStack
  BY DEF Ready, DataOK, StackOK
<1>2. SameBut(m, p, {"sp"}) /\ p.sp = m.sp - n
  BY <1>1, PopFields
<1> HIDE DEF p
<1>3. p.heap = m.heap /\ p.stack = m.stack /\ SameBut(m, p, {"stack", "sp"})
  BY <1>2 DEF SameBut, Fields
<1>4. p.sp \in Nat /\ m.framePointer + ReceiverOffset <= p.sp
  BY <1>1, <1>2 DEF ReceiverOffset
<1>5. Keeps(m, p) /\ Ready(p)
  BY <1>1, <1>3, <1>4, KeepsStack
<1> QED BY <1>2, <1>3, <1>5 DEF p

\* A temporary can be written: an argument is below the frame, a variable
\* above it.
LEMMA SetTemporaryKeeps ==
  ASSUME NEW m, Ready(m), NEW i \in Nat, NEW oop, Known(m, oop)
  PROVE  /\ Keeps(m, setTemporary(m, i, oop)) /\ Ready(setTemporary(m, i, oop))
         /\ setTemporary(m, i, oop).sp = m.sp /\ setTemporary(m, i, oop).heap = m.heap
<1> DEFINE p == setTemporary(m, i, oop)
           at == TemporaryAt(m, i)
           fp == m.framePointer
           a == m.argumentCount
<1>1. /\ DOMAIN m = Fields /\ m.sp \in Nat /\ fp \in Nat /\ fp + 4 <= m.sp
      /\ DOMAIN m.stack = 1..MaxStack /\ a \in 0..255
  BY DEF Ready, DataOK, StackOK, ReceiverOffset
<1>2. SameBut(m, p, {"stack"}) /\ p.stack = [m.stack EXCEPT ![at] = oop]
  BY <1>1, SetTemporaryFields
<1>3. at = IF i < a THEN fp - 2 - (a - i - 1) ELSE fp + 5 + (i - a)
  BY DEF TemporaryAt, FirstTempOffset
<1>4. at \in Int /\ (fp + 4 < at \/ (fp - 2 - a < at /\ at < fp - 1))
  <2> HIDE DEF at, fp, a
  <2>1. CASE i < a
    <3>1. at = fp - 2 - (a - i - 1)
      BY <2>1, <1>3
    <3> QED BY <3>1, <2>1, <1>1
  <2>2. CASE ~(i < a)
    <3>1. at = fp + 5 + (i - a)
      BY <2>2, <1>3
    <3> QED BY <3>1, <2>2, <1>1
  <2> QED BY <2>1, <2>2
<1>5. at \in 1..MaxStack => at \in Scratch(m)
  BY <1>4 DEF Scratch, ReceiverOffset
<1> HIDE DEF p, at
<1>6. DOMAIN p.stack = 1..MaxStack /\ \A j \in 1..MaxStack : p.stack[j] = IF j = at THEN oop ELSE m.stack[j]
  BY <1>1, <1>2
<1>7. \A j \in 1..MaxStack : p.stack[j] = m.stack[j] \/ (j \in Scratch(m) /\ Known(m, p.stack[j]))
  BY <1>5, <1>6
<1>8. p.sp = m.sp /\ p.heap = m.heap /\ SameBut(m, p, {"stack", "sp"})
  BY <1>2 DEF SameBut, Fields
<1>9. p.sp \in Nat /\ m.framePointer + ReceiverOffset <= p.sp
  BY <1>1, <1>8 DEF ReceiverOffset
<1>10. Keeps(m, p) /\ Ready(p)
  BY <1>6, <1>7, <1>8, <1>9, KeepsStack
<1> QED BY <1>8, <1>10 DEF p

\* An object is allocated that is no context of a frame.
LEMMA AllocateKeeps ==
  ASSUME NEW m, Ready(m), NEW object, ObjectOK(m, object),
         object.class = "Context" => object.slots[1].tag # "raw"
  PROVE  LET p == Allocate(m, object) IN
         /\ Keeps(m, p) /\ Ready(p) /\ p.sp = m.sp /\ p.stack = m.stack
         /\ Newest(p) = Pointer(Len(p.heap)) /\ Known(p, Newest(p)) /\ p.heap[Len(p.heap)] = object
         /\ Len(p.heap) \in DOMAIN p.heap
<1> DEFINE p == Allocate(m, object)
<1>1. DOMAIN m = Fields /\ HeapOK(m)
  BY DEF Ready, DataOK
<1>2. SameBut(m, p, {"heap"}) /\ p.heap = Append(m.heap, object)
  BY <1>1, AllocateFields
<1> HIDE DEF p
<1>3. /\ HeapGrows(m, p) /\ HeapOK(p)
      /\ Len(p.heap) \in DOMAIN p.heap /\ p.heap[Len(p.heap)] = object
      /\ \A i \in DOMAIN m.heap : p.heap[i] = m.heap[i]
      /\ DOMAIN p.heap = DOMAIN m.heap \cup {Len(p.heap)}
  BY <1>1, <1>2, HeapAppend
<1>4. \A i \in DOMAIN p.heap : p.heap[i].class = "Context" =>
        IF i \in DOMAIN m.heap THEN p.heap[i] = m.heap[i] ELSE p.heap[i].slots[1].tag # "raw"
  BY <1>3
<1>5. Keeps(m, p) /\ Ready(p)
  BY <1>2, <1>3, <1>4, KeepsHeap
<1>6. p.sp = m.sp /\ p.stack = m.stack
  BY <1>2 DEF SameBut, Fields
<1>7. Newest(p) = Pointer(Len(p.heap)) /\ Known(p, Newest(p))
  BY <1>3 DEF Newest, Known, Pointer, Word
<1> QED BY <1>3, <1>5, <1>6, <1>7 DEF p

\* The next instruction can be fetched.
LEMMA FetchAtKeeps ==
  ASSUME NEW m, Ready(m), NEW pc
  PROVE  /\ Keeps(m, FetchAt(m, pc)) /\ Ready(FetchAt(m, pc))
         /\ FetchAt(m, pc).sp = m.sp /\ FetchAt(m, pc).stack = m.stack /\ FetchAt(m, pc).heap = m.heap
         /\ FetchAt(m, pc).nativeFailed = m.nativeFailed
<1>1. SameBut(m, FetchAt(m, pc), {"pc", "status"})
  BY FetchAtFields DEF Ready, DataOK
<1>2. SameBut(m, FetchAt(m, pc), Registers) /\ FetchAt(m, pc).nativeFailed = m.nativeFailed
  BY <1>1 DEF SameBut, Registers, Fields
<1> QED BY <1>2, KeepsRegisters

\* Words that are read are known.
LEMMA StackKnown ==
  ASSUME NEW m, Ready(m), NEW i \in 1..MaxStack
  PROVE  Known(m, m.stack[i])
BY DEF Ready, DataOK, StackOK

\* An operand points at no object, or at one of the heap.
LEMMA TopKnown ==
  ASSUME NEW m, Ready(m), m.sp <= MaxStack, NEW i \in Nat, i < m.sp
  PROVE  Known(m, stackOopAt(m, i)) /\ m.sp - i \in 1..MaxStack
<1>1. m.sp - i \in 1..MaxStack
  BY StackAssumption DEF Ready, DataOK
<1> QED BY <1>1, StackKnown DEF stackOopAt

\* So does a temporary.
LEMMA TemporaryKnown ==
  ASSUME NEW m, Ready(m), NEW i
  PROVE  Known(m, getTemporary(m, i))
BY StackKnown DEF getTemporary, Ready, DataOK, StackOK, Known, nil, Word

\* So does the receiver.
LEMMA ReceiverKnown ==
  ASSUME NEW m, Ready(m), m.sp <= MaxStack
  PROVE  Known(m, currentReceiver(m)) /\ m.framePointer + ReceiverOffset \in 1..MaxStack
<1>1. m.framePointer + ReceiverOffset \in 1..MaxStack
  BY StackAssumption DEF Ready, DataOK, ReceiverOffset
<1> QED BY <1>1, StackKnown DEF currentReceiver

(***************************************************************************)
(* Marrying a frame and its context.                                       *)
(***************************************************************************)
\* The fields of the words that a frame and its context are made of.
LEMMA WordFields ==
  ASSUME NEW i
  PROVE  /\ Pointer(i).tag = "pointer" /\ Pointer(i).value = i /\ Raw(i).tag = "raw" /\ Raw(i).value = i
         /\ encodeSmallInteger(i).tag = "int" /\ nil.tag = "nil"
BY DEF Pointer, Raw, encodeSmallInteger, nil, Word

\* What the frame that the machine is in holds.
LEMMA FrameRead ==
  ASSUME NEW m, NEW n, NEW F, NEW S, Layout(m, n, F, S)
  PROVE  LET fp == m.framePointer IN
         /\ fp = F[n] /\ FrameOK(m, fp) /\ fp + 4 \in 1..MaxStack /\ 3 <= fp /\ fp \in Nat
         /\ m.argumentCount = ArgumentsIn(MetaAt(m, fp)) /\ m.isBlock = BlockIn(MetaAt(m, fp))
         /\ m.method = MethodAt(m, fp) /\ m.argumentCount \in 0..255 /\ m.isBlock \in BOOLEAN
         /\ m.argumentCount + 3 <= fp /\ fp + 4 <= m.sp /\ m.sp \in Nat
         /\ MetaAt(m, fp).value \in Nat /\ DOMAIN m = Fields /\ DOMAIN m.stack = 1..MaxStack
         /\ n \in 1..n /\ n \in Nat \ {0} /\ FramesOK(m, n, F, S)
<1>1. FramesOK(m, n, F, S) /\ DataOK(m) /\ Current(m, F[n])
  BY DEF Layout
<1>2. Ready(m) /\ n \in Nat \ {0} /\ F[n] = m.framePointer /\ n \in 1..n
  BY LayoutReady
<1> DEFINE fp == m.framePointer
<1>3. FrameOK(m, fp) /\ fp \in Nat /\ 3 <= fp /\ fp + 4 <= MaxStack
  <2>1. FrameOK(m, F[n])
    BY <1>1, <1>2 DEF FramesOK
  <2>2. F[n] \in Nat /\ 3 <= F[n] /\ F[n] + 4 <= MaxStack
    BY <1>1, <1>2, FramePlaces
  <2> QED BY <2>1, <2>2, <1>2
<1>4. fp + 4 \in 1..MaxStack
  BY <1>3, StackAssumption
<1>5. MetaAt(m, fp).value \in Nat
  BY <1>3 DEF FrameOK
<1>6. m.isBlock = BlockIn(MetaAt(m, fp)) /\ m.isBlock \in BOOLEAN
  BY <1>1, <1>2, <1>5, MetadataRange DEF Current
<1> QED BY <1>1, <1>2, <1>3, <1>4, <1>5, <1>6 DEF Current, Ready, DataOK, StackOK, ReceiverOffset

\* The words that a step leaves alone when it writes above the frames of the
\* callers: those up to the base of the frame.
Untouched(m, p) == \A i \in 1..m.framePointer - 3 - m.argumentCount : p.stack[i] = m.stack[i]

\* Such a change is above the base of the frame.
LEMMA KeepsUntouched ==
  ASSUME NEW m, NEW n, NEW F, NEW S, Layout(m, n, F, S), NEW p, Keeps(m, p)
  PROVE  Untouched(m, p)
<1> DEFINE fp == m.framePointer
           a == m.argumentCount
<1>1. fp \in Nat /\ a \in 0..255 /\ fp + 4 \in 1..MaxStack /\ MaxStack \in Nat
  BY FrameRead, StackAssumption
<1>2. \A i \in 1..MaxStack : i \in Scratch(m) => fp + 4 < i \/ fp - 2 - a < i
  BY DEF Scratch, ReceiverOffset
<1>3. \A i \in 1..MaxStack : i \in Scratch(m) \/ p.stack[i] = m.stack[i]
  BY DEF Keeps
<1> SUFFICES ASSUME NEW i \in 1..fp - 3 - a PROVE p.stack[i] = m.stack[i]
  BY DEF Untouched
<1> HIDE DEF fp, a
<1>4. i \in 1..MaxStack /\ ~(fp + 4 < i) /\ ~(fp - 2 - a < i)
  BY <1>1
<1> QED BY <1>2, <1>3, <1>4

\* The frame that is married is that of a method.
LEMMA MarryKeeps ==
  ASSUME NEW m, NEW n, NEW F, NEW S, Layout(m, n, F, S), IsCompiled(m, m.framePointer)
  PROVE  LET p == ensureFrameIsMarried(m) IN
         /\ Layout(p, n, F, S) /\ HeapGrows(m, p) /\ Untouched(m, p)
         /\ SameBut(m, p, {"stack", "heap"})
         /\ \A i \in 1..MaxStack : i = m.framePointer + 2 \/ i = m.framePointer + 3 \/ p.stack[i] = m.stack[i]
         /\ HasContextIn(MetaAt(p, m.framePointer))
<1> DEFINE fp == m.framePointer
           meta == MetaAt(m, fp)
           a == ArgumentsIn(meta)
           p == ensureFrameIsMarried(m)
<1>1. /\ fp = F[n] /\ FrameOK(m, fp) /\ fp + 4 \in 1..MaxStack /\ 3 <= fp /\ fp \in Nat
      /\ m.argumentCount = a /\ m.isBlock = BlockIn(meta) /\ m.method = MethodAt(m, fp)
      /\ a \in 0..255 /\ BlockIn(meta) \in BOOLEAN /\ a + 3 <= fp /\ fp + 4 <= m.sp /\ m.sp \in Nat
      /\ meta.value \in Nat /\ DOMAIN m = Fields /\ DOMAIN m.stack = 1..MaxStack
      /\ n \in 1..n /\ n \in Nat \ {0} /\ FramesOK(m, n, F, S)
  <2>1. BlockIn(MetaAt(m, m.framePointer)) \in BOOLEAN
    BY FrameRead
  <2>2. m.argumentCount = a
    BY FrameRead
  <2>3. m.argumentCount \in 0..255 /\ m.argumentCount + 3 <= fp
    BY FrameRead
  <2> HIDE DEF a
  <2> QED BY <2>1, <2>2, <2>3, FrameRead
<1>2. DataOK(m) /\ ContextsOK(m, n, F) /\ Current(m, fp) /\ MaxStack \in Nat
  BY <1>1, StackAssumption DEF Layout
<1>5. /\ fp \in Nat /\ 3 <= fp /\ fp + 4 <= MaxStack /\ MaxStack \in Nat
      /\ a \in Nat /\ a + 3 <= fp
  <2>1. fp \in Nat /\ 3 <= fp /\ fp + 4 \in 1..MaxStack /\ a \in 0..255 /\ a + 3 <= fp
    BY <1>1
  <2> HIDE DEF fp, a
  <2> QED BY <2>1, <1>2
<1>3. CASE HasContextIn(meta)
  <2>1. p = m
    BY <1>3 DEF ensureFrameIsMarried, MetaAt
  <2> HIDE DEF p
  <2>2. HeapGrows(m, p) /\ Untouched(m, p) /\ SameBut(m, p, {"stack", "heap"})
    BY <2>1, <1>1 DEF HeapGrows, Untouched, SameBut
  <2> QED BY <2>1, <2>2, <1>3 DEF p
<1>4. CASE ~HasContextIn(meta)
  <2> DEFINE closure == IF BlockIn(meta) THEN m.stack[fp - 2 - a] ELSE nil
             context == Object("Context", <<Raw(fp + 1), Raw(m.stack[fp].value + 1), Raw(m.sp + 1),
                                            m.stack[fp + 1], closure, currentReceiver(m),
                                            encodeSmallInteger(a)>>,
                               [i \in 1..a |-> m.stack[fp - 2 - a + i]])
             c == Len(p.heap)
             twin == encodeFrameMetaData(TRUE, BlockIn(meta), a)
  <2>1. /\ SameBut(m, p, {"stack", "heap"}) /\ p.heap = Append(m.heap, context)
        /\ p.stack = [m.stack EXCEPT ![fp + 3] = Pointer(Len(Append(m.heap, context))), ![fp + 2] = twin]
    BY <1>1, <1>4 DEF ensureFrameIsMarried, MetaAt, Allocate, Newest, Fields, SameBut
  <2>2. ObjectOK(m, context)
    <3>1. \A i \in 1..MaxStack : Known(m, m.stack[i])
      BY <1>2 DEF DataOK, StackOK
    <3>2. fp + 1 \in 1..MaxStack /\ fp - 2 - a \in 1..MaxStack
      <4> HIDE DEF fp, a
      <4> QED BY <1>5
    <3>3. \A i \in 1..a : fp - 2 - a + i \in 1..MaxStack
      <4> HIDE DEF fp, a
      <4> QED BY <1>5
    <3>4. /\ Known(m, m.stack[fp + 1]) /\ Known(m, closure) /\ Known(m, currentReceiver(m))
          /\ Known(m, Raw(fp + 1)) /\ Known(m, Raw(m.stack[fp].value + 1)) /\ Known(m, Raw(m.sp + 1))
          /\ Known(m, encodeSmallInteger(a))
      BY <3>1, <3>2, <1>1 DEF Known, Raw, Word, nil, encodeSmallInteger, currentReceiver, ReceiverOffset
    <3>5. \A i \in DOMAIN context.slots : Known(m, context.slots[i])
      <4> HIDE DEF fp, closure, a
      <4> QED BY <3>4 DEF Object
    <3>6. DOMAIN context = {"class", "slots", "elements"} /\ context.class = "Context" /\ DOMAIN context.slots = 1..7
      BY DEF Object
    <3>7. context.elements = [i \in 1..a |-> m.stack[fp - 2 - a + i]]
      BY DEF Object
    <3>8. IsSequence(context.elements) /\ DOMAIN context.elements = 1..a
      <4> DEFINE e == context.elements
      <4>1. a \in Nat
        BY <1>5
      <4>2. e = [i \in 1..a |-> e[i]] /\ DOMAIN e = 1..a
        BY <3>7
      <4> HIDE DEF e, a
      <4>3. IsSequence(e)
        BY <4>1, <4>2, SequenceFunction, Zenon
      <4> QED BY <4>2, <4>3 DEF e
    <3>9. \A i \in DOMAIN context.elements : Known(m, context.elements[i])
      BY <3>1, <3>3, <3>7
    <3> HIDE DEF context
    <3> QED BY <3>5, <3>6, <3>8, <3>9 DEF ObjectOK
  <2>3. /\ context.class = "Context" /\ context.slots[1] = Raw(fp + 1) /\ context.slots[4] = m.stack[fp + 1]
        /\ context.slots[6] = m.stack[fp + 4]
    BY DEF Object, currentReceiver, ReceiverOffset
  <2>4. ArgumentsIn(twin) = a /\ BlockIn(twin) = BlockIn(meta) /\ HasContextIn(twin) /\ twin.value \in Nat
        /\ twin.tag = "raw"
    BY <1>1, Metadata
  <2> HIDE DEF p, context, twin
  <2>5. /\ HeapGrows(m, p) /\ HeapOK(p) /\ c \in DOMAIN p.heap /\ p.heap[c] = context
        /\ \A i \in DOMAIN m.heap : p.heap[i] = m.heap[i]
        /\ DOMAIN p.heap = DOMAIN m.heap \cup {c}
    <3>1. HeapOK(m) /\ p.heap = Append(m.heap, context)
      BY <1>2, <2>1 DEF DataOK
    <3> QED BY <3>1, <2>2, HeapAppend
  <2>6. p.stack = [m.stack EXCEPT ![fp + 3] = Pointer(c), ![fp + 2] = twin]
    BY <2>1
  <2> HIDE DEF c
  <2>7. /\ DOMAIN p.stack = 1..MaxStack /\ p.stack[fp + 3] = Pointer(c) /\ p.stack[fp + 2] = twin
        /\ \A i \in 1..MaxStack : i = fp + 2 \/ i = fp + 3 \/ p.stack[i] = m.stack[i]
    <3> HIDE DEF fp
    <3>1. fp + 2 \in 1..MaxStack /\ fp + 3 \in 1..MaxStack /\ fp + 2 # fp + 3
      BY <1>1, <1>2
    <3> QED BY <2>6, <3>1, <1>1
  <2>8. /\ p.globals = m.globals /\ p.scripts = m.scripts /\ p.methodDict = m.methodDict /\ p.sp = m.sp
        /\ p.framePointer = m.framePointer /\ p.argumentCount = m.argumentCount
        /\ p.isBlock = m.isBlock /\ p.method = m.method /\ DOMAIN p = Fields
    BY <2>1 DEF SameBut, Fields
  <2>9. \A oop : Known(m, oop) => Known(p, oop)
    BY <2>5, KnownGrows
  <2>10. StackOK(p)
    <3>1. Known(p, Pointer(c)) /\ Known(p, twin)
      BY <2>4, <2>5 DEF Known, Pointer, Word
    <3>2. \A i \in 1..MaxStack : Known(p, m.stack[i])
      BY <1>2, <2>9 DEF DataOK, StackOK
    <3> QED BY <2>7, <3>1, <3>2 DEF StackOK
  <2>11. DataOK(p)
    <3>1. GlobalsOK(p) /\ ScriptsOK(p) /\ MethodDictOK(p)
      BY <1>2, <2>8, <2>9 DEF DataOK, GlobalsOK, ScriptsOK, ScriptOK, MethodDictOK
    <3> QED BY <3>1, <2>5, <2>8, <2>10, <1>2 DEF DataOK
  <2>12. ASSUME NEW k \in 1..n - 1 PROVE SameFrame(m, p, F[k])
    <3> DEFINE f == F[k]
    <3>1. f + 4 <= Base(m, fp) /\ Base(m, fp) = fp - 3 - a /\ f \in Nat /\ 3 <= f
      BY <1>1, FramePlaces
    <3>5. a \in 0..255 /\ fp \in Nat /\ fp + 4 \in 1..MaxStack
      BY <1>1
    <3> HIDE DEF f, fp, a
    <3>6. f + 4 <= fp - 3
      BY <3>1, <3>5
    <3>2. \A i \in f - 1..f + 4 : i \in 1..MaxStack /\ i # fp + 2 /\ i # fp + 3
      BY <3>1, <3>5, <3>6, <1>2
    <3>3. \A i \in f - 1..f + 4 : p.stack[i] = m.stack[i]
      BY <3>2, <2>7
    <3>4. SameFrame(m, p, f)
      BY <3>1, <3>3 DEF SameFrame
    <3> QED BY <3>4 DEF f
  <2>13. /\ p.stack[fp - 1] = m.stack[fp - 1] /\ p.stack[fp] = m.stack[fp] /\ p.stack[fp + 1] = m.stack[fp + 1]
         /\ p.stack[fp + 4] = m.stack[fp + 4]
    <3>1. {fp - 1, fp, fp + 1, fp + 4} \subseteq 1..MaxStack
      BY <1>1, <1>2
    <3>2. \A i \in {fp - 1, fp, fp + 1, fp + 4} : i # fp + 2 /\ i # fp + 3
      BY <1>1
    <3> HIDE DEF fp
    <3> QED BY <3>1, <3>2, <2>7
  <2>14. MethodAt(p, fp) = MethodAt(m, fp) /\ MetaAt(p, fp) = twin /\ SameLinks(m, p, fp)
    BY <2>4, <2>7, <2>13 DEF MethodAt, MetaAt, SameLinks
  <2>15. FrameOK(p, fp)
    <3>1. Known(m, m.stack[fp + ReceiverOffset])
      BY <1>1, <1>2 DEF DataOK, StackOK, ReceiverOffset
    <3>2. p.stack[fp + ReceiverOffset] = m.stack[fp + ReceiverOffset]
      BY <2>13 DEF ReceiverOffset
    <3>3. Fits(p, MethodAt(p, fp), p.stack[fp + ReceiverOffset]) /\ MethodAt(p, fp) \in Methods
      BY <2>5, <2>14, <3>1, <3>2, <1>1, FitsGrows DEF FrameOK
    <3>4. Married(p, c, fp)
      BY <2>3, <2>5, <2>13, <2>14 DEF Married, MethodAt, ReceiverOffset
    <3>5. p.stack[fp + 3] = Pointer(p.stack[fp + 3].value) /\ p.stack[fp + 3].value = c
      BY <2>7, WordFields
    <3>6. IsCompiled(p, fp)
      BY <2>14 DEF IsCompiled
    <3> QED BY <3>3, <3>4, <3>5, <3>6, <2>4, <2>14, <1>1 DEF FrameOK, ReceiverOffset
  <2>16. ASSUME NEW k \in 1..n PROVE SameLinks(m, p, F[k]) /\ FrameOK(p, F[k])
    <3>1. CASE k = n
      BY <3>1, <2>14, <2>15, <1>1
    <3>2. CASE k # n
      <4> DEFINE f == F[k]
      <4>7. k \in 1..n - 1 /\ FrameOK(m, f)
        BY <3>2, <1>1 DEF FramesOK
      <4>1. k \in 1..n - 1 /\ FrameOK(m, f) /\ f \in Nat /\ f + 4 <= MaxStack
        BY <4>7, <1>1, FramePlaces
      <4>2. SameFrame(m, p, f)
        BY <4>1, <2>12
      <4>3. f + 4 \in 1..MaxStack
        BY <4>1, <1>2
      <4>4. Known(m, m.stack[f + 4])
        BY <4>3, <1>2 DEF DataOK, StackOK
      <4>5. \A i : Married(m, i, f) => p.heap[i] = m.heap[i]
        BY <2>5 DEF Married
      <4> HIDE DEF f
      <4>6. FrameOK(p, f) /\ SameLinks(m, p, f)
        BY <4>1, <4>2, <4>4, <4>5, <2>5, FrameSame, SameFrameLinks
      <4> QED BY <4>6 DEF f
    <3> QED BY <3>1, <3>2
  <2>17. FramesOK(p, n, F, S)
    BY <1>1, <2>8, <2>16, FramesSame
  <2>18. ContextsOK(p, n, F)
    <3> SUFFICES ASSUME NEW i \in DOMAIN p.heap, p.heap[i].class = "Context", p.heap[i].slots[1].tag = "raw"
                 PROVE  \E k \in 1..n : /\ p.heap[i].slots[1].value = F[k] + 1 /\ p.stack[F[k] + 3] = Pointer(i)
                                        /\ HasContextIn(MetaAt(p, F[k]))
      BY DEF ContextsOK
    <3>1. CASE i \in DOMAIN m.heap
      <4>1. p.heap[i] = m.heap[i]
        BY <3>1, <2>5
      <4>2. PICK k \in 1..n : /\ m.heap[i].slots[1].value = F[k] + 1 /\ m.stack[F[k] + 3] = Pointer(i)
                              /\ HasContextIn(MetaAt(m, F[k]))
        BY <4>1, <3>1, <1>2 DEF ContextsOK
      <4>3. k \in 1..n - 1
        <5>1. k # n
          BY <4>2, <1>1, <1>4
        <5> QED BY <5>1, <1>1
      <4>4. p.stack[F[k] + 3] = m.stack[F[k] + 3] /\ MetaAt(p, F[k]) = MetaAt(m, F[k])
        BY <4>3, <2>12 DEF SameFrame, MetaAt
      <4> QED BY <4>1, <4>2, <4>4
    <3>2. CASE i \notin DOMAIN m.heap
      <4>1. i = c
        BY <3>2, <2>5
      <4>2. p.heap[i].slots[1].value = fp + 1
        BY <4>1, <2>3, <2>5, WordFields
      <4> QED BY <4>1, <4>2, <2>4, <2>7, <2>14, <1>1
    <3> QED BY <3>1, <3>2
  <2>19. Current(p, F[n])
    BY <1>1, <2>4, <2>8, <2>14 DEF Current, ReceiverOffset
  <2>20. Untouched(m, p)
    <3> SUFFICES ASSUME NEW i \in 1..fp - 3 - m.argumentCount PROVE p.stack[i] = m.stack[i]
      BY DEF Untouched
    <3>1. i \in 1..MaxStack /\ i # fp + 2 /\ i # fp + 3
      <4>1. m.argumentCount = a
        BY <1>1
      <4> HIDE DEF fp, a
      <4> QED BY <4>1, <1>5
    <3> QED BY <3>1, <2>7
  <2> QED BY <2>1, <2>4, <2>5, <2>7, <2>11, <2>14, <2>17, <2>18, <2>19, <2>20 DEF Layout, p
<1> QED BY <1>3, <1>4

\* The context of a frame, for a closure that is made in it.
LEMMA ContextOfFrame ==
  ASSUME NEW m, NEW n, NEW F, NEW S, Layout(m, n, F, S), IsCompiled(m, m.framePointer),
         HasContextIn(MetaAt(m, m.framePointer)), NEW pc, NEW d, Reaches(m.method, pc, d)
  PROVE  /\ ThisContext(m).tag = "pointer" /\ Known(m, ThisContext(m))
         /\ RunsOn(m, m.heap[ThisContext(m).value], pc, d) /\ m.method \in Methods
<1> DEFINE fp == m.framePointer
           c == m.stack[fp + 3].value
<1>1. FrameOK(m, fp) /\ m.method = MethodAt(m, fp)
  BY FrameRead
<1>2. m.stack[fp + 3] = Pointer(c) /\ Married(m, c, fp)
  BY <1>1 DEF FrameOK
<1>3. MethodAt(m, fp) \in Methods /\ Fits(m, MethodAt(m, fp), m.stack[fp + ReceiverOffset])
  BY <1>1 DEF FrameOK
<1>4. ThisContext(m).tag = "pointer" /\ ThisContext(m).value = c /\ Known(m, ThisContext(m))
  BY <1>2, WordFields DEF ThisContext, Known, Married
<1> QED BY <1>1, <1>2, <1>3, <1>4 DEF RunsOn, Married

(***************************************************************************)
(* Calling: a frame more.                                                  *)
(***************************************************************************)
\* The machine q is in a frame that m has called, with its fixed words.
Framed(m, q, method, block, args, receiver) ==
  LET g == m.sp + 2 IN
  /\ DataOK(q) /\ q.heap = m.heap /\ q.scripts = m.scripts /\ q.nativeFailed = m.nativeFailed
  /\ q.framePointer = g /\ g + 4 <= q.sp
  /\ \A i \in 1..m.sp : q.stack[i] = m.stack[i]
  /\ q.stack[g - 1] = Raw(IF m.pc = 0 THEN 0 ELSE m.pc + 1) /\ q.stack[g] = Raw(m.framePointer)
  /\ q.stack[g + 1] = method /\ q.stack[g + 2] = encodeFrameMetaData(FALSE, block, args)
  /\ q.stack[g + 4] = receiver
  /\ q.argumentCount = args /\ q.isBlock = block /\ q.method = method

\* fetchFrameData leaves the data as it is and takes the registers from the
\* frame.
LEMMA FetchFrameReady ==
  ASSUME NEW m, DataOK(m), m.framePointer # 0
  PROVE  LET p == fetchFrameData(m)
             meta == m.stack[m.framePointer + 2] IN
         /\ DataOK(p) /\ p.heap = m.heap /\ p.scripts = m.scripts /\ p.nativeFailed = m.nativeFailed
         /\ p.framePointer = m.framePointer /\ p.sp = m.sp /\ p.stack = m.stack
         /\ p.pc = m.pc /\ p.status = m.status /\ p.primitiveHasFailed = m.primitiveHasFailed
         /\ p.argumentCount = ArgumentsIn(meta) /\ p.isBlock = BlockIn(meta)
         /\ p.method = m.stack[m.framePointer + 1]
<1> DEFINE p == fetchFrameData(m)
           meta == m.stack[m.framePointer + 2]
<1>1. DOMAIN m = Fields
  BY DEF DataOK
<1>2. /\ SameBut(m, p, {"argumentCount", "isBlock", "hasContext", "method"})
      /\ p.argumentCount = ArgumentsIn(meta) /\ p.isBlock = BlockIn(meta)
      /\ p.method = m.stack[m.framePointer + 1]
  BY <1>1, FetchFrameFields
<1> HIDE DEF p
<1>3. /\ p.heap = m.heap /\ p.scripts = m.scripts /\ p.nativeFailed = m.nativeFailed
      /\ p.framePointer = m.framePointer /\ p.sp = m.sp /\ p.stack = m.stack /\ p.pc = m.pc /\ p.status = m.status
      /\ p.globals = m.globals /\ p.methodDict = m.methodDict /\ DOMAIN p = Fields
      /\ p.primitiveHasFailed = m.primitiveHasFailed
  BY <1>2 DEF SameBut, Fields
<1>4. HeapGrows(m, p)
  BY <1>3 DEF HeapGrows
<1>5. HeapOK(p)
  BY <1>3, <1>4, ObjectGrows DEF DataOK, HeapOK
<1>6. StackOK(p) /\ GlobalsOK(p) /\ ScriptsOK(p) /\ MethodDictOK(p)
  BY <1>3 DEF DataOK, StackOK, GlobalsOK, ScriptsOK, ScriptOK, MethodDictOK, Known
<1>7. DataOK(p)
  BY <1>3, <1>5, <1>6 DEF DataOK
<1> QED BY <1>2, <1>3, <1>7 DEF p

\* Words are written above the stack pointer.
LEMMA StackWritten ==
  ASSUME NEW m, NEW p, DataOK(m), DOMAIN p = Fields,
         p.heap = m.heap, p.globals = m.globals, p.scripts = m.scripts, p.methodDict = m.methodDict,
         p.sp \in Nat, DOMAIN p.stack = 1..MaxStack, \A i \in 1..MaxStack : Known(m, p.stack[i])
  PROVE  DataOK(p)
<1>1. HeapGrows(m, p)
  BY DEF HeapGrows
<1>2. HeapOK(p)
  BY <1>1, ObjectGrows DEF DataOK, HeapOK
<1>3. StackOK(p) /\ GlobalsOK(p) /\ ScriptsOK(p) /\ MethodDictOK(p)
  BY DEF DataOK, StackOK, GlobalsOK, ScriptsOK, ScriptOK, MethodDictOK, Known
<1> QED BY <1>2, <1>3 DEF DataOK

\* The five words that PushFrame pushes.
FramePushed(m, x, method, block, args, receiver) ==
  LET g == m.sp + 1 IN
  /\ SameBut(m, x, {"stack", "sp", "framePointer"}) /\ x.framePointer = g /\ x.sp = g + 4
  /\ DOMAIN x.stack = 1..MaxStack
  /\ \A i \in 1..MaxStack : i < g \/ g + 4 < i => x.stack[i] = m.stack[i]
  /\ x.stack[g] = Raw(m.framePointer) /\ x.stack[g + 1] = method
  /\ x.stack[g + 2] = encodeFrameMetaData(FALSE, block, args) /\ x.stack[g + 3] = nil
  /\ x.stack[g + 4] = receiver

\* PushFrame pushes those five words.
LEMMA PushFrameFields ==
  ASSUME NEW m, DOMAIN m = Fields, m.sp \in Nat, DOMAIN m.stack = 1..MaxStack, m.sp + 5 <= MaxStack,
         NEW method, NEW block, NEW args, NEW receiver
  PROVE  FramePushed(m, PushFrame(m, method, block, args, receiver), method, block, args, receiver)
<1> DEFINE x == PushFrame(m, method, block, args, receiver)
           g == m.sp + 1
           below == Push(m, Raw(m.framePointer))
           lifted == [below EXCEPT !.framePointer = below.sp]
           meta == encodeFrameMetaData(FALSE, block, args)
           fixed == <<method, meta, nil, receiver>>
<1>1. /\ SameBut(m, below, {"stack", "sp"}) /\ below.sp = g
      /\ below.stack = [m.stack EXCEPT ![g] = Raw(m.framePointer)]
  BY PushFields
<1>2. x = PushAll(lifted, fixed)
  BY DEF PushFrame
<1> HIDE DEF below
<1>3. /\ SameBut(m, lifted, {"stack", "sp", "framePointer"}) /\ lifted.sp = g /\ lifted.framePointer = g
      /\ lifted.stack = below.stack
  BY <1>1 DEF SameBut, Fields
<1> HIDE DEF lifted
<1>4. /\ SameBut(lifted, x, {"stack", "sp"})
      /\ x.stack = [i \in DOMAIN lifted.stack |-> IF i \in lifted.sp + 1..lifted.sp + Len(fixed)
                                                  THEN fixed[i - lifted.sp] ELSE lifted.stack[i]]
      /\ x.sp = lifted.sp + Len(fixed)
  <2>1. DOMAIN lifted = Fields
    BY <1>3 DEF SameBut
  <2> HIDE DEF fixed, x
  <2> QED BY <1>2, <2>1, PushAllFields
<1> HIDE DEF x
<1>5. /\ Len(fixed) = 4 /\ fixed[1] = method /\ fixed[2] = meta /\ fixed[3] = nil /\ fixed[4] = receiver
  OBVIOUS
<1> HIDE DEF fixed, meta
<1>6. g \in Nat /\ g + 4 <= MaxStack /\ 1 <= g /\ MaxStack \in Nat
  BY StackAssumption
<1>7. DOMAIN lifted.stack = 1..MaxStack /\ lifted.stack[g] = Raw(m.framePointer)
      /\ \A i \in 1..MaxStack : i # g => lifted.stack[i] = m.stack[i]
  <2> HIDE DEF g
  <2> QED BY <1>1, <1>3, <1>6
<1>8. /\ DOMAIN x.stack = 1..MaxStack
      /\ \A i \in 1..MaxStack : x.stack[i] = IF i \in g + 1..g + 4 THEN fixed[i - g] ELSE lifted.stack[i]
  BY <1>3, <1>4, <1>5, <1>7
<1>9. x.sp = g + 4 /\ x.framePointer = g /\ SameBut(m, x, {"stack", "sp", "framePointer"})
  BY <1>3, <1>4, <1>5 DEF SameBut, Fields
<1>10. /\ x.stack[g] = Raw(m.framePointer) /\ x.stack[g + 1] = method
       /\ x.stack[g + 2] = meta /\ x.stack[g + 3] = nil /\ x.stack[g + 4] = receiver
  <2> HIDE DEF g
  <2>1. \A i \in {1, 2, 3, 4} : g + i \in 1..MaxStack /\ g + i \in g + 1..g + 4 /\ g + i - g = i
    BY <1>6
  <2>2. ASSUME NEW i \in {1, 2, 3, 4} PROVE x.stack[g + i] = fixed[i]
    <3> DEFINE j == g + i
    <3>1. j \in 1..MaxStack /\ j \in g + 1..g + 4 /\ j - g = i
      <4>1. i \in 1..4
        OBVIOUS
      <4> QED BY <4>1, <1>6
    <3> HIDE DEF j
    <3>2. x.stack[j] = fixed[j - g]
      BY <1>8, <3>1, Zenon
    <3> QED BY <3>1, <3>2 DEF j
  <2>3. g \in 1..MaxStack /\ g \notin g + 1..g + 4
    BY <1>6
  <2>4. x.stack[g] = Raw(m.framePointer)
    BY <1>7, <1>8, <2>3
  <2> QED BY <1>5, <2>2, <2>4
<1>11. \A i \in 1..MaxStack : i < g \/ g + 4 < i => x.stack[i] = m.stack[i]
  <2> HIDE DEF g
  <2> QED BY <1>6, <1>7, <1>8
<1>12. FramePushed(m, x, method, block, args, receiver)
  BY <1>8, <1>9, <1>10, <1>11 DEF FramePushed, g, meta
<1> QED BY <1>12 DEF x

\* With its variables, that are so many.
FramedWith(m, q, method, block, args, receiver, count) ==
  Framed(m, q, method, block, args, receiver) /\ q.sp = m.sp + 6 + count /\ q.status = m.status

\* The frame that is pushed for a method, with or without variables of its
\* own, is such a frame.
LEMMA NewFrame ==
  ASSUME NEW m, Ready(m), m.sp + 6 <= MaxStack, NEW method, Known(m, method),
         NEW block \in BOOLEAN, NEW args \in 0..255, NEW receiver, Known(m, receiver)
  PROVE  /\ FramedWith(m, fetchFrameData(PushFrame(pushPC(m), method, block, args, receiver)),
                       method, block, args, receiver, 0)
         /\ fetchFrameData(PushFrame(pushPC(m), method, block, args, receiver)).pc = m.pc
         /\ \A locals : Len(locals) \in Nat /\ (\A i \in 1..Len(locals) : Known(m, locals[i])) =>
              FramedWith(m, fetchFrameData(PushAll(PushFrame(pushPC(m), method, block, args, receiver), locals)),
                         method, block, args, receiver, Len(locals))
<1> DEFINE pc == Raw(IF m.pc = 0 THEN 0 ELSE m.pc + 1)
           b == pushPC(m)
           x == PushFrame(b, method, block, args, receiver)
           g == m.sp + 2
           meta == encodeFrameMetaData(FALSE, block, args)
<1>1. /\ DOMAIN m = Fields /\ m.sp \in Nat /\ DOMAIN m.stack = 1..MaxStack /\ DataOK(m)
      /\ \A i \in 1..MaxStack : Known(m, m.stack[i])
  BY DEF Ready, DataOK, StackOK
<1>2. SameBut(m, b, {"stack", "sp"}) /\ b.stack = [m.stack EXCEPT ![m.sp + 1] = pc] /\ b.sp = m.sp + 1
  BY <1>1, PushFields DEF pushPC
<1> HIDE DEF b, pc
<1>3. /\ DOMAIN b = Fields /\ b.sp \in Nat /\ DOMAIN b.stack = 1..MaxStack /\ b.sp + 5 <= MaxStack
      /\ b.stack[m.sp + 1] = pc /\ \A i \in 1..MaxStack : i # m.sp + 1 => b.stack[i] = m.stack[i]
      /\ b.framePointer = m.framePointer
  <2>1. m.sp + 1 \in 1..MaxStack
    BY <1>1, StackAssumption
  <2>2. DOMAIN b = Fields /\ b.framePointer = m.framePointer
    BY <1>2 DEF SameBut, Fields
  <2>3. b.sp \in Nat /\ b.sp + 5 <= MaxStack
    BY <1>1, <1>2, StackAssumption
  <2>4. /\ DOMAIN b.stack = 1..MaxStack /\ b.stack[m.sp + 1] = pc
        /\ \A i \in 1..MaxStack : i # m.sp + 1 => b.stack[i] = m.stack[i]
    BY <1>1, <1>2, <2>1
  <2> QED BY <2>2, <2>3, <2>4
<1>4. /\ SameBut(b, x, {"stack", "sp", "framePointer"}) /\ x.framePointer = b.sp + 1 /\ x.sp = b.sp + 1 + 4
      /\ DOMAIN x.stack = 1..MaxStack
      /\ \A i \in 1..MaxStack : i < b.sp + 1 \/ b.sp + 1 + 4 < i => x.stack[i] = b.stack[i]
      /\ x.stack[b.sp + 1] = Raw(b.framePointer) /\ x.stack[b.sp + 1 + 1] = method
      /\ x.stack[b.sp + 1 + 2] = meta /\ x.stack[b.sp + 1 + 3] = nil /\ x.stack[b.sp + 1 + 4] = receiver
  <2>1. FramePushed(b, x, method, block, args, receiver)
    BY <1>3, PushFrameFields, Zenon
  <2> HIDE DEF x
  <2> QED BY <2>1 DEF FramePushed
<1>5. b.sp + 1 = g /\ g \in Nat /\ 2 <= g /\ g + 4 <= MaxStack /\ g - 1 = m.sp + 1 /\ MaxStack \in Nat
  BY <1>1, <1>2, StackAssumption
<1> HIDE DEF x
<1>6. /\ SameBut(m, x, {"stack", "sp", "framePointer"}) /\ x.framePointer = g /\ x.sp = g + 4
      /\ x.stack[g] = Raw(m.framePointer) /\ x.stack[g + 1] = method
      /\ x.stack[g + 2] = meta /\ x.stack[g + 3] = nil /\ x.stack[g + 4] = receiver
  <2>1. SameBut(m, x, {"stack", "sp", "framePointer"})
    BY <1>2, <1>4 DEF SameBut, Fields
  <2> HIDE DEF g, meta
  <2> QED BY <1>3, <1>4, <1>5, <2>1
<1>7. x.stack[g - 1] = pc /\ \A i \in 1..m.sp : x.stack[i] = m.stack[i]
  <2>1. g - 1 \in 1..MaxStack /\ g - 1 < b.sp + 1
    BY <1>1, <1>5
  <2>2. x.stack[g - 1] = pc
    <3> HIDE DEF g
    <3> QED BY <1>3, <1>4, <1>5, <2>1
  <2>3. \A i \in 1..m.sp : i \in 1..MaxStack /\ i < b.sp + 1 /\ i # m.sp + 1
    BY <1>1, <1>5
  <2> QED BY <1>3, <1>4, <2>2, <2>3
<1>8. Known(m, pc) /\ Known(m, meta) /\ Known(m, nil) /\ Known(m, Raw(m.framePointer))
  BY WordFields, Metadata DEF Known, pc
<1>9. \A i \in 1..MaxStack : Known(m, x.stack[i])
  <2> TAKE i \in 1..MaxStack
  <2>1. CASE i < g \/ g + 4 < i
    <3>1. x.stack[i] = b.stack[i]
      BY <2>1, <1>4, <1>5
    <3> QED BY <3>1, <1>1, <1>3, <1>8
  <2>2. CASE ~(i < g \/ g + 4 < i)
    <3>1. i \in {g, g + 1, g + 2, g + 3, g + 4}
      BY <2>2, <1>5
    <3> HIDE DEF g, meta
    <3> QED BY <3>1, <1>6, <1>8
  <2> QED BY <2>1, <2>2
<1>10. /\ x.heap = m.heap /\ x.globals = m.globals /\ x.scripts = m.scripts /\ x.methodDict = m.methodDict
       /\ x.nativeFailed = m.nativeFailed /\ x.pc = m.pc /\ x.status = m.status /\ DOMAIN x = Fields
  BY <1>6 DEF SameBut, Fields
<1>11. DataOK(x)
  <2>1. x.sp \in Nat
    BY <1>5, <1>6
  <2> QED BY <1>1, <1>4, <1>9, <1>10, <2>1, StackWritten
<1>12. ArgumentsIn(meta) = args /\ BlockIn(meta) = block
  BY Metadata
<1> HIDE DEF meta, g
<1>13. ASSUME NEW q, DataOK(q), q.heap = x.heap, q.scripts = x.scripts, q.nativeFailed = x.nativeFailed,
              q.framePointer = x.framePointer, x.sp <= q.sp, \A i \in 1..g + 4 : q.stack[i] = x.stack[i]
       PROVE  Framed(m, fetchFrameData(q), method, block, args, receiver)
  <2>1. q.framePointer # 0 /\ q.framePointer = g
    BY <1>5, <1>6, <1>13
  <2>2. LET p == fetchFrameData(q) IN
        /\ DataOK(p) /\ p.heap = q.heap /\ p.scripts = q.scripts /\ p.nativeFailed = q.nativeFailed
        /\ p.framePointer = q.framePointer /\ p.sp = q.sp /\ p.stack = q.stack
        /\ p.argumentCount = ArgumentsIn(q.stack[q.framePointer + 2])
        /\ p.isBlock = BlockIn(q.stack[q.framePointer + 2])
        /\ p.method = q.stack[q.framePointer + 1]
    BY <1>13, <2>1, FetchFrameReady
  <2>3. {g - 1, g, g + 1, g + 2, g + 4} \subseteq 1..g + 4
    BY <1>5
  <2>4. /\ q.stack[g - 1] = pc /\ q.stack[g] = Raw(m.framePointer) /\ q.stack[g + 1] = method
        /\ q.stack[g + 2] = meta /\ q.stack[g + 4] = receiver
    BY <1>6, <1>7, <1>13, <2>3
  <2>5. \A i \in 1..m.sp : i \in 1..g + 4
    BY <1>1, <1>5
  <2>6. \A i \in 1..m.sp : q.stack[i] = m.stack[i]
    BY <1>7, <1>13, <2>5
  <2>7. g = m.sp + 2
    BY DEF g
  <2>8. g + 4 <= q.sp
    BY <1>6, <1>13
  <2> QED BY <1>10, <1>12, <1>13, <2>1, <2>2, <2>4, <2>6, <2>7, <2>8 DEF Framed, meta, pc
<1>14. x.framePointer # 0 /\ x.sp = m.sp + 6
  <2>1. g = m.sp + 2
    BY DEF g
  <2> QED BY <1>1, <1>5, <1>6, <2>1
<1>15. /\ Framed(m, fetchFrameData(x), method, block, args, receiver)
       /\ fetchFrameData(x).sp = m.sp + 6 /\ fetchFrameData(x).pc = m.pc /\ fetchFrameData(x).status = m.status
  <2>1. fetchFrameData(x).sp = x.sp /\ fetchFrameData(x).pc = x.pc /\ fetchFrameData(x).status = x.status
    BY <1>11, <1>14, FetchFrameReady
  <2>2. x.sp <= x.sp
    BY <1>1, <1>14
  <2> QED BY <1>10, <1>11, <1>13, <1>14, <2>1, <2>2
<1>16. ASSUME NEW locals, Len(locals) \in Nat, \A i \in 1..Len(locals) : Known(m, locals[i])
       PROVE  LET q == fetchFrameData(PushAll(x, locals)) IN
              /\ Framed(m, q, method, block, args, receiver) /\ q.sp = m.sp + 6 + Len(locals)
              /\ q.status = m.status
  <2> DEFINE y == PushAll(x, locals)
  <2>1. /\ SameBut(x, y, {"stack", "sp"}) /\ y.sp = x.sp + Len(locals)
        /\ y.stack = [i \in DOMAIN x.stack |-> IF i \in x.sp + 1..x.sp + Len(locals)
                                               THEN locals[i - x.sp] ELSE x.stack[i]]
    BY <1>10 DEF PushAll, Fields, SameBut
  <2> HIDE DEF y
  <2>2. /\ DOMAIN y = Fields /\ y.heap = x.heap /\ y.scripts = x.scripts /\ y.nativeFailed = x.nativeFailed
        /\ y.framePointer = x.framePointer /\ y.globals = x.globals /\ y.methodDict = x.methodDict
        /\ y.status = x.status
    BY <2>1 DEF SameBut, Fields
  <2>3. x.sp \in Nat /\ y.sp \in Nat /\ x.sp <= y.sp /\ x.sp = g + 4
    BY <1>5, <1>6, <1>16, <2>1
  <2>4. ASSUME NEW i \in 1..MaxStack PROVE Known(m, y.stack[i])
    <3>1. CASE i \in x.sp + 1..x.sp + Len(locals)
      <4>1. i - x.sp \in 1..Len(locals)
        BY <3>1, <2>3, <1>16
      <4>2. y.stack[i] = locals[i - x.sp]
        BY <3>1, <2>1, <1>4
      <4> QED BY <4>1, <4>2, <1>16
    <3>2. CASE i \notin x.sp + 1..x.sp + Len(locals)
      <4>1. y.stack[i] = x.stack[i]
        BY <3>2, <2>1, <1>4
      <4> QED BY <4>1, <1>9
    <3> QED BY <3>1, <3>2
  <2>5. \A i \in 1..g + 4 : y.stack[i] = x.stack[i]
    <3>1. \A i \in 1..g + 4 : i \in 1..MaxStack /\ i \notin x.sp + 1..x.sp + Len(locals)
      BY <1>5, <2>3, <1>16
    <3> QED BY <3>1, <2>1, <1>4
  <2>6. DataOK(y)
    <3>1. \A i \in 1..MaxStack : Known(x, y.stack[i])
      BY <2>4, <1>10 DEF Known
    <3>2. DOMAIN y.stack = 1..MaxStack
      BY <2>1, <1>4
    <3> QED BY <1>11, <2>2, <2>3, <3>1, <3>2, StackWritten
  <2>7. Framed(m, fetchFrameData(y), method, block, args, receiver)
    BY <1>13, <2>2, <2>3, <2>5, <2>6
  <2>8. fetchFrameData(y).sp = y.sp /\ fetchFrameData(y).status = y.status
    BY <1>14, <2>2, <2>6, FetchFrameReady
  <2>9. y.sp = m.sp + 6 + Len(locals)
    BY <1>1, <1>14, <1>16, <2>1
  <2> QED BY <2>7, <2>8, <2>9, <2>2, <1>10 DEF y
<1>17. m.sp + 6 + 0 = m.sp + 6
  BY <1>1
<1> HIDE DEF Framed
<1> QED BY <1>15, <1>16, <1>17 DEF x, b, FramedWith

\* The frame that m is in can go on once a call with that many arguments returns.
Resumable(m, s, args) ==
  LET d == m.sp - args - (m.framePointer + 4) IN
  /\ args \in 0..255 /\ m.framePointer + 4 < m.sp - args
  /\ IF IsCompiled(m, m.framePointer) THEN m.pc \in Nat \ {0} /\ Reaches(m.method, m.pc + 1, d)
     ELSE m.pc = 0 /\ s \in DOMAIN m.scripts /\ d = ScriptOperands(m, m.framePointer, s)

\* A machine of n frames, and of that many scripts up to the last one.
Stacked(q, n, s) == \E G \in [1..n -> Nat], T \in [1..n -> Nat] : Layout(q, n, G, T) /\ T[n] = s

\* With such a frame the machine has one frame more, and one script more
\* when it is that of a native method.
LEMMA Called ==
  ASSUME NEW m, NEW n, NEW F, NEW S, Layout(m, n, F, S), m.sp + 6 <= MaxStack,
         NEW q, NEW method, NEW block \in BOOLEAN, NEW args, NEW receiver,
         Resumable(m, S[n], args), Framed(m, q, method, block, args, receiver),
         method.tag = "compiled" => method \in Methods /\ Fits(m, method, receiver)
  PROVE  /\ method.tag = "compiled" => Stacked(q, n + 1, S[n])
         /\ method.tag # "compiled" => Stacked(q, n + 1, S[n] + 1)
         /\ n + 1 \in Nat /\ n + 1 >= 2
         /\ Untouched(m, q) /\ Base(q, q.framePointer) = m.sp - args - 1
<1> DEFINE f == m.framePointer
           g == m.sp + 2
           meta == encodeFrameMetaData(FALSE, block, args)
           t == S[n] + IF method.tag = "compiled" THEN 0 ELSE 1
           G == [k \in 1..n + 1 |-> IF k = n + 1 THEN g ELSE F[k]]
           T == [k \in 1..n + 1 |-> IF k = n + 1 THEN t ELSE S[k]]
<1>1. /\ f = F[n] /\ f \in Nat /\ 3 <= f /\ f + 4 \in 1..MaxStack /\ m.sp \in Nat /\ f + 4 <= m.sp
      /\ n \in 1..n /\ n \in Nat \ {0} /\ FramesOK(m, n, F, S) /\ m.method = MethodAt(m, f)
      /\ m.argumentCount \in 0..255
  BY FrameRead
<1>2. DataOK(m) /\ ContextsOK(m, n, F) /\ Current(m, f) /\ MaxStack \in Nat
  BY <1>1, StackAssumption DEF Layout
<1>3. /\ args \in 0..255 /\ f + 4 < m.sp - args /\ g \in Nat /\ g + 4 <= MaxStack /\ f + 4 <= g - 3 - args
  BY <1>1, <1>2 DEF Resumable
<1>4. /\ DataOK(q) /\ q.heap = m.heap /\ q.scripts = m.scripts
      /\ q.framePointer = g /\ g + 4 <= q.sp
      /\ \A i \in 1..m.sp : q.stack[i] = m.stack[i]
      /\ q.stack[g - 1] = Raw(IF m.pc = 0 THEN 0 ELSE m.pc + 1) /\ q.stack[g] = Raw(m.framePointer)
      /\ q.stack[g + 1] = method /\ q.stack[g + 2] = meta /\ q.stack[g + 4] = receiver
      /\ q.argumentCount = args /\ q.isBlock = block /\ q.method = method
  BY DEF Framed
<1>5. ArgumentsIn(meta) = args /\ BlockIn(meta) = block /\ ~HasContextIn(meta) /\ meta.value \in Nat
  BY <1>3, Metadata
<1>6. MethodAt(q, g) = method /\ MetaAt(q, g) = meta /\ Base(q, g) = g - 3 - args
  BY <1>4, <1>5 DEF MethodAt, MetaAt, Base
<1>7. ASSUME NEW k \in 1..n PROVE F[k] \in Nat /\ 3 <= F[k] /\ F[k] + 4 <= f + 4 /\ FrameOK(m, F[k])
  <2>1. F[k] \in Nat /\ 3 <= F[k] /\ FrameOK(m, F[k])
    BY <1>1, FramePlaces DEF FramesOK
  <2>2. CASE k = n
    BY <2>1, <2>2, <1>1
  <2>3. CASE k # n
    <3>1. k \in 1..n - 1
      BY <2>3, <1>1
    <3>2. F[k] + 4 <= Base(m, F[n]) /\ Base(m, F[n]) = F[n] - 3 - ArgumentsIn(MetaAt(m, F[n]))
          /\ ArgumentsIn(MetaAt(m, F[n])) \in 0..255
      BY <1>1, <3>1, FramePlaces
    <3> QED BY <2>1, <3>2, <1>1
  <2> QED BY <2>2, <2>3
<1> HIDE DEF meta, f, g
<1>8. ASSUME NEW k \in 1..n PROVE SameFrame(m, q, F[k])
  <2> DEFINE e == F[k]
  <2>1. e \in Nat /\ 3 <= e /\ e + 4 <= f + 4
    BY <1>7
  <2> HIDE DEF e
  <2>2. \A i \in e - 1..e + 4 : i \in 1..m.sp
    BY <2>1, <1>1
  <2>3. \A i \in e - 1..e + 4 : q.stack[i] = m.stack[i]
    BY <2>2, <1>4
  <2>4. SameFrame(m, q, e)
    BY <2>1, <2>3 DEF SameFrame
  <2> QED BY <2>4 DEF e
<1>9. HeapGrows(m, q)
  BY <1>4 DEF HeapGrows
<1>10. ASSUME NEW k \in 1..n PROVE SameLinks(m, q, F[k]) /\ FrameOK(q, F[k])
  <2>1. FrameOK(m, F[k]) /\ SameFrame(m, q, F[k])
    BY <1>7, <1>8
  <2>2. F[k] + 4 \in 1..MaxStack
    BY <1>1, <1>2, <1>7
  <2>3. Known(m, m.stack[F[k] + 4])
    BY <2>2, <1>2 DEF DataOK, StackOK
  <2>4. \A i : Married(m, i, F[k]) => q.heap[i] = m.heap[i]
    BY <1>4
  <2> QED BY <2>1, <2>3, <2>4, <1>9, FrameSame, SameFrameLinks
<1>11. FramesOK(q, n, F, S)
  BY <1>1, <1>4, <1>10, FramesSame
<1>12. FrameOK(q, g)
  <2>1. method.tag = "compiled" => Fits(q, method, receiver)
    BY <1>4 DEF Fits
  <2> QED BY <2>1, <1>3, <1>4, <1>5, <1>6 DEF FrameOK, IsCompiled, ReceiverOffset
<1>13. /\ \A k \in 1..n : G[k] = F[k] /\ T[k] = S[k]
       /\ G[n + 1] = g /\ T[n + 1] = t /\ n + 1 \in Nat /\ n + 1 >= 2
       /\ F \in [1..n -> Nat] /\ S \in [1..n -> Nat]
  <2>1. n + 1 \in 1..n + 1 /\ n + 1 \in Nat /\ n + 1 >= 2 /\ \A k \in 1..n : k \in 1..n + 1 /\ k # n + 1
    BY <1>1
  <2>2. F \in [1..n -> Nat] /\ S \in [1..n -> Nat]
    BY <1>1 DEF FramesOK
  <2> QED BY <2>1, <2>2
<1>14. G \in [1..n + 1 -> Nat] /\ T \in [1..n + 1 -> Nat]
  <2>1. \A k \in 1..n + 1 : k = n + 1 \/ k \in 1..n
    BY <1>1
  <2>2. S[n] \in Nat
    BY <1>1, <1>13
  <2>3. t \in Nat
    BY <2>2
  <2> HIDE DEF t
  <2> QED BY <1>3, <1>13, <2>1, <2>3
<1>15. Resumes(q, f, g, S[n])
  <2>1. MethodAt(q, f) = MethodAt(m, f) /\ IsCompiled(q, f) = IsCompiled(m, f)
    BY <1>1, <1>8 DEF SameFrame, MethodAt, IsCompiled
  <2>2. (Base(q, g) + 1) - (f + ReceiverOffset) = m.sp - args - (f + 4)
    BY <1>1, <1>3, <1>6 DEF ReceiverOffset, g
  <2>3. q.stack[g - 1].tag = "raw" /\ q.stack[g - 1].value = IF m.pc = 0 THEN 0 ELSE m.pc + 1
    BY <1>4, WordFields
  <2>4. q.stack[g] = Raw(f)
    BY <1>4 DEF f
  <2>5. CASE IsCompiled(m, f)
    <3>1. m.pc \in Nat \ {0} /\ Reaches(MethodAt(q, f), m.pc + 1, m.sp - args - (f + 4))
      BY <2>1, <2>5, <1>1 DEF Resumable, f
    <3>2. q.stack[g - 1].value = m.pc + 1 /\ m.pc + 1 # 0
      BY <2>3, <3>1
    <3> QED BY <2>1, <2>2, <2>3, <2>4, <2>5, <3>1, <3>2 DEF Resumes
  <2>6. CASE ~IsCompiled(m, f)
    <3>1. m.pc = 0 /\ S[n] \in DOMAIN q.scripts /\ m.sp - args - (f + 4) = ScriptOperands(q, f, S[n])
      BY <2>6, <1>4 DEF Resumable, f, ScriptOperands
    <3> QED BY <2>1, <2>2, <2>3, <2>4, <2>6, <3>1 DEF Resumes
  <2> QED BY <2>5, <2>6
<1>16. FramesOK(q, n + 1, G, T)
  <2>1. G[1] = 3 /\ q.stack[3] = Raw(0) /\ ~IsCompiled(q, 3) /\ T[1] = 1 /\ ArgumentsIn(MetaAt(q, 3)) = 0
    BY <1>1, <1>11, <1>13 DEF FramesOK
  <2>2. ASSUME NEW k \in 1..n + 1 PROVE FrameOK(q, G[k])
    <3>1. k = n + 1 \/ k \in 1..n
      BY <1>1
    <3> QED BY <3>1, <1>10, <1>12, <1>13
  <2>3. ASSUME NEW k \in 2..n + 1
        PROVE  /\ Resumes(q, G[k - 1], G[k], T[k - 1])
               /\ T[k] = T[k - 1] + IF IsCompiled(q, G[k]) THEN 0 ELSE 1
    <3>1. CASE k = n + 1
      <4>1. k - 1 = n
        BY <3>1, <1>1
      <4>2. IsCompiled(q, g) = (method.tag = "compiled")
        BY <1>6 DEF IsCompiled
      <4>3. G[k] = g /\ T[k] = t /\ G[k - 1] = f /\ T[k - 1] = S[n]
        BY <3>1, <4>1, <1>1, <1>13
      <4> HIDE DEF G, T
      <4> QED BY <4>2, <4>3, <1>15
    <3>2. CASE k # n + 1
      <4>1. k \in 2..n /\ k - 1 \in 1..n /\ k \in 1..n
        BY <3>2, <1>1
      <4>2. Resumes(q, F[k - 1], F[k], S[k - 1]) /\ S[k] = S[k - 1] + IF IsCompiled(q, F[k]) THEN 0 ELSE 1
        BY <4>1, <1>11 DEF FramesOK
      <4>3. G[k] = F[k] /\ T[k] = S[k] /\ G[k - 1] = F[k - 1] /\ T[k - 1] = S[k - 1]
        BY <4>1, <1>13
      <4> HIDE DEF G, T
      <4> QED BY <4>2, <4>3
    <3> QED BY <3>1, <3>2
  <2>4. ASSUME NEW k \in 1..n + 1, NEW j \in 1..k - 1
        PROVE  /\ G[j] + ReceiverOffset <= Base(q, G[k]) /\ T[j] <= T[k]
               /\ ~IsCompiled(q, G[k]) => T[j] < T[k]
    <3>1. CASE k = n + 1
      <4>1. j \in 1..n /\ G[j] = F[j] /\ T[j] = S[j] /\ G[k] = g /\ T[k] = t
        BY <3>1, <1>1, <1>13
      <4>2. F[j] + 4 <= f + 4 /\ F[j] \in Nat
        BY <4>1, <1>7
      <4>3. F[j] + ReceiverOffset <= Base(q, g)
        BY <4>2, <1>1, <1>3, <1>6 DEF ReceiverOffset
      <4>4. S[j] \in Nat /\ S[n] \in Nat /\ S[j] <= S[n]
        <5>1. CASE j = n
          BY <5>1, <4>1, <1>13
        <5>2. CASE j # n
          <6>1. j \in 1..n - 1
            BY <5>2, <4>1, <1>1
          <6>2. S[j] <= S[n]
            BY <6>1, <1>1 DEF FramesOK
          <6> QED BY <6>2, <4>1, <1>1, <1>13
        <5> QED BY <5>1, <5>2
      <4>5. method.tag = "compiled" => IsCompiled(q, g)
        BY <1>6 DEF IsCompiled
      <4>6. S[j] <= t /\ (~IsCompiled(q, g) => S[j] < t)
        <5>1. CASE method.tag = "compiled"
          BY <5>1, <4>4, <4>5
        <5>2. CASE method.tag # "compiled"
          BY <5>2, <4>4
        <5> QED BY <5>1, <5>2
      <4> HIDE DEF G, T, t
      <4> QED BY <4>1, <4>3, <4>6
    <3>2. CASE k # n + 1
      <4>1. k \in 1..n /\ j \in 1..n /\ j \in 1..k - 1
        BY <3>2, <1>1
      <4>2. F[j] + ReceiverOffset <= Base(q, F[k]) /\ S[j] <= S[k] /\ (~IsCompiled(q, F[k]) => S[j] < S[k])
        BY <4>1, <1>11 DEF FramesOK
      <4>3. G[k] = F[k] /\ T[k] = S[k] /\ G[j] = F[j] /\ T[j] = S[j]
        BY <4>1, <1>13
      <4> HIDE DEF G, T
      <4> QED BY <4>2, <4>3
    <3> QED BY <3>1, <3>2
  <2> HIDE DEF G, T
  <2> QED BY <1>13, <1>14, <2>1, <2>2, <2>3, <2>4 DEF FramesOK
<1>17. ContextsOK(q, n + 1, G)
  <2> SUFFICES ASSUME NEW i \in DOMAIN q.heap, q.heap[i].class = "Context", q.heap[i].slots[1].tag = "raw"
               PROVE  \E k \in 1..n + 1 : /\ q.heap[i].slots[1].value = G[k] + 1 /\ q.stack[G[k] + 3] = Pointer(i)
                                          /\ HasContextIn(MetaAt(q, G[k]))
    BY DEF ContextsOK
  <2>1. PICK k \in 1..n : /\ m.heap[i].slots[1].value = F[k] + 1 /\ m.stack[F[k] + 3] = Pointer(i)
                          /\ HasContextIn(MetaAt(m, F[k]))
    BY <1>2, <1>4 DEF ContextsOK
  <2>2. q.stack[F[k] + 3] = m.stack[F[k] + 3] /\ MetaAt(q, F[k]) = MetaAt(m, F[k])
    BY <1>8 DEF SameFrame, MetaAt
  <2>3. k \in 1..n + 1 /\ G[k] = F[k]
    BY <1>1, <1>13
  <2> HIDE DEF G
  <2> QED BY <2>1, <2>2, <2>3, <1>4
<1>18. Current(q, g)
  BY <1>4, <1>5, <1>6 DEF Current, ReceiverOffset
<1>19. Layout(q, n + 1, G, T)
  <2> HIDE DEF G, T
  <2> QED BY <1>4, <1>13, <1>16, <1>17, <1>18 DEF Layout
<1>20. Untouched(m, q)
  <2>1. \A i \in 1..m.framePointer - 3 - m.argumentCount : i \in 1..m.sp
    BY <1>1 DEF f
  <2> QED BY <2>1, <1>4 DEF Untouched
<1>21. Base(q, q.framePointer) = m.sp - args - 1
  BY <1>1, <1>3, <1>4, <1>6 DEF g
<1> HIDE DEF G, T
<1>22. T[n + 1] = t
  BY <1>13
<1>23. /\ method.tag = "compiled" => T[n + 1] = S[n]
       /\ method.tag # "compiled" => T[n + 1] = S[n] + 1
  <2>1. S[n] \in Nat
    BY <1>1, FrameRead DEF FramesOK
  <2> HIDE DEF G, T
  <2> QED BY <1>22, <2>1 DEF t
<1> HIDE DEF G, T
<1>24. /\ method.tag = "compiled" => Stacked(q, n + 1, S[n])
       /\ method.tag # "compiled" => Stacked(q, n + 1, S[n] + 1)
  BY <1>14, <1>19, <1>23 DEF Stacked
<1> QED BY <1>13, <1>20, <1>21, <1>24

(***************************************************************************)
(* Returning: a frame less.                                                *)
(***************************************************************************)
Cut(F, n) == [k \in 1..n - 1 |-> F[k]]

\* The frames without the last one are frames.
LEMMA Truncated ==
  ASSUME NEW m, NEW n, NEW F, NEW S, FramesOK(m, n, F, S), n >= 2
  PROVE  LET G == Cut(F, n)
             T == Cut(S, n) IN
         /\ FramesOK(m, n - 1, G, T) /\ G[n - 1] = F[n - 1] /\ T[n - 1] = S[n - 1]
         /\ n - 1 \in Nat \ {0} /\ G \in [1..n - 1 -> Nat] /\ T \in [1..n - 1 -> Nat]
<1> DEFINE G == Cut(F, n)
           T == Cut(S, n)
<1>1. n \in Nat /\ n - 1 \in Nat \ {0} /\ n - 1 \in 1..n - 1 /\ 1 \in 1..n - 1
  BY DEF FramesOK
<1>2. \A k \in 1..n - 1 : G[k] = F[k] /\ T[k] = S[k] /\ k \in 1..n /\ F[k] \in Nat /\ S[k] \in Nat
  BY <1>1 DEF FramesOK, Cut
<1>3. G \in [1..n - 1 -> Nat] /\ T \in [1..n - 1 -> Nat]
  BY <1>2 DEF Cut
<1> HIDE DEF G, T
<1>4. G[1] = 3 /\ m.stack[3] = Raw(0) /\ ~IsCompiled(m, 3) /\ T[1] = 1 /\ ArgumentsIn(MetaAt(m, 3)) = 0
  BY <1>1, <1>2 DEF FramesOK
<1>5. \A k \in 1..n - 1 : FrameOK(m, G[k])
  BY <1>2 DEF FramesOK
<1>6. ASSUME NEW k \in 2..n - 1
      PROVE  /\ Resumes(m, G[k - 1], G[k], T[k - 1])
             /\ T[k] = T[k - 1] + IF IsCompiled(m, G[k]) THEN 0 ELSE 1
  <2>1. k \in 2..n /\ k \in 1..n - 1 /\ k - 1 \in 1..n - 1
    BY <1>1
  <2>2. /\ Resumes(m, F[k - 1], F[k], S[k - 1])
        /\ S[k] = S[k - 1] + IF IsCompiled(m, F[k]) THEN 0 ELSE 1
    BY <2>1 DEF FramesOK
  <2> QED BY <2>1, <2>2, <1>2
<1>7. ASSUME NEW k \in 1..n - 1, NEW j \in 1..k - 1
      PROVE  /\ G[j] + ReceiverOffset <= Base(m, G[k]) /\ T[j] <= T[k]
             /\ ~IsCompiled(m, G[k]) => T[j] < T[k]
  <2>1. k \in 1..n /\ j \in 1..n - 1
    BY <1>1
  <2>2. /\ F[j] + ReceiverOffset <= Base(m, F[k]) /\ S[j] <= S[k]
        /\ ~IsCompiled(m, F[k]) => S[j] < S[k]
    BY <2>1 DEF FramesOK
  <2> QED BY <2>1, <2>2, <1>2
<1>8. FramesOK(m, n - 1, G, T)
  BY <1>1, <1>3, <1>4, <1>5, <1>6, <1>7 DEF FramesOK
<1> QED BY <1>1, <1>2, <1>3, <1>8 DEF G, T

\* The context of a frame that returns no longer points at it.
Widowed(m) == IF HasContextIn(m.stack[m.framePointer + 2]) THEN widowContext(m, ThisContext(m)) ELSE m

\* Without the context of the last frame, the contexts are those of the
\* other frames.
LEMMA WidowKeeps ==
  ASSUME NEW m, NEW n, NEW F, NEW S, Layout(m, n, F, S)
  PROVE  LET w == Widowed(m) IN
         /\ SameBut(m, w, {"heap"}) /\ HeapGrows(m, w) /\ HeapOK(w)
         /\ \A k \in 1..n - 1 : \A i : Married(m, i, F[k]) => w.heap[i] = m.heap[i]
         /\ \A i \in DOMAIN w.heap : w.heap[i].class = "Context" /\ w.heap[i].slots[1].tag = "raw" =>
              \E k \in 1..n - 1 : /\ w.heap[i].slots[1].value = F[k] + 1 /\ m.stack[F[k] + 3] = Pointer(i)
                                  /\ HasContextIn(MetaAt(m, F[k]))
<1> DEFINE w == Widowed(m)
           fp == m.framePointer
<1>1. /\ fp = F[n] /\ FrameOK(m, fp) /\ n \in 1..n /\ n \in Nat \ {0} /\ DOMAIN m = Fields /\ FramesOK(m, n, F, S)
      /\ fp \in Nat
  BY FrameRead
<1>2. HeapOK(m) /\ ContextsOK(m, n, F)
  BY DEF Layout, DataOK
<1>3. MetaAt(m, fp) = m.stack[fp + 2]
  BY DEF MetaAt
<1>4. CASE ~HasContextIn(m.stack[fp + 2])
  <2>1. w = m
    BY <1>4 DEF Widowed
  <2>2. SameBut(m, m, {"heap"}) /\ HeapGrows(m, m)
    BY <1>1 DEF SameBut, HeapGrows
  <2>3. ASSUME NEW i \in DOMAIN m.heap, m.heap[i].class = "Context", m.heap[i].slots[1].tag = "raw"
        PROVE  \E k \in 1..n - 1 : /\ m.heap[i].slots[1].value = F[k] + 1 /\ m.stack[F[k] + 3] = Pointer(i)
                                   /\ HasContextIn(MetaAt(m, F[k]))
    <3>1. PICK k \in 1..n : /\ m.heap[i].slots[1].value = F[k] + 1 /\ m.stack[F[k] + 3] = Pointer(i)
                            /\ HasContextIn(MetaAt(m, F[k]))
      BY <2>3, <1>2 DEF ContextsOK
    <3>2. k # n
      BY <3>1, <1>1, <1>3, <1>4
    <3>3. k \in 1..n - 1
      BY <3>2, <1>1
    <3> QED BY <3>1, <3>3
  <2> HIDE DEF w
  <2> QED BY <2>1, <2>2, <2>3, <1>2 DEF w
<1>5. CASE HasContextIn(m.stack[fp + 2])
  <2> DEFINE c == m.stack[fp + 3].value
             old == m.heap[c]
             new == [old EXCEPT !.slots = [@ EXCEPT ![1] = nil, ![2] = nil, ![3] = encodeSmallInteger(0)]]
  <2>1. m.stack[fp + 3] = Pointer(c) /\ Married(m, c, fp)
    BY <1>1, <1>3, <1>5 DEF FrameOK
  <2>2. c \in DOMAIN m.heap /\ old.class = "Context" /\ ObjectOK(m, old) /\ old.slots[1] = Raw(fp + 1)
    BY <2>1, <1>2 DEF Married, HeapOK
  <2>3. /\ SameBut(m, w, {"heap"})
        /\ w.heap = [m.heap EXCEPT ![c].slots = [@ EXCEPT ![1] = nil, ![2] = nil, ![3] = encodeSmallInteger(0)]]
    BY <1>1, <1>5 DEF Widowed, widowContext, ThisContext, SameBut, Fields
  <2>4. w.heap = [m.heap EXCEPT ![c] = new]
    BY <2>3
  <2>5. DOMAIN old = {"class", "slots", "elements"} /\ DOMAIN old.slots = 1..7
        /\ \A i \in 1..7 : Known(m, old.slots[i])
    BY <2>2 DEF ObjectOK
  <2>6. /\ DOMAIN new = DOMAIN old /\ new.class = old.class /\ new.elements = old.elements
        /\ new.slots = [old.slots EXCEPT ![1] = nil, ![2] = nil, ![3] = encodeSmallInteger(0)]
    BY <2>5
  <2> HIDE DEF w, new
  <2>7. /\ DOMAIN new.slots = 1..7 /\ new.slots[1] = nil /\ new.slots[4] = old.slots[4]
        /\ new.slots[6] = old.slots[6]
    <3> HIDE DEF old
    <3>1. DOMAIN new.slots = 1..7
      BY <2>5, <2>6
    <3>2. new.slots[4] = old.slots[4] /\ new.slots[6] = old.slots[6]
      BY <2>5, <2>6
    <3>3. new.slots[1] = nil
      BY <2>5, <2>6
    <3> QED BY <3>1, <3>2, <3>3
  <2>8. \A i \in 1..7 : Known(m, new.slots[i])
    <3>1. Known(m, nil) /\ Known(m, encodeSmallInteger(0))
      BY WordFields DEF Known
    <3>2. ASSUME NEW i \in 1..7
          PROVE  new.slots[i] = nil \/ new.slots[i] = encodeSmallInteger(0) \/ new.slots[i] = old.slots[i]
      <4> HIDE DEF old
      <4>1. i \in DOMAIN old.slots /\ i \in Int
        BY <2>5
      <4>2. new.slots[i] = IF i = 3 THEN encodeSmallInteger(0)
                           ELSE IF i = 2 THEN nil ELSE IF i = 1 THEN nil ELSE old.slots[i]
        BY <2>6, <4>1
      <4> QED BY <4>2
    <3> QED BY <3>1, <3>2, <2>5
  <2>9. ObjectOK(m, new)
    <3>1. IsSequence(old.elements) /\ \A i \in DOMAIN old.elements : Known(m, old.elements[i])
      BY <2>2 DEF ObjectOK
    <3>2. new.class = "Context"
      BY <2>2, <2>6
    <3> QED BY <3>1, <3>2, <2>5, <2>6, <2>7, <2>8 DEF ObjectOK
  <2> HIDE DEF old, c
  <2>10. /\ HeapGrows(m, w) /\ HeapOK(w) /\ DOMAIN w.heap = DOMAIN m.heap
         /\ \A i \in DOMAIN m.heap : w.heap[i] = IF i = c THEN new ELSE m.heap[i]
    <3>1. new.class = m.heap[c].class /\ new.slots[4] = m.heap[c].slots[4] /\ new.slots[6] = m.heap[c].slots[6]
      BY <2>6, <2>7 DEF old
    <3> QED BY <3>1, <2>2, <2>4, <2>9, <1>2, HeapWrite
  <2>11. ASSUME NEW k \in 1..n - 1, NEW i, Married(m, i, F[k]) PROVE w.heap[i] = m.heap[i]
    <3>1. F[k] # fp
      <4>1. F[k] + 4 <= Base(m, F[n]) /\ Base(m, F[n]) <= F[n] - 3 /\ F[k] \in Nat
        BY <1>1, FramePlaces
      <4>2. Base(m, F[n]) \in Int
        <5>1. ArgumentsIn(MetaAt(m, F[n])) \in 0..255
          BY <1>1, FramePlaces
        <5> QED BY <5>1, <1>1 DEF Base
      <4> QED BY <4>1, <4>2, <1>1
    <3>2. i \in DOMAIN m.heap /\ m.heap[i].slots[1] = Raw(F[k] + 1)
      BY <2>11 DEF Married
    <3>3. i # c
      <4>1. F[k] \in Nat
        BY <1>1, FramePlaces
      <4>2. Raw(F[k] + 1).value # Raw(fp + 1).value
        BY <3>1, <4>1, <1>1, WordFields
      <4> QED BY <4>2, <3>2, <2>2 DEF old
    <3> QED BY <3>2, <3>3, <2>10
  <2>12. ASSUME NEW i \in DOMAIN w.heap, w.heap[i].class = "Context", w.heap[i].slots[1].tag = "raw"
         PROVE  \E k \in 1..n - 1 : /\ w.heap[i].slots[1].value = F[k] + 1 /\ m.stack[F[k] + 3] = Pointer(i)
                                    /\ HasContextIn(MetaAt(m, F[k]))
    <3>1. i # c
      BY <2>7, <2>10, <2>12, WordFields
    <3>2. i \in DOMAIN m.heap /\ w.heap[i] = m.heap[i]
      BY <3>1, <2>10
    <3>3. PICK k \in 1..n : /\ m.heap[i].slots[1].value = F[k] + 1 /\ m.stack[F[k] + 3] = Pointer(i)
                            /\ HasContextIn(MetaAt(m, F[k]))
      BY <2>12, <3>2, <1>2 DEF ContextsOK
    <3>4. k # n
      <4>1. Pointer(i).value # Pointer(c).value
        BY <3>1, WordFields
      <4> QED BY <4>1, <3>3, <2>1, <1>1
    <3>5. k \in 1..n - 1
      BY <3>4, <1>1
    <3> QED BY <3>2, <3>3, <3>5
  <2> QED BY <2>3, <2>10, <2>11, <2>12 DEF w
<1> QED BY <1>4, <1>5

\* The scripts that run below the frame, which is that of a script of its own
\* unless it is one of a method.
Serves(m, s) == s = Len(m.scripts) + IF IsCompiled(m, m.framePointer) THEN 0 ELSE 1

\* The frame returns a value to the one that called it.
LEMMA Returned ==
  ASSUME Verified, NEW m, NEW n, NEW F, NEW S, Layout(m, n, F, S), n >= 2, m.status = "running",
         NEW value, Known(m, value),
         Serves(m, S[n]),
         localReturnValue(m, value).status = "running"
  PROVE  LET r == localReturnValue(m, value) IN
         /\ Settled(r) /\ r.sp = Base(m, m.framePointer) + 1
         /\ \A i \in 1..Base(m, m.framePointer) : r.stack[i] = m.stack[i]
         /\ r.nativeFailed = m.nativeFailed /\ r.primitiveHasFailed = m.primitiveHasFailed
         /\ r.scripts = m.scripts
<1> DEFINE fp == m.framePointer
           f == F[n - 1]
           base == Base(m, fp)
           pc == m.stack[fp - 1].value
           w == Widowed(m)
           left == [w EXCEPT !.sp = fp - 2 - (m.argumentCount + 1), !.framePointer = m.stack[fp].value]
           pushed == Push(left, value)
           x == fetchFrameData(pushed)
           r == localReturnValue(m, value)
           G == Cut(F, n)
           T == Cut(S, n)
<1>1. /\ fp = F[n] /\ FrameOK(m, fp) /\ fp + 4 \in 1..MaxStack /\ 3 <= fp /\ fp \in Nat
      /\ m.argumentCount = ArgumentsIn(MetaAt(m, fp)) /\ m.argumentCount \in 0..255
      /\ n \in 1..n /\ n \in Nat \ {0} /\ FramesOK(m, n, F, S) /\ DOMAIN m = Fields
      /\ DOMAIN m.stack = 1..MaxStack
  BY FrameRead
<1>2. DataOK(m) /\ ContextsOK(m, n, F) /\ MaxStack \in Nat
  BY StackAssumption DEF Layout
<1>3. /\ n - 1 \in 1..n - 1 /\ n - 1 \in 1..n /\ n \in 2..n
      /\ f \in Nat /\ 3 <= f /\ f + 4 <= base /\ base = fp - 3 - m.argumentCount /\ 7 <= base
      /\ base \in Nat
  <2>1. n - 1 \in 1..n - 1 /\ n - 1 \in 1..n /\ n \in 2..n
    BY <1>1
  <2>2. f \in Nat /\ 3 <= f /\ f + 4 <= base /\ 7 <= base /\ base = fp - 3 - m.argumentCount
    BY <1>1, <2>1, FramePlaces DEF Base
  <2> HIDE DEF base, fp, f
  <2> QED BY <1>1, <2>1, <2>2
<1>33. /\ fp \in Nat /\ fp + 4 <= MaxStack /\ MaxStack \in Nat /\ m.argumentCount \in 0..255
       /\ base = fp - 3 - m.argumentCount /\ base \in Nat /\ 7 <= base /\ f \in Nat /\ f + 4 <= base
  <2> HIDE DEF base, fp, f
  <2>1. fp + 4 \in 1..MaxStack
    BY <1>1
  <2>2. fp + 4 <= MaxStack
    BY <2>1, <1>2
  <2> QED BY <2>2, <1>1, <1>2, <1>3
<1>4. /\ Resumes(m, f, fp, S[n - 1]) /\ S[n] = S[n - 1] + IF IsCompiled(m, fp) THEN 0 ELSE 1
  BY <1>1, <1>3 DEF FramesOK
<1>5. m.stack[fp] = Raw(f) /\ m.stack[fp - 1].tag = "raw" /\ m.stack[fp].value = f /\ m.stack[fp].tag = "raw"
  BY <1>4, WordFields DEF Resumes
<1>6. r = FetchAt(x, pc)
  <2>1. ~(fp < 3 \/ m.stack[fp].tag # "raw" \/ m.stack[fp - 1].tag # "raw") /\ m.stack[fp].value # 0
    BY <1>1, <1>3, <1>5
  <2> QED BY <2>1 DEF localReturnValue, Widowed
<1>7. /\ SameBut(m, w, {"heap"}) /\ HeapGrows(m, w) /\ HeapOK(w)
      /\ \A k \in 1..n - 1 : \A i : Married(m, i, F[k]) => w.heap[i] = m.heap[i]
      /\ \A i \in DOMAIN w.heap : w.heap[i].class = "Context" /\ w.heap[i].slots[1].tag = "raw" =>
           \E k \in 1..n - 1 : /\ w.heap[i].slots[1].value = F[k] + 1 /\ m.stack[F[k] + 3] = Pointer(i)
                               /\ HasContextIn(MetaAt(m, F[k]))
  BY WidowKeeps
<1> HIDE DEF r, x, w
<1>8. /\ SameBut(w, left, {"sp", "framePointer"}) /\ left.sp = base /\ left.framePointer = f
  <2> HIDE DEF base, fp, f
  <2>1. fp - 2 - (m.argumentCount + 1) = base
    BY <1>33
  <2> QED BY <1>5, <1>7, <2>1 DEF SameBut, Fields
<1> HIDE DEF left
<1>9. /\ SameBut(left, pushed, {"stack", "sp"}) /\ pushed.sp = base + 1
      /\ pushed.stack = [left.stack EXCEPT ![base + 1] = value]
  <2>1. DOMAIN left = Fields
    BY <1>8 DEF SameBut
  <2> QED BY <1>8, <2>1, PushFields
<1> HIDE DEF pushed
<1>10. /\ DOMAIN pushed = Fields /\ pushed.heap = w.heap /\ pushed.globals = m.globals
       /\ pushed.scripts = m.scripts /\ pushed.methodDict = m.methodDict /\ pushed.framePointer = f
       /\ pushed.stack = [m.stack EXCEPT ![base + 1] = value]
       /\ pushed.nativeFailed = m.nativeFailed /\ pushed.primitiveHasFailed = m.primitiveHasFailed
       /\ pushed.status = "running"
  BY <1>7, <1>8, <1>9 DEF SameBut, Fields
<1> HIDE DEF base, fp, f
<1>11. /\ DOMAIN pushed.stack = 1..MaxStack /\ pushed.stack[base + 1] = value
       /\ \A i \in 1..MaxStack : i # base + 1 => pushed.stack[i] = m.stack[i]
  <2>1. base + 1 \in 1..MaxStack
    BY <1>33
  <2> QED BY <2>1, <1>1, <1>10
<1>12. DataOK(pushed)
  <2>1. \A oop : Known(m, oop) => Known(pushed, oop)
    <3>1. \A oop : Known(w, oop) = Known(pushed, oop)
      BY <1>10 DEF Known
    <3> QED BY <3>1, <1>7, KnownGrows
  <2>2. StackOK(pushed)
    BY <1>2, <1>11, <2>1 DEF DataOK, StackOK
  <2>3. HeapOK(pushed)
    <3>1. HeapGrows(w, pushed)
      BY <1>10 DEF HeapGrows
    <3> QED BY <3>1, <1>7, <1>10, ObjectGrows DEF HeapOK
  <2>4. GlobalsOK(pushed) /\ ScriptsOK(pushed) /\ MethodDictOK(pushed)
    BY <1>2, <1>10, <2>1 DEF DataOK, GlobalsOK, ScriptsOK, ScriptOK, MethodDictOK
  <2> QED BY <1>3, <1>9, <1>10, <2>2, <2>3, <2>4 DEF DataOK
<1>13. /\ DataOK(x) /\ x.heap = w.heap /\ x.scripts = m.scripts /\ x.nativeFailed = m.nativeFailed
       /\ x.framePointer = f /\ x.sp = base + 1 /\ x.stack = pushed.stack /\ x.status = "running"
       /\ x.primitiveHasFailed = m.primitiveHasFailed
       /\ x.argumentCount = ArgumentsIn(MetaAt(pushed, f)) /\ x.isBlock = BlockIn(MetaAt(pushed, f))
       /\ x.method = MethodAt(pushed, f)
  <2>1. pushed.framePointer # 0
    BY <1>3, <1>10
  <2> QED BY <2>1, <1>9, <1>10, <1>12, FetchFrameReady DEF x, MetaAt, MethodAt
<1>14. ASSUME NEW k \in 1..n - 1 PROVE SameFrame(m, x, F[k])
  <2> DEFINE e == F[k]
  <2>1. e \in Nat /\ 3 <= e /\ e + 4 <= base
    BY <1>1, FramePlaces DEF base, fp
  <2> HIDE DEF e
  <2>3. base + 4 <= MaxStack
    BY <1>33
  <2>2. \A i \in e - 1..e + 4 : i \in 1..MaxStack /\ i # base + 1
    BY <2>1, <2>3, <1>2, <1>3
  <2>4. \A i \in e - 1..e + 4 : x.stack[i] = m.stack[i]
    BY <2>2, <1>11, <1>13
  <2>5. SameFrame(m, x, e)
    BY <2>1, <2>4 DEF SameFrame
  <2> QED BY <2>5 DEF e
<1>15. HeapGrows(m, x)
  BY <1>7, <1>13 DEF HeapGrows
<1>16. /\ FramesOK(m, n - 1, G, T) /\ G[n - 1] = F[n - 1] /\ T[n - 1] = S[n - 1]
       /\ n - 1 \in Nat \ {0} /\ G \in [1..n - 1 -> Nat] /\ T \in [1..n - 1 -> Nat]
  BY <1>1, Truncated, Zenon
<1>17. \A k \in 1..n - 1 : G[k] = F[k]
  BY DEF Cut
<1> HIDE DEF G, T
<1>18. ASSUME NEW k \in 1..n - 1 PROVE SameLinks(m, x, G[k]) /\ FrameOK(x, G[k])
  <2>1. FrameOK(m, F[k]) /\ SameFrame(m, x, F[k]) /\ F[k] \in Nat /\ F[k] + 4 <= MaxStack
    <3>1. k \in 1..n
      BY <1>1
    <3>2. FrameOK(m, F[k])
      BY <3>1, <1>1 DEF FramesOK
    <3> QED BY <3>1, <3>2, <1>1, <1>14, FramePlaces
  <2>2. F[k] + 4 \in 1..MaxStack
    BY <2>1, <1>2
  <2>3. Known(m, m.stack[F[k] + 4])
    BY <2>2, <1>2 DEF DataOK, StackOK
  <2>4. \A i : Married(m, i, F[k]) => x.heap[i] = m.heap[i]
    BY <1>7, <1>13
  <2>5. FrameOK(x, F[k]) /\ SameLinks(m, x, F[k])
    BY <2>1, <2>3, <2>4, <1>15, FrameSame, SameFrameLinks
  <2> QED BY <2>5, <1>17
<1>19. FramesOK(x, n - 1, G, T)
  BY <1>13, <1>16, <1>18, FramesSame
<1>20. ContextsOK(x, n - 1, G)
  <2> SUFFICES ASSUME NEW i \in DOMAIN x.heap, x.heap[i].class = "Context", x.heap[i].slots[1].tag = "raw"
               PROVE  \E k \in 1..n - 1 : /\ x.heap[i].slots[1].value = G[k] + 1 /\ x.stack[G[k] + 3] = Pointer(i)
                                          /\ HasContextIn(MetaAt(x, G[k]))
    BY DEF ContextsOK
  <2>1. PICK k \in 1..n - 1 : /\ x.heap[i].slots[1].value = F[k] + 1 /\ m.stack[F[k] + 3] = Pointer(i)
                              /\ HasContextIn(MetaAt(m, F[k]))
    BY <1>7, <1>13
  <2>2. x.stack[F[k] + 3] = m.stack[F[k] + 3] /\ MetaAt(x, F[k]) = MetaAt(m, F[k])
    BY <1>14 DEF SameFrame, MetaAt
  <2> QED BY <2>1, <2>2, <1>17
<1>21. Current(x, f)
  <2>1. f + ReceiverOffset <= x.sp
    BY <1>3, <1>13 DEF ReceiverOffset
  <2>2. MetaAt(x, f) = MetaAt(pushed, f) /\ MethodAt(x, f) = MethodAt(pushed, f)
    BY <1>13 DEF MetaAt, MethodAt
  <2> QED BY <2>1, <2>2, <1>13 DEF Current
<1>22. Layout(x, n - 1, G, T)
  BY <1>13, <1>16, <1>19, <1>20, <1>21 DEF Layout, f
<1>23. Ready(x)
  BY <1>22, LayoutReady
<1>24. /\ Keeps(x, r) /\ r.sp = x.sp /\ r.stack = x.stack /\ r.nativeFailed = x.nativeFailed
       /\ SameBut(x, r, {"pc", "status"})
  BY <1>6, <1>13, <1>23, FetchAtKeeps, FetchAtFields DEF DataOK
<1>25. Layout(r, n - 1, G, T)
  BY <1>22, <1>24, LayoutKept
<1>26. /\ r.framePointer = f /\ r.method = x.method /\ r.scripts = m.scripts
       /\ r.primitiveHasFailed = m.primitiveHasFailed /\ r.nativeFailed = m.nativeFailed
       /\ r.sp = base + 1 /\ r.stack = x.stack
  BY <1>13, <1>24 DEF SameBut, Fields
<1>27. IF pc = 0 THEN r.pc = 0
       ELSE x.method.tag = "compiled" /\ r.pc = FirstFrom(CodeOf(x.method), pc)
  BY <1>6, <1>13, FetchAtRunning DEF r, DataOK
<1>28. /\ MethodAt(r, f) = MethodAt(m, f) /\ r.method = MethodAt(m, f) /\ IsCompiled(r, f) = IsCompiled(m, f)
  <2>1. SameFrame(m, x, f)
    BY <1>3, <1>14 DEF f
  <2>2. MethodAt(x, f) = MethodAt(m, f) /\ MethodAt(x, f) = x.method /\ MethodAt(r, f) = MethodAt(x, f)
    BY <2>1, <1>13, <1>26 DEF SameFrame, MethodAt
  <2> QED BY <2>2, <1>26 DEF IsCompiled
<1>29. S[n - 1] = Len(r.scripts)
  <2>1. Len(m.scripts) \in Nat /\ S[n - 1] \in Nat
    BY <1>1, <1>2, <1>3, SequenceDomain DEF DataOK, ScriptsOK, FramesOK
  <2>2. CASE IsCompiled(m, fp)
    <3>1. S[n] = Len(m.scripts) + 0 /\ S[n] = S[n - 1] + 0
      BY <2>2, <1>4 DEF fp, Serves
    <3> QED BY <3>1, <2>1, <1>26
  <2>3. CASE ~IsCompiled(m, fp)
    <3>1. S[n] = Len(m.scripts) + 1 /\ S[n] = S[n - 1] + 1
      BY <2>3, <1>4 DEF fp, Serves
    <3> QED BY <3>1, <2>1, <1>26
  <2> QED BY <2>2, <2>3
<1>30. Balanced(r, S[n - 1])
  <2> DEFINE d == (base + 1) - (f + ReceiverOffset)
  <2>1. IF IsCompiled(m, f) THEN pc # 0 /\ Reaches(MethodAt(m, f), pc, d)
        ELSE pc = 0 /\ S[n - 1] \in DOMAIN m.scripts /\ d = ScriptOperands(m, f, S[n - 1])
    BY <1>4 DEF Resumes, base
  <2>2. r.sp = f + ReceiverOffset + d
    BY <1>3, <1>26 DEF ReceiverOffset
  <2> HIDE DEF d
  <2>3. CASE IsCompiled(m, f)
    <3>1. r.method \in Methods
      <4>1. FrameOK(m, f)
        BY <1>1, <1>3 DEF FramesOK, f
      <4> QED BY <4>1, <2>3, <1>28 DEF FrameOK
    <3>2. r.pc = FirstFrom(CodeOf(r.method), pc) /\ Reaches(r.method, pc, d)
      BY <2>1, <2>3, <1>26, <1>27, <1>28
    <3>3. /\ r.pc \in DOMAIN DepthsOf(r.method) /\ r.pc \in Nat \ {0}
          /\ CodeOf(r.method)[r.pc].op # "Label" /\ DepthsOf(r.method)[r.pc] = d
      BY <3>1, <3>2, FirstFromIsCode
    <3>4. IsCompiled(r, r.framePointer)
      BY <2>3, <1>26, <1>28
    <3> QED BY <3>3, <3>4, <2>2, <1>26, <1>29 DEF Balanced
  <2>4. CASE ~IsCompiled(m, f)
    <3>1. r.pc = 0 /\ ScriptOperands(m, f, S[n - 1]) = ScriptOperands(r, f, S[n - 1])
      BY <2>1, <2>4, <1>26, <1>27 DEF ScriptOperands
    <3>2. ~IsCompiled(r, r.framePointer)
      BY <2>4, <1>26, <1>28
    <3> QED BY <3>1, <3>2, <2>1, <2>2, <2>4, <1>26, <1>29 DEF Balanced
  <2> QED BY <2>3, <2>4
<1>31. Settled(r)
  BY <1>16, <1>25, <1>30 DEF Settled
<1>32. \A i \in 1..base : r.stack[i] = m.stack[i]
  <2>1. \A i \in 1..base : i \in 1..MaxStack /\ i # base + 1
    BY <1>33
  <2> QED BY <2>1, <1>11, <1>13, <1>26
<1> QED BY <1>26, <1>31, <1>32 DEF r, base, fp

(***************************************************************************)
(* What is computed with numbers points at no object.                      *)
(***************************************************************************)
Result(r)  == r.outcome \in {"answer", "failed", "crash", "assertion"} /\ r.oop.tag # "pointer"
Special(r) == r.outcome \in {"answer", "send", "crash", "assertion"} /\ r.oop.tag # "pointer"

\* The outcomes that a computation with numbers has.
LEMMA OutcomeFields ==
  /\ \A oop : Answer(oop).outcome = "answer" /\ Answer(oop).oop = oop
  /\ SendInstead.outcome = "send" /\ Failed.outcome = "failed" /\ Crash.outcome = "crash"
  /\ Assertion.outcome = "assertion"
  /\ SendInstead.oop = nil /\ Failed.oop = nil /\ Crash.oop = nil /\ Assertion.oop = nil
  /\ nil.tag = "nil"
BY DEF Answer, SendInstead, Failed, Crash, Assertion, nil, Word

\* Encoded numbers, characters and truth values point at no object.
LEMMA NumbersAreNoPointers ==
  /\ \A n : encodeSmallInteger(n).tag # "pointer"
  /\ \A n : encodeCharacter(n).tag # "pointer"
  /\ \A n : encodeSmallFloat(n).tag # "pointer"
  /\ \A b : Boolean(b).tag # "pointer"
<1>1. \A n : encodeSmallInteger(n).tag # "pointer" /\ encodeCharacter(n).tag # "pointer"
  BY DEF encodeSmallInteger, encodeCharacter, Word
<1>2. \A n : encodeSmallFloat(n).tag # "pointer"
  BY DEF encodeSmallFloat, Word
<1>3. ASSUME NEW b PROVE Boolean(b).tag # "pointer"
  <2>1. true.tag # "pointer" /\ false.tag # "pointer"
    BY DEF true, false, Word
  <2>2. Boolean(b) = true \/ Boolean(b) = false
    BY Zenon DEF Boolean
  <2> QED BY <2>1, <2>2, Zenon
<1> QED BY <1>1, <1>2, <1>3

\* An integer that is computed is a result, whether it fits the word or not.
LEMMA IntegerResult == \A n : Result(signedInt64ObjectFor(n)) /\ Special(signedInt64ObjectFor(n))
<1> TAKE n
<1>1. \/ signedInt64ObjectFor(n) = Answer(encodeSmallInteger(Wrap(n, WordBits)))
      \/ signedInt64ObjectFor(n) = Crash
  BY Zenon DEF signedInt64ObjectFor
<1>2. Answer(encodeSmallInteger(Wrap(n, WordBits))).oop.tag # "pointer"
  BY OutcomeFields, NumbersAreNoPointers, Zenon
<1> QED BY <1>1, <1>2, OutcomeFields DEF Result, Special

\* An answer that points at no object is a result.
LEMMA AnswerResult == \A oop : oop.tag # "pointer" => Result(Answer(oop)) /\ Special(Answer(oop))
BY OutcomeFields DEF Result, Special

\* The outcomes without an answer are results.
LEMMA OtherResults ==
  /\ Result(Failed) /\ Result(Crash) /\ Result(Assertion)
  /\ Special(SendInstead) /\ Special(Crash) /\ Special(Assertion)
BY OutcomeFields DEF Result, Special

\* Every native of numbers answers, fails or stops.
LEMMA SmallIntegerResult ==
  ASSUME NEW message, NEW a, NEW b
  PROVE  Result(SmallIntegerNative(message, a, b))
<1>1. Result(SmallIntegerSum(message, a, b))
  BY IntegerResult, OtherResults, Zenon DEF SmallIntegerSum
<1>2. ASSUME message \in IntegerProducts PROVE Result(SmallIntegerProduct(message, a, b))
  <2>1. message \in {"*", "/", "\\\\", "//", "quo:"}
    BY <1>2 DEF IntegerProducts
  <2>2. CASE message = "*"
    BY <2>2, IntegerResult, OtherResults DEF SmallIntegerProduct
  <2>3. CASE message = "/"
    BY <2>3, IntegerResult, OtherResults DEF SmallIntegerProduct
  <2>4. CASE message = "\\\\"
    BY <2>4, IntegerResult, OtherResults DEF SmallIntegerProduct
  <2>5. CASE message = "//"
    BY <2>5, IntegerResult, OtherResults DEF SmallIntegerProduct
  <2>6. CASE message = "quo:"
    BY <2>6, IntegerResult, OtherResults DEF SmallIntegerProduct
  <2> QED BY <2>1, <2>2, <2>3, <2>4, <2>5, <2>6
<1>3. ASSUME message \in IntegerBits PROVE Result(SmallIntegerBitwise(message, a, b))
  <2>1. message \in {"bitAnd:", "bitOr:", "bitXor:", "bitShift:"}
    BY <1>3 DEF IntegerBits
  <2> QED BY <2>1, IntegerResult, OtherResults DEF SmallIntegerBitwise
<1>4. Result(SmallIntegerComparison(message, a, b))
  BY AnswerResult, NumbersAreNoPointers, OtherResults, Zenon DEF SmallIntegerComparison
<1> QED BY <1>1, <1>2, <1>3, <1>4, Zenon DEF SmallIntegerNative

\* The native methods of floats answer results.
LEMMA FloatResult ==
  ASSUME NEW message, NEW a, NEW b
  PROVE  Result(FloatNative(message, a, b))
<1>1. Result(FloatSum(message, a, b))
  BY AnswerResult, NumbersAreNoPointers, OtherResults, Zenon DEF FloatSum
<1>2. Result(FloatProduct(message, a, b))
  BY AnswerResult, NumbersAreNoPointers, OtherResults, Zenon DEF FloatProduct
<1>3. Result(FloatComparison(message, a, b))
  BY AnswerResult, NumbersAreNoPointers, OtherResults, Zenon DEF FloatComparison
<1> QED BY <1>1, <1>2, <1>3, Zenon DEF FloatNative

\* So do those that take no argument.
LEMMA UnaryResult ==
  ASSUME NEW function \in UnaryFunctions, NEW a
  PROVE  Result(UnaryNative(function, a))
<1>1. Result(asFloat(a))
  BY AnswerResult, NumbersAreNoPointers, OtherResults, Zenon DEF asFloat
<1>2. Result(SmallFloatTruncation(a))
  BY IntegerResult, OtherResults, Zenon DEF SmallFloatTruncation
<1>3. Result(SmallFloatFractionPart(a))
  BY AnswerResult, NumbersAreNoPointers, OtherResults, Zenon DEF SmallFloatFractionPart
<1>4. Result(SmallFloatExponent(a))
  BY IntegerResult, OtherResults, Zenon DEF SmallFloatExponent
<1> QED BY <1>1, <1>2, <1>3, <1>4 DEF UnaryNative, UnaryFunctions

\* So do those that take one.
LEMMA BinaryResult ==
  ASSUME NEW function, NEW a, NEW b
  PROVE  Result(BinaryNative(function, a, b))
<1>1. Result(SmallFloatTimesTwoPower(a, b))
  BY AnswerResult, NumbersAreNoPointers, OtherResults, Zenon DEF SmallFloatTimesTwoPower
<1> QED BY <1>1, SmallIntegerResult, FloatResult, Zenon DEF BinaryNative

\* A message that has an instruction of its own is answered, or sent, or it stops
\* the machine.
LEMMA SpecialResult ==
  ASSUME NEW message \in ArithmeticMessages, NEW a, NEW b
  PROVE  Special(SpecialArithmetic(message, a, b))
<1>1. Special(SpecialMessageAdd(a, b))
  BY IntegerResult, AnswerResult, NumbersAreNoPointers, OtherResults, Zenon DEF SpecialMessageAdd
<1>2. Special(SpecialMessageMinus(a, b))
  BY IntegerResult, AnswerResult, NumbersAreNoPointers, OtherResults, Zenon DEF SpecialMessageMinus
<1>3. Special(Comparison(message, a, b))
  BY IntegerResult, AnswerResult, NumbersAreNoPointers, OtherResults, Zenon DEF Comparison
<1>4. Special(SpecialMessageMultiply(a, b))
  BY IntegerResult, AnswerResult, NumbersAreNoPointers, OtherResults, Zenon DEF SpecialMessageMultiply
<1>5. Special(SpecialMessageDivide(a, b))
  BY IntegerResult, AnswerResult, NumbersAreNoPointers, OtherResults, Zenon DEF SpecialMessageDivide
<1>6. Special(SpecialMessageRemainder(a, b))
  BY IntegerResult, AnswerResult, NumbersAreNoPointers, OtherResults, Zenon DEF SpecialMessageRemainder
<1>7. Special(SpecialMessageIntegerDivision(a, b))
  BY IntegerResult, AnswerResult, NumbersAreNoPointers, OtherResults, Zenon DEF SpecialMessageIntegerDivision
<1>8. Special(SpecialMessageBitShift(a, b))
  BY IntegerResult, AnswerResult, NumbersAreNoPointers, OtherResults, Zenon DEF SpecialMessageBitShift
<1>9. Special(SpecialMessageBitAnd(a, b))
  BY IntegerResult, AnswerResult, NumbersAreNoPointers, OtherResults, Zenon DEF SpecialMessageBitAnd
<1>10. Special(SpecialMessageBitOr(a, b))
  BY IntegerResult, AnswerResult, NumbersAreNoPointers, OtherResults, Zenon DEF SpecialMessageBitOr
<1>11. \/ message \in {"+", "-", "*", "/", "\\\\", "//", "bitShift:", "bitAnd:", "bitOr:"}
       \/ message \in Orderings \/ message \in Equalities
  BY DEF ArithmeticMessages
<1> QED BY <1>1, <1>2, <1>3, <1>4, <1>5, <1>6, <1>7, <1>8, <1>9, <1>10, <1>11
        DEF SpecialArithmetic, SpecialMessageOrdering, SpecialMessageEquality, Orderings, Equalities

(***************************************************************************)
(* Primitives.                                                             *)
(***************************************************************************)
\* A machine that a primitive runs in, in the frame of its native method or in
\* that of a method.
WorksIn(m, n, F, S) ==
  /\ Layout(m, n, F, S) /\ n >= 2 /\ Serves(m, S[n]) /\ m.status = "running"
  /\ ~m.primitiveHasFailed /\ m.sp + 10 <= MaxStack
Works(m) == \E n \in Nat : \E F \in [1..n -> Nat], S \in [1..n -> Nat] : WorksIn(m, n, F, S)

\* The words below the receiver of the frame are those of before.
Leaves(m, p) == \A i \in 1..Base(m, m.framePointer) : p.stack[i] = m.stack[i]

\* The frame has returned: the machine goes on in that of the caller.
Answers(m, p) ==
  Settled(p) /\ p.nativeFailed = m.nativeFailed /\ ~p.primitiveHasFailed /\ p.scripts = m.scripts

\* What a primitive ends with: an answer, a failure, or the end of the process.
Ends(m, p) == /\ Leaves(m, p)
              /\ p = primitiveFailed(m) \/ (~p.primitiveHasFailed /\ (p.status = "running" => Answers(m, p)))

\* What a primitive finds.
LEMMA WorksReady ==
  ASSUME NEW m, Works(m)
  PROVE  /\ Ready(m) /\ m.sp <= MaxStack /\ m.status = "running" /\ ~m.primitiveHasFailed
         /\ Known(m, currentReceiver(m)) /\ m.framePointer + 4 \in 1..MaxStack /\ DOMAIN m = Fields
         /\ m.argumentCount = ArgumentCount(m) /\ HeapOK(m)
<1>1. PICK n \in Nat : \E F \in [1..n -> Nat], S \in [1..n -> Nat] : WorksIn(m, n, F, S)
  BY DEF Works
<1>2. PICK F \in [1..n -> Nat], S \in [1..n -> Nat] : WorksIn(m, n, F, S)
  BY <1>1
<1>3. Layout(m, n, F, S) /\ m.status = "running" /\ ~m.primitiveHasFailed /\ m.sp + 10 <= MaxStack
  BY <1>2 DEF WorksIn
<1>4. Ready(m)
  BY <1>3, LayoutReady
<1>5. m.sp \in Nat /\ MaxStack \in Nat
  BY <1>4, StackAssumption DEF Ready, DataOK
<1>6. m.sp <= MaxStack
  BY <1>3, <1>5
<1>7. m.argumentCount = ArgumentsIn(MetaAt(m, m.framePointer)) /\ m.framePointer + 4 \in 1..MaxStack
  BY <1>3, FrameRead
<1>8. Known(m, currentReceiver(m))
  BY <1>4, <1>6, ReceiverKnown
<1> QED BY <1>3, <1>4, <1>6, <1>7, <1>8 DEF ArgumentCount, MetaAt, Ready, DataOK

\* A machine that is stopped stays so.
LEMMA StoppedStays ==
  ASSUME NEW m, DOMAIN m = Fields, m.status # "running", NEW value
  PROVE  returnValue(m, value).status # "running"
<1>1. ASSUME NEW x, DOMAIN x = Fields, x.status # "running", NEW pc
      PROVE  FetchAt(x, pc).status # "running" /\ DOMAIN FetchAt(x, pc) = Fields
  BY <1>1 DEF FetchAt, Fields
<1>2. ASSUME NEW x, DOMAIN x = Fields, x.status # "running"
      PROVE  fetchFrameData(x).status # "running" /\ DOMAIN fetchFrameData(x) = Fields
  BY <1>2 DEF fetchFrameData, Stop, Fields
<1>3. \A status : Stop(m, status).status = status
  BY StopFields
<1>4. baseReturnValue(m).status # "running"
  BY <1>3 DEF baseReturnValue, Fields
<1> DEFINE fp == m.framePointer
           w == Widowed(m)
           left == [w EXCEPT !.sp = fp - 2 - (m.argumentCount + 1), !.framePointer = m.stack[fp].value]
           pushed == Push(left, value)
<1>5. DOMAIN w = Fields /\ w.status # "running"
  BY DEF Widowed, widowContext, Fields
<1> HIDE DEF w
<1>6. DOMAIN left = Fields /\ left.status # "running"
  BY <1>5 DEF Fields
<1> HIDE DEF left
<1>7. DOMAIN pushed = Fields /\ pushed.status # "running"
  BY <1>6 DEF Push, Fields
<1> HIDE DEF pushed
<1>8. FetchAt(fetchFrameData(pushed), m.stack[fp - 1].value).status # "running"
  BY <1>1, <1>2, <1>7
<1>9. localReturnValue(m, value).status # "running"
  <2>1. \/ localReturnValue(m, value) = Stop(m, "crashed")
        \/ localReturnValue(m, value) = baseReturnValue(m)
        \/ localReturnValue(m, value) = FetchAt(fetchFrameData(pushed), m.stack[fp - 1].value)
    BY Zenon DEF localReturnValue, pushed, left, w, Widowed, fp
  <2> QED BY <1>3, <1>4, <1>8, <2>1
<1> QED BY <1>3, <1>9 DEF returnValue

\* A return writes no word but that of the receiver.
LEMMA ReturnStack ==
  ASSUME NEW m, DOMAIN m = Fields, NEW value, NEW p, p = returnValue(m, value) \/ p = localReturnValue(m, value)
  PROVE  /\ p.primitiveHasFailed = m.primitiveHasFailed
         /\ \/ p.stack = m.stack
            \/ p.stack = [m.stack EXCEPT ![(m.framePointer - 2 - (m.argumentCount + 1)) + 1] = value]
<1>1. ASSUME NEW x, DOMAIN x = Fields, NEW pc
      PROVE  FetchAt(x, pc).stack = x.stack /\ FetchAt(x, pc).primitiveHasFailed = x.primitiveHasFailed
  BY <1>1, FetchAtFields DEF SameBut, Fields
<1>2. ASSUME NEW x, DOMAIN x = Fields
      PROVE  /\ fetchFrameData(x).stack = x.stack /\ DOMAIN fetchFrameData(x) = Fields
             /\ fetchFrameData(x).primitiveHasFailed = x.primitiveHasFailed
  BY <1>2 DEF fetchFrameData, Stop, Fields
<1>3. \A status : /\ Stop(m, status).stack = m.stack
                  /\ Stop(m, status).primitiveHasFailed = m.primitiveHasFailed
  BY StopFields DEF SameBut, Fields
<1>4. baseReturnValue(m).stack = m.stack /\ baseReturnValue(m).primitiveHasFailed = m.primitiveHasFailed
  BY <1>3 DEF baseReturnValue, Fields
<1> DEFINE fp == m.framePointer
           w == Widowed(m)
           left == [w EXCEPT !.sp = fp - 2 - (m.argumentCount + 1), !.framePointer = m.stack[fp].value]
           pushed == Push(left, value)
<1>5. DOMAIN w = Fields /\ w.stack = m.stack /\ w.primitiveHasFailed = m.primitiveHasFailed
  BY DEF Widowed, widowContext, Fields
<1> HIDE DEF w
<1>6. /\ DOMAIN left = Fields /\ left.stack = m.stack /\ left.sp = fp - 2 - (m.argumentCount + 1)
      /\ left.primitiveHasFailed = m.primitiveHasFailed
  BY <1>5 DEF Fields
<1> HIDE DEF left
<1>7. DOMAIN pushed = Fields /\ pushed.primitiveHasFailed = m.primitiveHasFailed
      /\ pushed.stack = [m.stack EXCEPT ![(fp - 2 - (m.argumentCount + 1)) + 1] = value]
  BY <1>6, PushFields DEF SameBut, Fields
<1> HIDE DEF pushed
<1>8. LET r == FetchAt(fetchFrameData(pushed), m.stack[fp - 1].value) IN
      r.stack = pushed.stack /\ r.primitiveHasFailed = m.primitiveHasFailed
  BY <1>1, <1>2, <1>7
<1>9. \/ localReturnValue(m, value) = Stop(m, "crashed")
      \/ localReturnValue(m, value) = baseReturnValue(m)
      \/ localReturnValue(m, value) = FetchAt(fetchFrameData(pushed), m.stack[fp - 1].value)
  BY Zenon DEF localReturnValue, pushed, left, w, Widowed, fp
<1>10. returnValue(m, value) = Stop(m, "aborted") \/ returnValue(m, value) = localReturnValue(m, value)
  BY DEF returnValue
<1> QED BY <1>3, <1>4, <1>7, <1>8, <1>9, <1>10

\* No return touches the words below the frame.
LEMMA ReturnLeaves ==
  ASSUME NEW m, Works(m), NEW p, DOMAIN p = Fields, p.framePointer = m.framePointer,
         p.argumentCount = m.argumentCount, DOMAIN p.stack = DOMAIN m.stack, Leaves(m, p), NEW value
  PROVE  /\ Leaves(m, returnValue(p, value))
         /\ returnValue(p, value).primitiveHasFailed = p.primitiveHasFailed
<1>1. m.framePointer \in Nat /\ m.argumentCount \in 0..255
      /\ Base(m, m.framePointer) = m.framePointer - 3 - m.argumentCount
  BY WorksReady DEF Ready, Base, ArgumentCount, MetaAt
<1>2. \A i \in 1..Base(m, m.framePointer) : i # (m.framePointer - 2 - (m.argumentCount + 1)) + 1
  BY <1>1
<1>5. \A i \in 1..Base(m, m.framePointer) : i \in DOMAIN p.stack
  <2>1. DOMAIN p.stack = 1..MaxStack
    BY WorksReady DEF Ready, DataOK, StackOK
  <2>2. m.framePointer + 4 <= MaxStack /\ MaxStack \in Nat
    BY WorksReady, StackAssumption
  <2> DEFINE b == Base(m, m.framePointer)
  <2>3. b \in Int /\ b <= MaxStack
    BY <1>1, <2>2
  <2> HIDE DEF b
  <2>4. \A i \in 1..b : i \in 1..MaxStack
    BY <2>2, <2>3
  <2> QED BY <2>1, <2>4 DEF b
<1>3. /\ returnValue(p, value).primitiveHasFailed = p.primitiveHasFailed
      /\ \/ returnValue(p, value).stack = p.stack
         \/ returnValue(p, value).stack
              = [p.stack EXCEPT ![(m.framePointer - 2 - (m.argumentCount + 1)) + 1] = value]
  BY ReturnStack

<1>4. \A i \in 1..Base(m, m.framePointer) : returnValue(p, value).stack[i] = p.stack[i]
  BY <1>2, <1>3, <1>5
<1> QED BY <1>3, <1>4 DEF Leaves

\* Stopping or failing leaves the stack as it is.
LEMMA StopLeaves ==
  ASSUME NEW m, DOMAIN m = Fields
  PROVE  /\ Leaves(m, m) /\ \A status : Leaves(m, Stop(m, status))
         /\ Leaves(m, primitiveFailed(m))
<1>1. \A status : Stop(m, status).stack = m.stack
  BY StopFields DEF SameBut, Fields
<1>2. primitiveFailed(m).stack = m.stack
  BY DEF primitiveFailed, Fields
<1> QED BY <1>1, <1>2 DEF Leaves

\* A value is returned.
LEMMA WorkAnswers ==
  ASSUME Verified, NEW m, Works(m), NEW value, Known(m, value), returnValue(m, value).status = "running"
  PROVE  Answers(m, returnValue(m, value))
<1>1. PICK n \in Nat : \E F \in [1..n -> Nat], S \in [1..n -> Nat] : WorksIn(m, n, F, S)
  BY DEF Works
<1>2. PICK F \in [1..n -> Nat], S \in [1..n -> Nat] : WorksIn(m, n, F, S)
  BY <1>1
<1>3. Layout(m, n, F, S) /\ n >= 2 /\ Serves(m, S[n]) /\ m.status = "running" /\ ~m.primitiveHasFailed
  BY <1>2 DEF WorksIn
<1>4. DOMAIN m = Fields
  BY WorksReady
<1>5. returnValue(m, value) = localReturnValue(m, value)
  <2>1. Stop(m, "aborted").status = "aborted"
    BY <1>4, StopFields
  <2> QED BY <2>1 DEF returnValue
<1>6. LET r == localReturnValue(m, value) IN
      /\ Settled(r) /\ r.sp = Base(m, m.framePointer) + 1
      /\ \A i \in 1..Base(m, m.framePointer) : r.stack[i] = m.stack[i]
      /\ r.nativeFailed = m.nativeFailed /\ r.primitiveHasFailed = m.primitiveHasFailed
      /\ r.scripts = m.scripts
  BY <1>3, <1>5, Returned
<1> QED BY <1>3, <1>5, <1>6 DEF Answers

\* What a primitive allocates or writes before it returns.
LEMMA WorkKept ==
  ASSUME NEW m, Works(m), NEW p, Keeps(m, p), p.status = m.status, p.nativeFailed = m.nativeFailed,
         p.primitiveHasFailed = m.primitiveHasFailed, p.sp = m.sp
  PROVE  Works(p) /\ Leaves(m, p) /\ \A r : /\ Answers(p, r) => Answers(m, r)
                                            /\ Leaves(p, r) => Leaves(m, r)
<1>1. PICK n \in Nat : \E F \in [1..n -> Nat], S \in [1..n -> Nat] : WorksIn(m, n, F, S)
  BY DEF Works
<1>2. PICK F \in [1..n -> Nat], S \in [1..n -> Nat] : WorksIn(m, n, F, S)
  BY <1>1
<1>3. /\ Layout(m, n, F, S) /\ n >= 2 /\ Serves(m, S[n]) /\ m.status = "running" /\ ~m.primitiveHasFailed
      /\ m.sp + 10 <= MaxStack
  BY <1>2 DEF WorksIn
<1>4. Layout(p, n, F, S) /\ Untouched(m, p)
  BY <1>3, LayoutKept, KeepsUntouched
<1>5. p.framePointer = m.framePointer /\ p.scripts = m.scripts
  BY DEF Keeps
<1>6. SameFrame(m, p, m.framePointer)
  <2>1. m.framePointer = F[n] /\ n \in 1..n
    BY <1>3, FrameRead
  <2> QED BY <1>3, <2>1, KeepsFrames
<1>7. /\ MetaAt(p, m.framePointer) = MetaAt(m, m.framePointer)
      /\ IsCompiled(p, m.framePointer) = IsCompiled(m, m.framePointer)
      /\ Base(p, m.framePointer) = Base(m, m.framePointer)
  BY <1>6 DEF SameFrame, MetaAt, MethodAt, IsCompiled, Base
<1>8. Serves(p, S[n])
  BY <1>3, <1>5, <1>7 DEF Serves
<1>9. Works(p)
  BY <1>3, <1>4, <1>8 DEF WorksIn, Works
<1>10. \A i \in 1..Base(m, m.framePointer) : p.stack[i] = m.stack[i]
  <2>1. Base(m, m.framePointer) = m.framePointer - 3 - m.argumentCount
    BY <1>3, FrameRead DEF Base
  <2> QED BY <1>4, <2>1 DEF Untouched
<1> QED BY <1>5, <1>7, <1>9, <1>10 DEF Answers, Leaves

\* A primitive can end with a value.
LEMMA WorkEnds ==
  ASSUME Verified, NEW m, Works(m), NEW value, Known(m, value)
  PROVE  Ends(m, returnValue(m, value))
<1>1. DOMAIN m = Fields /\ ~m.primitiveHasFailed
  BY WorksReady
<1>2. Leaves(m, returnValue(m, value)) /\ ~returnValue(m, value).primitiveHasFailed
  BY <1>1, StopLeaves, ReturnLeaves
<1> QED BY <1>2, WorkAnswers DEF Ends

\* A primitive returns an object that it has made.
LEMMA AllocationEnds ==
  ASSUME Verified, NEW m, Works(m), NEW object, ObjectOK(m, object),
         object.class = "Context" => object.slots[1].tag # "raw"
  PROVE  Ends(m, returnValue(Allocate(m, object), Newest(Allocate(m, object))))
<1> DEFINE p == Allocate(m, object)
           r == returnValue(p, Newest(p))
<1>1. /\ Ready(m) /\ DOMAIN m = Fields
  BY WorksReady
<1>2. Keeps(m, p) /\ p.sp = m.sp /\ Known(p, Newest(p))
  BY <1>1, AllocateKeeps
<1>3. SameBut(m, p, {"heap"})
  BY <1>1, AllocateFields
<1>4. p.status = m.status /\ p.nativeFailed = m.nativeFailed /\ p.primitiveHasFailed = m.primitiveHasFailed
  BY <1>3 DEF SameBut, Fields
<1>5. Works(p) /\ \A q : (Answers(p, q) => Answers(m, q)) /\ (Leaves(p, q) => Leaves(m, q))
  BY <1>2, <1>4, WorkKept, Zenon
<1> HIDE DEF p
<1>6. (r.status = "running" => Answers(p, r)) /\ Leaves(p, r) /\ ~r.primitiveHasFailed
  <2>1. DOMAIN p = Fields /\ ~p.primitiveHasFailed
    BY <1>5, WorksReady
  <2> QED BY <2>1, <1>2, <1>5, WorkAnswers, StopLeaves, ReturnLeaves
<1> QED BY <1>5, <1>6 DEF Ends, p

\* A primitive can end with a result.
LEMMA ConcludeEnds ==
  ASSUME Verified, NEW m, Works(m), NEW result, Result(result)
  PROVE  Ends(m, Conclude(m, result))
<1>1. Known(m, result.oop)
  BY DEF Result, Known
<1>2. Ends(m, returnValue(m, result.oop))
  BY <1>1, WorkEnds
<1>3. \A status : status # "running" => Ends(m, Stop(m, status))
  BY WorksReady, StopFields, StopLeaves DEF Ends, SameBut, Fields
<1>4. Ends(m, primitiveFailed(m))
  BY WorksReady, StopLeaves DEF Ends
<1> QED BY <1>2, <1>3, <1>4 DEF Conclude, Result

\* The variables of a new object point at nothing.
LEMMA NilsKnown ==
  ASSUME NEW m, NEW n \in Nat
  PROVE  /\ IsSequence(Nils(n)) /\ Len(Nils(n)) = n /\ DOMAIN Nils(n) = 1..n
         /\ \A i \in 1..n : Nils(n)[i] = nil
         /\ \A i \in 1..n : Known(m, Nils(n)[i])
<1>1. Nils(n) = [i \in 1..n |-> Nils(n)[i]]
  BY DEF Nils
<1>2. IsSequence(Nils(n)) /\ Len(Nils(n)) = n
  BY <1>1, SequenceFunction, Zenon
<1>3. DOMAIN Nils(n) = 1..n /\ \A i \in 1..n : Nils(n)[i] = nil
  BY DEF Nils
<1> QED BY <1>2, <1>3, WordFields DEF Known

\* Objects of the machine's own classes have the variables that they need.
LEMMA NewObject ==
  ASSUME NEW m, NEW class, NEW size \in Nat
  PROVE  LET object == Object(class, Nils(InstanceCount(class)), Nils(size)) IN
         ObjectOK(m, object) /\ (object.class = "Context" => object.slots[1].tag # "raw")
<1> DEFINE count == InstanceCount(class)
           object == Object(class, Nils(count), Nils(size))
<1>1. /\ DOMAIN object = {"class", "slots", "elements"} /\ object.class = class
      /\ object.slots = Nils(count) /\ object.elements = Nils(size)
  BY DEF Object
<1> HIDE DEF object
<1>2. /\ IsSequence(Nils(size)) /\ DOMAIN Nils(size) = 1..size
      /\ \A i \in 1..size : Known(m, Nils(size)[i])
  BY NilsKnown
<1>3. /\ DOMAIN Nils(count) = 1..count /\ \A i \in DOMAIN Nils(count) : Nils(count)[i] = nil
      /\ \A i \in DOMAIN Nils(count) : Known(m, Nils(count)[i])
  <2> HIDE DEF count
  <2>1. DOMAIN Nils(count) = 1..count /\ \A i \in DOMAIN Nils(count) : Nils(count)[i] = nil
    BY DEF Nils
  <2> QED BY <2>1, WordFields DEF Known
<1>4. class = "Context" => count = 7
  BY ReservedAssumption
<1>5. class = "BlockClosure" => count = 3
  BY ReservedAssumption
<1>6. class \in Reserved => object.slots[1].tag = "nil"
  <2>1. class \in Reserved => 1 \in DOMAIN Nils(count)
    <3> HIDE DEF count
    <3> QED BY <1>3, <1>4, <1>5 DEF Reserved
  <2> QED BY <2>1, <1>1, <1>3, WordFields
<1>7. ObjectOK(m, object)
  <2> HIDE DEF count
  <2>1. "BlockClosure" \in Reserved
    BY DEF Reserved
  <2> QED BY <2>1, <1>1, <1>2, <1>3, <1>4, <1>5, <1>6 DEF ObjectOK
<1>8. object.class = "Context" => object.slots[1].tag # "raw"
  BY <1>1, <1>6 DEF Reserved
<1> QED BY <1>7, <1>8 DEF object

\* The primitives of objects and numbers.
LEMMA NumberNativeEnds ==
  ASSUME Verified, NEW m, Works(m), NEW function
  PROVE  Ends(m, NumberNative(m, function))
<1>1. Ends(m, primitiveFailed(m))
  BY WorksReady, StopLeaves DEF Ends
<1>2. function \in UnaryFunctions => Ends(m, Conclude(m, UnaryNative(function, currentReceiver(m))))
  BY UnaryResult, ConcludeEnds
<1>3. Ends(m, Conclude(m, BinaryNative(function, currentReceiver(m), getTemporary(m, 0))))
  BY BinaryResult, ConcludeEnds
<1> QED BY <1>1, <1>2, <1>3, Zenon DEF NumberNative

\* The native methods of objects end so, but for the two that access
\* elements by a number.
LEMMA ObjectNativeEnds ==
  ASSUME Verified, NEW m, Works(m), NEW function, function \notin {"Object::stAt", "Object::stAtPut"}
  PROVE  Ends(m, ObjectNative(m, function))
<1>1. /\ Ready(m) /\ DOMAIN m = Fields /\ Known(m, currentReceiver(m)) /\ \A i : Known(m, getTemporary(m, i))
  BY WorksReady, TemporaryKnown
<1>2. Ends(m, primitiveFailed(m)) /\ \A status : status # "running" => Ends(m, Stop(m, status))
  BY <1>1, WorksReady, StopFields, StopLeaves DEF Ends, SameBut, Fields
<1>3. Ends(m, NumberNative(m, function))
  BY NumberNativeEnds
<1>4. Ends(m, stSize(m))
  <2> DEFINE oop == encodeSmallInteger(Len(m.heap[currentReceiver(m).value].slots)
                                         + Len(m.heap[currentReceiver(m).value].elements))
  <2>1. Known(m, oop)
    BY NumbersAreNoPointers DEF Known
  <2> HIDE DEF oop
  <2>2. Ends(m, returnValue(m, oop))
    BY <2>1, WorkEnds
  <2> QED BY <2>2, <1>2, Zenon DEF stSize, oop
<1>5. Ends(m, stClass(m))
  <2>1. Known(m, ClassOf(m, currentReceiver(m)))
    BY DEF Known, ClassOf, ClassOop, Word
  <2>2. Ends(m, returnValue(m, ClassOf(m, currentReceiver(m))))
    BY <2>1, WorkEnds
  <2> QED BY <2>2, <1>2, Zenon DEF stClass
<1>6. Ends(m, stIdentityEqual(m))
  <2> DEFINE oop == Boolean(currentReceiver(m) = getTemporary(m, 0))
  <2>1. Known(m, oop)
    BY NumbersAreNoPointers DEF Known
  <2> HIDE DEF oop
  <2>2. Ends(m, returnValue(m, oop))
    BY <2>1, WorkEnds
  <2> QED BY <2>2, <1>2, Zenon DEF stIdentityEqual, oop
<1>7. ASSUME NEW size \in Nat, NEW class
      PROVE  Ends(m, returnValue(basicNativeNew(m, class, size), Newest(basicNativeNew(m, class, size))))
  <2> DEFINE object == Object(class, Nils(InstanceCount(class)), Nils(size))
  <2>1. ObjectOK(m, object) /\ (object.class = "Context" => object.slots[1].tag # "raw")
    BY NewObject
  <2> HIDE DEF object
  <2>2. Ends(m, returnValue(Allocate(m, object), Newest(Allocate(m, object))))
    BY <2>1, AllocationEnds
  <2> QED BY <2>2 DEF object, basicNativeNew
<1>8. Ends(m, stBasicNew(m))
  <2>1. Ends(m, returnValue(basicNativeNew(m, currentReceiver(m).name, 0),
                            Newest(basicNativeNew(m, currentReceiver(m).name, 0))))
    BY <1>7
  <2> QED BY <2>1, <1>2, Zenon DEF stBasicNew
<1>9. Ends(m, stBasicNewSize(m))
  <2> DEFINE size == getTemporary(m, 0).value
             born == basicNativeNew(m, currentReceiver(m).name, size)
  <2>1. size \in Nat => Ends(m, returnValue(born, Newest(born)))
    BY <1>7
  <2>2. Ends(m, Stop(m, "crashed"))
    BY <1>2
  <2> QED BY <2>1, <2>2, <1>2, Zenon DEF stBasicNewSize
<1> HIDE DEF Ends
<1> QED BY <1>2, <1>3, <1>4, <1>5, <1>6, <1>8, <1>9 DEF ObjectNative

(***************************************************************************)
(* The native methods of scripts.                                          *)
(***************************************************************************)
\* Only the scripts change, above those of the frames below.
LEMMA ScriptsKept ==
  ASSUME NEW m, NEW p, NEW n, NEW F, NEW S, Layout(m, n, F, S), SameBut(m, p, {"scripts"}), ScriptsOK(p),
         \A k \in 1..n - 1 : S[k] \in DOMAIN m.scripts /\ ~IsCompiled(m, F[k])
                             => S[k] \in DOMAIN p.scripts /\ p.scripts[S[k]] = m.scripts[S[k]]
  PROVE  Layout(p, n, F, S)
<1>1. /\ DOMAIN p = Fields /\ p.stack = m.stack /\ p.sp = m.sp /\ p.heap = m.heap /\ p.globals = m.globals
      /\ p.methodDict = m.methodDict /\ p.framePointer = m.framePointer
      /\ p.argumentCount = m.argumentCount /\ p.isBlock = m.isBlock /\ p.method = m.method
  BY DEF SameBut, Fields
<1>2. DataOK(m) /\ FramesOK(m, n, F, S) /\ ContextsOK(m, n, F) /\ Current(m, F[n])
  BY DEF Layout
<1>3. HeapGrows(m, p)
  BY <1>1 DEF HeapGrows
<1>4. HeapOK(p)
  BY <1>1, <1>2, <1>3, ObjectGrows DEF DataOK, HeapOK
<1>5. StackOK(p) /\ GlobalsOK(p) /\ MethodDictOK(p)
  BY <1>1, <1>2 DEF DataOK, StackOK, GlobalsOK, MethodDictOK, Known
<1>6. DataOK(p)
  BY <1>1, <1>2, <1>4, <1>5 DEF DataOK
<1>7. \A k \in 1..n : SameLinks(m, p, F[k]) /\ FrameOK(p, F[k])
  <2> TAKE k \in 1..n
  <2>1. FrameOK(m, F[k])
    BY <1>2 DEF FramesOK
  <2>2. FrameOK(p, F[k])
    BY <2>1, <1>1 DEF FrameOK, MetaAt, MethodAt, IsCompiled, Fits, Married
  <2> QED BY <2>2, <1>1 DEF SameLinks, MetaAt, MethodAt
<1>8. FramesOK(p, n, F, S)
  BY <1>2, <1>7, FramesSame
<1>9. ContextsOK(p, n, F)
  BY <1>1, <1>2 DEF ContextsOK, MetaAt
<1>10. Current(p, F[n])
  BY <1>1, <1>2 DEF Current, MetaAt, MethodAt
<1> QED BY <1>6, <1>8, <1>9, <1>10 DEF Layout

\* A machine in the frame of a native method.
InNative(m) == /\ Works(m) /\ ~IsCompiled(m, m.framePointer) /\ m.pc = 0
               /\ m.sp = m.framePointer + 4 /\ m.framePointer # 3

\* A native method answers, fails, or leaves a script that runs in its frame.
NativeEnds(m, p) ==
  /\ Leaves(m, p)
  /\ p.status = "running" =>
       \/ Answers(m, p)
       \/ p.primitiveHasFailed /\ DOMAIN p = Fields /\ p.scripts = m.scripts
       \/ Settled(p) /\ Len(p.scripts) = Len(m.scripts) + 1 /\ p.nativeFailed = m.nativeFailed

\* primitiveFailed only sets the flag.
LEMMA FailureFields ==
  ASSUME NEW m, DOMAIN m = Fields
  PROVE  LET p == primitiveFailed(m) IN SameBut(m, p, {"primitiveHasFailed"}) /\ p.primitiveHasFailed
BY DEF primitiveFailed, SameBut, Fields

\* A native method may end as a primitive does.
LEMMA EndsNative ==
  ASSUME NEW m, Works(m), NEW p, Ends(m, p)
  PROVE  NativeEnds(m, p)
<1>1. DOMAIN m = Fields
  BY WorksReady
<1>2. SameBut(m, primitiveFailed(m), {"primitiveHasFailed"}) /\ primitiveFailed(m).primitiveHasFailed
  BY <1>1, FailureFields
<1>3. DOMAIN primitiveFailed(m) = Fields /\ primitiveFailed(m).scripts = m.scripts
  BY <1>2 DEF SameBut, Fields
<1> QED BY <1>2, <1>3 DEF Ends, NativeEnds

\* An access to elements fails, because its argument counts.
LEMMA AccessFails ==
  ASSUME NEW m, Works(m), NEW p, p = stAt(m) \/ p = stAtPut(m)
  PROVE  NativeEnds(m, p)
<1>1. Ready(m) /\ DOMAIN m = Fields /\ Known(m, currentReceiver(m)) /\ m.framePointer + 4 \in 1..MaxStack
  BY WorksReady
<1> DEFINE q == Push(m, currentReceiver(m))
<1>2. /\ SameBut(m, q, {"stack", "sp"}) /\ DOMAIN q = Fields /\ q.scripts = m.scripts
      /\ q.framePointer = m.framePointer
  <2>1. SameBut(m, q, {"stack", "sp"})
    BY <1>1, PushFields
  <2> HIDE DEF q
  <2> QED BY <2>1 DEF SameBut, Fields
<1>3. q.stack[m.framePointer + 2] = m.stack[m.framePointer + 2]
  <2>1. /\ \A i \in 1..MaxStack : i # m.sp + 1 => q.stack[i] = m.stack[i]
    BY <1>1, PushKeeps
  <2>2. m.framePointer + 2 \in 1..MaxStack /\ m.framePointer + 2 # m.sp + 1
    BY <1>1, StackAssumption DEF Ready, DataOK, ReceiverOffset
  <2> QED BY <2>1, <2>2
<1> HIDE DEF q
<1>4. ArgumentCount(q) = ArgumentCount(m)
  BY <1>2, <1>3 DEF ArgumentCount
<1>5. ASSUME ArgumentCount(m) # 0 PROVE stSize(q) = primitiveFailed(q)
  BY <1>4, <1>5 DEF stSize
<1>6. p = primitiveFailed(m) \/ p = primitiveFailed(q)
  BY <1>5 DEF stAt, stAtPut, q
<1>7. \A x : DOMAIN x = Fields => /\ primitiveFailed(x).primitiveHasFailed /\ DOMAIN primitiveFailed(x) = Fields
                                  /\ primitiveFailed(x).scripts = x.scripts
  <2> TAKE x
  <2> HAVE DOMAIN x = Fields
  <2>1. SameBut(x, primitiveFailed(x), {"primitiveHasFailed"}) /\ primitiveFailed(x).primitiveHasFailed
    BY FailureFields
  <2> QED BY <2>1 DEF SameBut, Fields
<1>8. p.primitiveHasFailed /\ DOMAIN p = Fields /\ p.scripts = m.scripts
  BY <1>1, <1>2, <1>6, <1>7
<1>9. Leaves(m, p)
  <2>1. Leaves(m, q)
    <3>1. Base(m, m.framePointer) = m.framePointer - 3 - m.argumentCount
      BY WorksReady DEF Base, ArgumentCount, MetaAt
    <3>2. \A i \in 1..Base(m, m.framePointer) : i # m.sp + 1 /\ i \in 1..MaxStack
      BY <1>1, <3>1, StackAssumption DEF Ready, DataOK, ReceiverOffset
    <3>3. \A i \in 1..MaxStack : i # m.sp + 1 => q.stack[i] = m.stack[i]
      BY <1>1, PushKeeps DEF q
    <3> QED BY <3>2, <3>3 DEF Leaves
  <2>2. primitiveFailed(q).stack = q.stack /\ primitiveFailed(m).stack = m.stack
    BY <1>1, <1>2 DEF primitiveFailed, Fields
  <2> QED BY <1>6, <2>1, <2>2 DEF Leaves
<1> QED BY <1>8, <1>9 DEF NativeEnds

\* A method can be installed in a class.
LEMMA KeepsMethodDict ==
  ASSUME NEW m, NEW p, Ready(m), SameBut(m, p, {"methodDict"}), MethodDictOK(p)
  PROVE  Keeps(m, p) /\ Ready(p)
<1>1. /\ DOMAIN p = Fields /\ p.stack = m.stack /\ p.sp = m.sp /\ p.heap = m.heap
      /\ p.scripts = m.scripts /\ p.globals = m.globals /\ p.framePointer = m.framePointer
      /\ p.argumentCount = m.argumentCount /\ p.isBlock = m.isBlock /\ p.method = m.method
  BY DEF SameBut, Fields
<1>2. HeapGrows(m, p)
  BY <1>1 DEF HeapGrows
<1>3. \A word : Known(m, word) => Known(p, word)
  BY <1>1 DEF Known
<1>4. HeapOK(p)
  BY <1>1, <1>2, ObjectGrows DEF Ready, DataOK, HeapOK
<1>5. StackOK(p) /\ GlobalsOK(p)
  BY <1>1, <1>3 DEF Ready, DataOK, StackOK, GlobalsOK
<1>6. ScriptsOK(p)
  BY <1>1, <1>3 DEF Ready, DataOK, ScriptsOK, ScriptOK
<1>7. DataOK(p)
  BY <1>1, <1>4, <1>5, <1>6 DEF Ready, DataOK
<1> QED BY <1>1, <1>2, <1>7 DEF Keeps, Ready

\* A value is returned after something has been written that is no part of a frame.
LEMMA KeptEnds ==
  ASSUME Verified, NEW m, Works(m), NEW p, Keeps(m, p), p.status = m.status, p.nativeFailed = m.nativeFailed,
         p.primitiveHasFailed = m.primitiveHasFailed, p.sp = m.sp, NEW value, Known(p, value)
  PROVE  Ends(m, returnValue(p, value))
<1>1. Works(p) /\ \A r : (Answers(p, r) => Answers(m, r)) /\ (Leaves(p, r) => Leaves(m, r))
  BY WorkKept, Zenon
<1>2. Leaves(p, returnValue(p, value)) /\ ~returnValue(p, value).primitiveHasFailed
  <2>1. DOMAIN p = Fields /\ ~p.primitiveHasFailed
    BY <1>1, WorksReady
  <2> QED BY <1>1, <2>1, StopLeaves, ReturnLeaves
<1>3. returnValue(p, value).status = "running" => Answers(p, returnValue(p, value))
  BY <1>1, WorkAnswers
<1> QED BY <1>1, <1>2, <1>3 DEF Ends

\* A variable of an object is written that is no context and no closure.
LEMMA SlotKept ==
  ASSUME NEW m, Ready(m), NEW v \in DOMAIN m.heap, m.heap[v].class \notin Reserved, NEW i, NEW oop,
         Known(m, oop)
  PROVE  LET p == [m EXCEPT !.heap[v].slots[i] = oop] IN
         Keeps(m, p) /\ Ready(p) /\ SameBut(m, p, {"heap"}) /\ HeapGrows(m, p)
<1> DEFINE object == [m.heap[v] EXCEPT !.slots = [@ EXCEPT ![i] = oop]]
           p == [m EXCEPT !.heap[v].slots[i] = oop]
<1>1. DOMAIN m = Fields /\ HeapOK(m)
  BY DEF Ready, DataOK
<1>3. SameBut(m, p, {"heap"}) /\ p.heap = [m.heap EXCEPT ![v] = object]
  BY <1>1 DEF SameBut, Fields
<1> HIDE DEF p
<1>4. ObjectOK(m, m.heap[v])
  BY <1>1 DEF HeapOK
<1>5. /\ DOMAIN object = {"class", "slots", "elements"} /\ object.class = m.heap[v].class
      /\ object.slots = [m.heap[v].slots EXCEPT ![i] = oop] /\ object.elements = m.heap[v].elements
  BY <1>4 DEF ObjectOK
<1> HIDE DEF object
<1>6. object.class # "Context" /\ object.class # "BlockClosure"
  BY <1>5 DEF Reserved
<1>7. ObjectOK(m, object)
  BY <1>4, <1>5, <1>6 DEF ObjectOK
<1>8. /\ HeapGrows(m, p) /\ HeapOK(p) /\ DOMAIN p.heap = DOMAIN m.heap
      /\ \A j \in DOMAIN m.heap : p.heap[j] = IF j = v THEN object ELSE m.heap[j]
  <2>1. object.class = "Context" => object.slots[4] = m.heap[v].slots[4] /\ object.slots[6] = m.heap[v].slots[6]
    BY <1>6
  <2>2. object.class = m.heap[v].class
    BY <1>5
  <2> QED BY <1>1, <1>3, <1>7, <2>1, <2>2, HeapWrite
<1>9. Keeps(m, p) /\ Ready(p)
  BY <1>1, <1>3, <1>6, <1>8, KeepsHeap
<1> QED BY <1>3, <1>8, <1>9 DEF p

\* An element of an array is written.
LEMMA ElementKept ==
  ASSUME NEW m, Ready(m), NEW v \in DOMAIN m.heap, m.heap[v].class \notin Reserved,
         NEW i \in DOMAIN m.heap[v].elements, NEW oop, Known(m, oop)
  PROVE  LET p == [m EXCEPT !.heap[v].elements[i] = oop] IN
         Keeps(m, p) /\ Ready(p) /\ SameBut(m, p, {"heap"})
<1> DEFINE object == [m.heap[v] EXCEPT !.elements = [@ EXCEPT ![i] = oop]]
           p == [m EXCEPT !.heap[v].elements[i] = oop]
           e == m.heap[v].elements
           d == [e EXCEPT ![i] = oop]
<1>1. DOMAIN m = Fields /\ HeapOK(m)
  BY DEF Ready, DataOK
<1>3. SameBut(m, p, {"heap"}) /\ p.heap = [m.heap EXCEPT ![v] = object]
  BY <1>1 DEF SameBut, Fields
<1> HIDE DEF p
<1>4. ObjectOK(m, m.heap[v])
  BY <1>1 DEF HeapOK
<1>5. /\ DOMAIN object = {"class", "slots", "elements"} /\ object.class = m.heap[v].class
      /\ object.slots = m.heap[v].slots /\ object.elements = d
  BY <1>4 DEF ObjectOK
<1> HIDE DEF object
<1>6. object.class # "Context" /\ object.class # "BlockClosure"
  BY <1>5 DEF Reserved
<1>7. IsSequence(d) /\ \A j \in DOMAIN d : Known(m, d[j])
  <2>1. IsSequence(e) /\ \A j \in DOMAIN e : Known(m, e[j])
    BY <1>4 DEF ObjectOK
  <2>2. i \in 1..Len(e) /\ DOMAIN e = 1..Len(e)
    BY <2>1, SequenceDomain
  <2>3. IsSequence(d)
    <3> HIDE DEF e, d
    <3> USE DEF d
    <3> QED BY <2>1, <2>2, SequenceExcept
  <2>4. \A j \in DOMAIN d : j \in DOMAIN e /\ d[j] = IF j = i THEN oop ELSE e[j]
    OBVIOUS
  <2> QED BY <2>1, <2>3, <2>4
<1>8. ObjectOK(m, object)
  <2> HIDE DEF d
  <2>1. \A j \in DOMAIN object.slots : Known(m, object.slots[j])
    BY <1>4, <1>5 DEF ObjectOK
  <2> QED BY <1>5, <1>6, <1>7, <2>1 DEF ObjectOK
<1>9. /\ HeapGrows(m, p) /\ HeapOK(p) /\ DOMAIN p.heap = DOMAIN m.heap
      /\ \A j \in DOMAIN m.heap : p.heap[j] = IF j = v THEN object ELSE m.heap[j]
  <2>1. object.class = "Context" => object.slots[4] = m.heap[v].slots[4] /\ object.slots[6] = m.heap[v].slots[6]
    BY <1>6
  <2>2. object.class = m.heap[v].class
    BY <1>5
  <2> QED BY <1>1, <1>3, <1>8, <2>1, <2>2, HeapWrite
<1>10. Keeps(m, p) /\ Ready(p)
  BY <1>1, <1>3, <1>6, <1>9, KeepsHeap
<1> QED BY <1>3, <1>10 DEF p

\* A variable of a script context is set.
LEMMA SetScriptSlotEnds ==
  ASSUME Verified, NEW m, Works(m), currentReceiver(m).tag = "pointer",
         m.heap[currentReceiver(m).value].class \notin Reserved, NEW i, NEW oop, Known(m, oop)
  PROVE  Ends(m, SetScriptSlot(m, i, oop))
<1> DEFINE v == currentReceiver(m).value
           p == [m EXCEPT !.heap[v].slots[i] = oop]
<1>1. Ready(m) /\ Known(m, currentReceiver(m)) /\ v \in DOMAIN m.heap
  BY WorksReady DEF Known
<1>2. Keeps(m, p) /\ SameBut(m, p, {"heap"}) /\ HeapGrows(m, p)
  BY <1>1, SlotKept
<1> HIDE DEF p
<1>3. p.status = m.status /\ p.nativeFailed = m.nativeFailed /\ p.primitiveHasFailed = m.primitiveHasFailed
      /\ p.sp = m.sp
  BY <1>2 DEF SameBut, Fields
<1>4. Known(p, currentReceiver(m))
  BY <1>1, <1>2, KnownGrows
<1> QED BY <1>2, <1>3, <1>4, KeptEnds DEF SetScriptSlot, p

\* A method is compiled and added to a class.
LEMMA AddToEnds ==
  ASSUME Verified, NEW m, Works(m), NEW index
  PROVE  Ends(m, AddTo(m, index))
<1> DEFINE class == ScriptSlot(m, index)
           k == getTemporary(m, 0).value
           name == class.name
           p == AddMethod(m, k, class)
           method == compiled.methods[k][name]
           added == CompiledMethod(k, name)
           q == [m EXCEPT !.methodDict[name] = AtPut(@, method.selector, added)]
<1>1. Ready(m) /\ DOMAIN m = Fields /\ Known(m, currentReceiver(m)) /\ MethodDictOK(m)
  BY WorksReady DEF Ready, DataOK
<1>2. \A status : status # "running" => /\ DOMAIN Stop(m, status) = Fields
                                        /\ Stop(m, status).status # "running"
                                        /\ Ends(m, Stop(m, status))
                                        /\ Ends(m, returnValue(Stop(m, status), currentReceiver(m)))
  <2> TAKE status
  <2> HAVE status # "running"
  <2> DEFINE x == Stop(m, status)
  <2>1. SameBut(m, x, {"status"}) /\ x.status # "running" /\ Leaves(m, x)
    BY <1>1, StopFields, StopLeaves
  <2> HIDE DEF x
  <2>2. /\ DOMAIN x = Fields /\ x.framePointer = m.framePointer /\ x.argumentCount = m.argumentCount
        /\ x.stack = m.stack /\ ~x.primitiveHasFailed
    BY <2>1, WorksReady DEF SameBut, Fields
  <2>3. Leaves(m, returnValue(x, currentReceiver(m))) /\ ~returnValue(x, currentReceiver(m)).primitiveHasFailed
    BY <2>1, <2>2, ReturnLeaves
  <2>4. returnValue(x, currentReceiver(m)).status # "running"
    BY <2>1, <2>2, StoppedStays
  <2> QED BY <2>1, <2>2, <2>3, <2>4 DEF Ends, x
<1>3. ASSUME k \in DOMAIN compiled.methods, name \in DOMAIN compiled.methods[k], ~method.failed
      PROVE  Ends(m, returnValue(q, currentReceiver(m)))
  <2>1. added.tag = "compiled" /\ added.value = k /\ added.name = name
    BY DEF CompiledMethod, Word
  <2>2. added \in Methods /\ MethodOf(added) = method
    <3> HIDE DEF k, name
    <3>1. added \in Programmed
      BY <1>3 DEF Programmed
    <3>2. MethodOf(added) = method
      BY <2>1 DEF MethodOf
    <3> HIDE DEF added, method
    <3> QED BY <1>3, <2>1, <3>1, <3>2 DEF Methods
  <2> HIDE DEF added, method, name, k
  <2>3. SameBut(m, q, {"methodDict"})
        /\ q.methodDict = [m.methodDict EXCEPT ![name] = AtPut(m.methodDict[name], method.selector, added)]
    BY <1>1 DEF SameBut, Fields
  <2> HIDE DEF q
  <2>4. MethodDictOK(q)
    <3> SUFFICES ASSUME NEW c \in DOMAIN q.methodDict, NEW s \in DOMAIN q.methodDict[c]
                 PROVE  EntryOK(c, s, q.methodDict[c][s])
      BY DEF MethodDictOK
    <3>1. c \in DOMAIN m.methodDict
      BY <2>3
    <3>2. CASE c # name
      <4>1. q.methodDict[c] = m.methodDict[c]
        BY <2>3, <3>1, <3>2
      <4> QED BY <1>1, <3>1, <4>1 DEF MethodDictOK
    <3>3. CASE c = name
      <4>1. q.methodDict[c] = AtPut(m.methodDict[name], method.selector, added)
        BY <2>3, <3>1, <3>3
      <4>2. s \in DOMAIN m.methodDict[c] \cup {method.selector}
            /\ q.methodDict[c][s] = IF s = method.selector THEN added ELSE m.methodDict[c][s]
        BY <3>3, <4>1 DEF AtPut
      <4>3. CASE s = method.selector
        <5>1. EntryOK(c, s, added)
          BY <2>1, <2>2, <3>3, <4>3 DEF EntryOK
        <5> QED BY <4>2, <4>3, <5>1
      <4>4. CASE s # method.selector
        BY <1>1, <3>1, <4>2, <4>4 DEF MethodDictOK
      <4> QED BY <4>3, <4>4
    <3> QED BY <3>2, <3>3
  <2>5. Keeps(m, q)
    BY <1>1, <2>3, <2>4, KeepsMethodDict
  <2>6. q.status = m.status /\ q.nativeFailed = m.nativeFailed /\ q.primitiveHasFailed = m.primitiveHasFailed
        /\ q.sp = m.sp /\ q.heap = m.heap
    BY <2>3 DEF SameBut, Fields
  <2>7. Known(q, currentReceiver(m))
    BY <1>1, <2>6 DEF Known
  <2> QED BY <2>5, <2>6, <2>7, KeptEnds
<1>5. Ends(m, returnValue(p, currentReceiver(m)))
  <2>1. \/ p = Stop(m, "bounded") \/ p = Stop(m, "aborted")
        \/ k \in DOMAIN compiled.methods /\ name \in DOMAIN compiled.methods[k] /\ ~method.failed /\ p = q
    BY Zenon DEF AddMethod
  <2>2. /\ Ends(m, returnValue(Stop(m, "bounded"), currentReceiver(m)))
        /\ Ends(m, returnValue(Stop(m, "aborted"), currentReceiver(m)))
    BY <1>2
  <2> HIDE DEF p, q, k, name, method
  <2> QED BY <1>3, <2>1, <2>2
<1>6. AddTo(m, index) = Stop(m, "aborted") \/ AddTo(m, index) = returnValue(p, currentReceiver(m))
  BY Zenon DEF AddTo
<1> HIDE DEF p
<1> QED BY <1>2, <1>5, <1>6

\* A file is run in the frame of the native method, with an operand below the
\* value of its last statement.
LEMMA ExecuteFileEnds ==
  ASSUME Verified, NEW m, InNative(m)
  PROVE  NativeEnds(m, stExecuteFileNamed(m))
<1> DEFINE file == getTemporary(m, 0).value
           ops == compiled.scripts[file].ops
           a == Push(m, nil)
           context == Object("ScriptContext", <<nil, nil, ClassOop(Metaclass("GlobalContext")), nil>>, << >>)
           p == Allocate(a, context)
           script == Script(ops, Newest(p))
           q == [p EXCEPT !.scripts = Append(@, script)]
<1>1. Works(m) /\ ~IsCompiled(m, m.framePointer) /\ m.pc = 0 /\ m.sp = m.framePointer + 4 /\ m.framePointer # 3
  BY DEF InNative
<1>2. PICK n \in Nat : \E F \in [1..n -> Nat], S \in [1..n -> Nat] : WorksIn(m, n, F, S)
  BY <1>1 DEF Works
<1>3. PICK F \in [1..n -> Nat], S \in [1..n -> Nat] : WorksIn(m, n, F, S)
  BY <1>2
<1>4. Layout(m, n, F, S) /\ Serves(m, S[n])
  BY <1>3 DEF WorksIn
<1>5. Ready(m) /\ DOMAIN m = Fields
  BY <1>1, WorksReady
<1>6. Keeps(m, a) /\ Ready(a) /\ a.sp = m.sp + 1 /\ SameBut(m, a, {"stack", "sp"}) /\ a.heap = m.heap
  <2>1. Known(m, nil)
    BY WordFields DEF Known
  <2> QED BY <1>5, <2>1, PushKeeps, PushFields
<1> HIDE DEF a
<1>7. ObjectOK(a, context) /\ (context.class = "Context" => context.slots[1].tag # "raw")
  <2> DEFINE slots == <<nil, nil, ClassOop(Metaclass("GlobalContext")), nil>>
  <2>1. DOMAIN context = {"class", "slots", "elements"} /\ context.class = "ScriptContext"
        /\ context.slots = slots /\ context.elements = << >>
    BY DEF Object
  <2>2. \A i \in DOMAIN slots : slots[i].tag # "pointer"
    <3>1. ClassOop(Metaclass("GlobalContext")).tag # "pointer" /\ nil.tag # "pointer"
      BY WordFields DEF ClassOop, Word
    <3> QED BY <3>1
  <2> HIDE DEF context, slots
  <2> QED BY <2>1, <2>2, EmptySequence DEF ObjectOK, Known
<1> HIDE DEF context
<1>8. /\ Keeps(a, p) /\ Ready(p) /\ p.sp = a.sp /\ p.stack = a.stack /\ Known(p, Newest(p))
      /\ SameBut(a, p, {"heap"})
  <2>1. DOMAIN a = Fields
    BY <1>6 DEF SameBut
  <2> QED BY <1>6, <1>7, <2>1, AllocateKeeps, AllocateFields
<1> HIDE DEF p
<1>9. Keeps(m, p)
  BY <1>6, <1>8, KeepsTransitive
<1>10. Layout(p, n, F, S) /\ Untouched(m, p) /\ SameFrame(m, p, m.framePointer)
  <2>1. m.framePointer = F[n] /\ n \in 1..n
    BY <1>4, FrameRead
  <2> QED BY <1>4, <1>9, <2>1, LayoutKept, KeepsUntouched, KeepsFrames
<1>11. /\ DOMAIN p = Fields /\ p.pc = 0 /\ p.nativeFailed = m.nativeFailed
       /\ p.framePointer = m.framePointer /\ p.scripts = m.scripts /\ p.sp = m.framePointer + 5
       /\ ~IsCompiled(p, m.framePointer)
  <2>1. p.pc = m.pc /\ p.nativeFailed = m.nativeFailed /\ DOMAIN p = Fields
    BY <1>6, <1>8 DEF SameBut, Fields
  <2>2. p.framePointer = m.framePointer /\ p.scripts = m.scripts
    BY <1>9 DEF Keeps
  <2>3. ~IsCompiled(p, m.framePointer)
    BY <1>1, <1>10 DEF IsCompiled, MethodAt, SameFrame
  <2>4. p.sp = m.framePointer + 5
    <3>1. m.framePointer \in Nat /\ m.sp \in Nat
      BY <1>5 DEF Ready, DataOK
    <3> QED BY <1>1, <1>6, <1>8, <3>1
  <2> QED BY <1>1, <2>1, <2>2, <2>3, <2>4
<1>12. IsSequence(m.scripts) /\ \A s \in DOMAIN m.scripts : ScriptOK(p, m.scripts[s])
  BY <1>8, <1>11 DEF Ready, DataOK, ScriptsOK
<1>17. \A i \in 1..Base(m, m.framePointer) : p.stack[i] = m.stack[i]
  <2>1. Base(m, m.framePointer) = m.framePointer - 3 - m.argumentCount
    BY <1>4, FrameRead DEF Base
  <2> QED BY <1>10, <2>1 DEF Untouched
<1> DEFINE r == executeScriptFromFile(a, file)
<1>13. ASSUME file \in DOMAIN compiled.scripts, ~compiled.scripts[file].readable
       PROVE  NativeEnds(m, r)
  <2>1. r = primitiveFailed(p)
    BY <1>13, Zenon DEF executeScriptFromFile, p, context
  <2>2. SameBut(p, primitiveFailed(p), {"primitiveHasFailed"}) /\ primitiveFailed(p).primitiveHasFailed
    BY <1>11, FailureFields
  <2> HIDE DEF r
  <2>3. r.primitiveHasFailed /\ DOMAIN r = Fields /\ r.scripts = m.scripts /\ r.stack = p.stack
    BY <1>11, <2>1, <2>2 DEF SameBut, Fields
  <2> QED BY <1>17, <2>3 DEF NativeEnds, Leaves
<1>14. ASSUME file \in DOMAIN compiled.scripts, compiled.scripts[file].readable
       PROVE  NativeEnds(m, r)
  <2>1. r = q
    BY <1>14, Zenon DEF executeScriptFromFile, p, context
  <2>2. SameBut(p, q, {"scripts"}) /\ q.scripts = Append(m.scripts, script)
    BY <1>11 DEF SameBut, Fields
  <2> HIDE DEF q, r
  <2>3. script.ops = ops /\ script.ip = 1 /\ script.self = Newest(p) /\ DOMAIN script = {"ops", "ip", "self"}
    BY DEF Script
  <2> HIDE DEF script
  <2>4. VerifiedScript(ops)
    BY <1>14 DEF Verified
  <2> HIDE DEF ops
  <2>5. Len(ops) \in Nat
    BY <2>4 DEF VerifiedScript
  <2>6. /\ IsSequence(q.scripts) /\ Len(q.scripts) = Len(m.scripts) + 1
        /\ q.scripts[Len(m.scripts) + 1] = script
        /\ \A s \in 1..Len(m.scripts) : q.scripts[s] = m.scripts[s]
        /\ Len(m.scripts) \in Nat /\ DOMAIN m.scripts = 1..Len(m.scripts)
        /\ DOMAIN q.scripts = 1..Len(m.scripts) + 1
    BY <1>12, <2>2, SequenceAppend, SequenceDomain
  <2>7. q.heap = p.heap /\ q.stack = p.stack /\ q.sp = p.sp /\ q.pc = p.pc
        /\ q.nativeFailed = p.nativeFailed /\ q.framePointer = p.framePointer
    BY <2>2 DEF SameBut, Fields
  <2>8. \A word : Known(p, word) => Known(q, word)
    BY <2>7 DEF Known
  <2>9. ScriptOK(q, script)
    BY <1>8, <2>3, <2>4, <2>5, <2>8 DEF ScriptOK
  <2>10. \A s \in DOMAIN m.scripts : ScriptOK(q, m.scripts[s])
    BY <1>12, <2>8 DEF ScriptOK
  <2>11. ScriptsOK(q)
    <3>1. \A s \in DOMAIN q.scripts : s = Len(m.scripts) + 1 \/ s \in DOMAIN m.scripts
      BY <2>6
    <3> QED BY <2>6, <2>9, <2>10, <3>1 DEF ScriptsOK
  <2>12. Layout(q, n, F, S)
    <3>1. \A k \in 1..n - 1 : S[k] \in DOMAIN p.scripts /\ ~IsCompiled(p, F[k])
                             => S[k] \in DOMAIN q.scripts /\ q.scripts[S[k]] = p.scripts[S[k]]
      <4>1. \A s \in DOMAIN p.scripts : s \in DOMAIN q.scripts /\ q.scripts[s] = p.scripts[s]
        <5>1. \A s \in 1..Len(m.scripts) : s \in 1..Len(m.scripts) + 1
          BY <2>6
        <5> QED BY <1>11, <2>6, <5>1
      <4> QED BY <4>1
    <3> QED BY <1>10, <2>2, <2>11, <3>1, ScriptsKept
  <2>13. S[n] = Len(q.scripts)
    BY <1>1, <1>4, <2>6 DEF Serves
  <2>14. ScriptDepth(q.scripts[Len(q.scripts)]) = 0
    <3>1. ScriptDepth(script) = 0
      BY <2>3, <2>5, ScriptDepthStep DEF ScriptDepth
    <3> QED BY <2>6, <3>1
  <2>15. Balanced(q, S[n])
    <3>1. ScriptOperands(q, q.framePointer, S[n]) = 1
      BY <1>1, <1>11, <2>7, <2>13, <2>14 DEF ScriptOperands
    <3>2. ~IsCompiled(q, q.framePointer) /\ q.pc = 0 /\ q.sp = m.framePointer + 5
          /\ q.framePointer = m.framePointer
      BY <1>11, <2>7 DEF IsCompiled, MethodAt
    <3>3. q.sp = q.framePointer + ReceiverOffset + 1
      <4>1. m.framePointer \in Nat
        BY <1>5 DEF Ready
      <4> QED BY <3>2, <4>1 DEF ReceiverOffset
    <3> QED BY <2>13, <3>1, <3>2, <3>3 DEF Balanced
  <2>16. Settled(q)
    BY <2>12, <2>15 DEF Settled
  <2>17. Leaves(m, q)
    BY <1>17, <2>7 DEF Leaves
  <2> QED BY <1>11, <2>1, <2>6, <2>7, <2>16, <2>17 DEF NativeEnds
<1>15. NativeEnds(m, Stop(m, "aborted"))
  BY <1>5, StopFields, StopLeaves DEF NativeEnds
<1>16. \/ stExecuteFileNamed(m) = Stop(m, "aborted")
       \/ file \in DOMAIN compiled.scripts /\ stExecuteFileNamed(m) = r
  BY Zenon DEF stExecuteFileNamed, a
<1> HIDE DEF r
<1> QED BY <1>13, <1>14, <1>15, <1>16

\* The class of a receiver that a native method of scripts does not have.
LEMMA PrimitiveEnds ==
  ASSUME Verified, NEW m, InNative(m), NEW function,
         function \in ScriptFunctions /\ currentReceiver(m).tag = "pointer" =>
           m.heap[currentReceiver(m).value].class \notin Reserved
  PROVE  NativeEnds(m, Primitive(m, function))
<1>1. Works(m)
  BY DEF InNative
<1>2. Ready(m) /\ DOMAIN m = Fields /\ \A i : Known(m, getTemporary(m, i))
  BY <1>1, WorksReady, TemporaryKnown
<1>3. \A p : Ends(m, p) => NativeEnds(m, p)
  BY <1>1, EndsNative
<1>4. NativeEnds(m, primitiveFailed(m)) /\ NativeEnds(m, Stop(m, "crashed"))
  <2>1. ~m.primitiveHasFailed /\ Leaves(m, primitiveFailed(m)) /\ Leaves(m, Stop(m, "crashed"))
    BY <1>1, <1>2, WorksReady, StopLeaves
  <2>2. ~Stop(m, "crashed").primitiveHasFailed /\ Stop(m, "crashed").status = "crashed"
    BY <1>2, <2>1, StopFields DEF SameBut, Fields
  <2>3. Ends(m, primitiveFailed(m)) /\ Ends(m, Stop(m, "crashed"))
    BY <2>1, <2>2 DEF Ends
  <2> QED BY <1>3, <2>3
<1>5. ASSUME function \in ScriptFunctions PROVE NativeEnds(m, ScriptNative(m, function))
  <2> DEFINE temporary == getTemporary(m, 0)
             pointer == currentReceiver(m).tag = "pointer"
  <2>1. pointer => NativeEnds(m, SetScriptSlot(m, 1, temporary)) /\ NativeEnds(m, SetScriptSlot(m, 2, temporary))
    BY <1>1, <1>2, <1>3, <1>5, SetScriptSlotEnds
  <2>2. NativeEnds(m, AddTo(m, 3)) /\ NativeEnds(m, AddTo(m, 2)) /\ NativeEnds(m, stExecuteFileNamed(m))
    BY <1>1, <1>3, AddToEnds, ExecuteFileEnds
  <2> QED BY <1>4, <1>5, <2>1, <2>2 DEF ScriptNative, ScriptFunctions, temporary
<1>6. NativeEnds(m, ObjectNative(m, function))
  <2>1. CASE function \in {"Object::stAt", "Object::stAtPut"}
    <3>1. \/ ObjectNative(m, function) = stAt(m) \/ ObjectNative(m, function) = stAtPut(m)
          \/ function \in NumberFunctions /\ ObjectNative(m, function) = NumberNative(m, function)
      BY <2>1 DEF ObjectNative
    <3>2. function \in NumberFunctions => Ends(m, NumberNative(m, function))
      BY <1>1, NumberNativeEnds
    <3> QED BY <1>1, <1>3, <3>1, <3>2, AccessFails
  <2>2. CASE function \notin {"Object::stAt", "Object::stAtPut"}
    BY <1>1, <1>3, <2>2, ObjectNativeEnds
  <2> QED BY <2>1, <2>2
<1> QED BY <1>5, <1>6 DEF Primitive

(***************************************************************************)
(* Sending.                                                                *)
(***************************************************************************)
\* What a step makes of a machine: no word of the callers has changed, and the
\* machine has stopped or goes on in a frame that is as it should be; or a native
\* method has failed, which leaves words on the stack.
Steps(m, p) == \/ p.nativeFailed /\ DOMAIN p = Fields
               \/ Untouched(m, p) /\ (p.status = "running" => Settled(p))

\* A step from a machine that has been worked on is one from the machine
\* before.
LEMMA StepsAfter ==
  ASSUME NEW m, NEW p, NEW q, Keeps(m, p), Untouched(m, p), Steps(p, q)
  PROVE  Steps(m, q)
<1>1. p.framePointer = m.framePointer /\ p.argumentCount = m.argumentCount
  BY DEF Keeps
<1> QED BY <1>1 DEF Steps, Untouched

\* A machine that has fetched an instruction of its method with the operands that
\* were known for it.
LEMMA Arrives ==
  ASSUME Verified, NEW m, NEW n, NEW F, NEW S, Layout(m, n, F, S), n \in Nat,
         F \in [1..n -> Nat], S \in [1..n -> Nat], S[n] = Len(m.scripts),
         m.method \in Methods, NEW pc, NEW d, Reaches(m.method, pc, d),
         m.pc = FirstFrom(CodeOf(m.method), pc), m.sp = m.framePointer + 4 + d
  PROVE  Settled(m)
<1>1. m.method = MethodAt(m, m.framePointer) /\ m.framePointer \in Nat
  BY FrameRead
<1>2. /\ m.pc \in DOMAIN DepthsOf(m.method) /\ m.pc # 0 /\ CodeOf(m.method)[m.pc].op # "Label"
      /\ DepthsOf(m.method)[m.pc] = d /\ d \in Nat
  BY FirstFromIsCode
<1>3. IsCompiled(m, m.framePointer)
  BY <1>1, MethodsAreCompiled DEF IsCompiled
<1>4. m.sp = m.framePointer + ReceiverOffset + DepthsOf(m.method)[m.pc]
  BY <1>1, <1>2 DEF ReceiverOffset
<1>5. Balanced(m, S[n])
  BY <1>2, <1>3, <1>4 DEF Balanced
<1> QED BY <1>5 DEF Settled

\* A new frame begins with an instruction of its method.
LEMMA Entered ==
  ASSUME Verified, NEW q, NEW n, NEW F, NEW S, Layout(q, n, F, S), n \in Nat,
         F \in [1..n -> Nat], S \in [1..n -> Nat], S[n] = Len(q.scripts),
         q.method \in Methods, q.status = "running", NEW pc, NEW d, Reaches(q.method, pc, d),
         q.sp = q.framePointer + 4 + d
  PROVE  LET r == FetchAt(q, pc) IN r.stack = q.stack /\ (r.status = "running" => Settled(r))
<1> DEFINE r == FetchAt(q, pc)
<1>1. Ready(q) /\ DOMAIN q = Fields
  BY LayoutReady DEF Ready, DataOK
<1>2. Keeps(q, r) /\ r.sp = q.sp /\ r.stack = q.stack
  BY <1>1, FetchAtKeeps
<1>3. pc # 0
  BY DEF Reaches
<1>4. r.status = "running" => r.pc = FirstFrom(CodeOf(q.method), pc)
  BY <1>1, <1>3, FetchAtRunning
<1> HIDE DEF r
<1>5. Layout(r, n, F, S)
  BY <1>2, LayoutKept
<1>6. r.scripts = q.scripts /\ r.method = q.method /\ r.framePointer = q.framePointer
  BY <1>2 DEF Keeps
<1>7. ASSUME r.status = "running" PROVE Settled(r)
  BY <1>2, <1>4, <1>5, <1>6, <1>7, Arrives
<1> QED BY <1>2, <1>7 DEF r

\* Where a message finds its receiver, and what it can activate.
Sends(m, n, F, S, args) ==
  /\ Layout(m, n, F, S) /\ n \in Nat /\ F \in [1..n -> Nat] /\ S \in [1..n -> Nat]
  /\ Resumable(m, S[n], args) /\ S[n] = Len(m.scripts) /\ m.status = "running" /\ m.sp + 16 <= MaxStack

Callable(m, method, args, receiver) ==
  IF method.tag = "compiled"
  THEN method \in Methods /\ MethodOf(method).arguments = args /\ Fits(m, method, receiver)
  ELSE /\ method.tag # "pointer"
       /\ method.name \in ScriptFunctions /\ receiver.tag = "pointer" =>
            m.heap[receiver.value].class \notin Reserved

\* What a message finds.
LEMMA SendsReady ==
  ASSUME NEW m, NEW n, NEW F, NEW S, NEW args, Sends(m, n, F, S, args)
  PROVE  /\ Layout(m, n, F, S) /\ Ready(m) /\ Resumable(m, S[n], args) /\ S[n] = Len(m.scripts)
         /\ m.status = "running" /\ n \in Nat /\ F \in [1..n -> Nat] /\ S \in [1..n -> Nat]
         /\ m.sp \in Nat /\ m.framePointer \in Nat /\ 3 <= m.framePointer /\ args \in 0..255
         /\ m.argumentCount \in 0..255 /\ MaxStack \in Nat /\ m.sp + 16 <= MaxStack
         /\ m.framePointer + 4 < m.sp - args
         /\ stackOopAt(m, args) = m.stack[m.sp - args] /\ Known(m, stackOopAt(m, args))
<1>1. /\ Layout(m, n, F, S) /\ Resumable(m, S[n], args) /\ S[n] = Len(m.scripts) /\ m.status = "running"
      /\ n \in Nat /\ F \in [1..n -> Nat] /\ S \in [1..n -> Nat] /\ m.sp + 16 <= MaxStack
  BY DEF Sends
<1>2. Ready(m) /\ m.sp \in Nat /\ m.framePointer \in Nat /\ 3 <= m.framePointer /\ m.argumentCount \in 0..255
  BY <1>1, LayoutReady, FrameRead
<1>3. args \in 0..255 /\ m.framePointer + 4 < m.sp - args /\ MaxStack \in Nat
  BY <1>1, StackAssumption DEF Resumable
<1>4. stackOopAt(m, args) = m.stack[m.sp - args]
  BY DEF stackOopAt
<1>5. m.sp <= MaxStack /\ args \in Nat /\ args < m.sp
  BY <1>1, <1>2, <1>3
<1>6. Known(m, stackOopAt(m, args))
  BY <1>2, <1>5, TopKnown
<1> QED BY <1>1, <1>2, <1>3, <1>4, <1>6

\* The receiver is found below the pc that has been pushed.
LEMMA ReceiverBelowPC ==
  ASSUME NEW m, NEW n, NEW F, NEW S, NEW args, Sends(m, n, F, S, args)
  PROVE  stackOopAt(pushPC(m), 1 + args) = stackOopAt(m, args)
<1> DEFINE word == Raw(IF m.pc = 0 THEN 0 ELSE m.pc + 1)
           p == Push(m, word)
<1>1. Known(m, word)
  BY WordFields DEF Known
<1> HIDE DEF word
<1>2. /\ p.sp = m.sp + 1
      /\ \A i \in 1..MaxStack : i # m.sp + 1 => p.stack[i] = m.stack[i]
  BY <1>1, SendsReady, PushKeeps
<1> HIDE DEF p
<1>3. /\ m.sp \in Nat /\ args \in 0..255 /\ m.sp + 16 <= MaxStack /\ MaxStack \in Nat
      /\ m.framePointer \in Nat /\ m.framePointer + 4 < m.sp - args
  BY SendsReady
<1>4. p.sp - (1 + args) = m.sp - args
  BY <1>2, <1>3
<1>5. m.sp - args \in 1..MaxStack /\ m.sp - args # m.sp + 1
  BY <1>3
<1>6. p.stack[p.sp - (1 + args)] = m.stack[m.sp - args]
  BY <1>2, <1>4, <1>5
<1> QED BY <1>6 DEF stackOopAt, pushPC, p, word

\* A method or a block begins: a frame with its variables, that goes on at a pc
\* of the method which is reached with so many operands.
LEMMA FrameEntered ==
  ASSUME Verified, NEW m, NEW n, NEW F, NEW S, NEW args, Sends(m, n, F, S, args),
         NEW method \in Methods, NEW block \in BOOLEAN, NEW receiver, Known(m, receiver),
         Fits(m, method, receiver), NEW locals, Len(locals) \in Nat,
         \A i \in 1..Len(locals) : Known(m, locals[i]), NEW pc, Reaches(method, pc, Len(locals))
  PROVE  Steps(m, FetchAt(fetchFrameData(PushAll(PushFrame(pushPC(m), method, block, args, receiver), locals)), pc))
<1> DEFINE q == fetchFrameData(PushAll(PushFrame(pushPC(m), method, block, args, receiver), locals))
           r == FetchAt(q, pc)
<1>1. method.tag = "compiled" /\ Known(m, method)
  BY MethodsAreCompiled DEF Known
<1>2. FramedWith(m, q, method, block, args, receiver, Len(locals))
  <2>1. Ready(m) /\ m.sp + 6 <= MaxStack /\ args \in 0..255
    BY SendsReady
  <2> QED BY <1>1, <2>1, NewFrame
<1> HIDE DEF q
<1>3. Framed(m, q, method, block, args, receiver) /\ q.sp = m.sp + 6 + Len(locals) /\ q.status = m.status
  BY <1>2 DEF FramedWith
<1>4. Stacked(q, n + 1, S[n]) /\ n + 1 \in Nat /\ Untouched(m, q)
  <2>1. Layout(m, n, F, S) /\ m.sp + 6 <= MaxStack /\ Resumable(m, S[n], args)
    BY SendsReady
  <2> QED BY <1>1, <1>3, <2>1, Called
<1>5. PICK G \in [1..n + 1 -> Nat], T \in [1..n + 1 -> Nat] : Layout(q, n + 1, G, T) /\ T[n + 1] = S[n]
  BY <1>4 DEF Stacked
<1>6. T[n + 1] = Len(q.scripts) /\ q.method = method /\ q.framePointer = m.sp + 2
  BY <1>3, <1>5, SendsReady DEF Framed
<1>7. q.sp = q.framePointer + 4 + Len(locals)
  <2>1. m.sp \in Nat
    BY SendsReady
  <2> QED BY <1>3, <1>6, <2>1
<1>8. q.status = "running" /\ Layout(q, n + 1, G, T)
  BY <1>3, <1>5, SendsReady
<1>9. r.stack = q.stack /\ (r.status = "running" => Settled(r))
  BY <1>4, <1>6, <1>7, <1>8, Entered
<1> QED BY <1>4, <1>9 DEF Steps, Untouched, q

\* A method begins with its arguments and nil in its other variables.
LEMMA MethodActivated ==
  ASSUME Verified, NEW m, NEW n, NEW F, NEW S, NEW args, Sends(m, n, F, S, args), NEW method,
         method.tag = "compiled", Callable(m, method, args, stackOopAt(m, args))
  PROVE  Steps(m, activateMethodFrame(pushPC(m), method))
<1> DEFINE receiver == stackOopAt(m, args)
           locals == Nils(MethodOf(method).temporals)
<1>1. method \in Methods /\ MethodOf(method).arguments = args /\ Fits(m, method, receiver)
  BY DEF Callable
<1>2. MethodOf(method).temporals \in Nat /\ Reaches(method, 1, MethodOf(method).temporals)
  BY <1>1 DEF Verified, VerifiedMethod
<1>3. Len(locals) = MethodOf(method).temporals /\ \A i \in 1..Len(locals) : Known(m, locals[i])
  BY <1>2, NilsKnown
<1>4. activateMethodFrame(pushPC(m), method)
        = FetchAt(fetchFrameData(PushAll(PushFrame(pushPC(m), method, FALSE, args, receiver), locals)), 1)
  BY <1>1, ReceiverBelowPC, Zenon DEF activateMethodFrame
<1>5. Known(m, receiver)
  BY SendsReady
<1> HIDE DEF locals, receiver
<1>6. Steps(m, FetchAt(fetchFrameData(PushAll(PushFrame(pushPC(m), method, FALSE, args, receiver), locals)), 1))
  BY <1>1, <1>2, <1>3, <1>5, FrameEntered
<1> QED BY <1>4, <1>6

\* A block begins with its arguments and the values it has copied.
LEMMA BlockActivated ==
  ASSUME Verified, NEW m, NEW n, NEW F, NEW S, NEW args, Sends(m, n, F, S, args), NEW v \in DOMAIN m.heap,
         m.heap[v].class = "BlockClosure", m.heap[v].slots[3].value = args
  PROVE  Steps(m, activateBlockClosure(pushPC(m), m.heap[v]))
<1> DEFINE closure == m.heap[v]
           context == m.heap[closure.slots[1].value]
           method == context.slots[4]
           receiver == context.slots[6]
           locals == closure.elements
           pc == closure.slots[2].value
           p == pushPC(m)
           r == FetchAt(fetchFrameData(PushAll(PushFrame(p, method, TRUE, args, receiver), locals)), pc)
<1>1. Ready(m) /\ HeapOK(m) /\ DOMAIN m = Fields
  BY SendsReady DEF Ready, DataOK
<1>2. p.heap = m.heap /\ DOMAIN p = Fields /\ Keeps(m, p)
  <2>1. Known(m, Raw(IF m.pc = 0 THEN 0 ELSE m.pc + 1))
    BY WordFields DEF Known
  <2>2. p.heap = m.heap /\ Keeps(m, p)
    BY <1>1, <2>1, PushKeeps DEF pushPC
  <2> HIDE DEF p
  <2> QED BY <2>2 DEF Keeps, DataOK
<1>3. CASE closure.slots[1].tag # "pointer"
  <2>1. activateBlockClosure(p, closure) = Stop(p, "crashed")
    BY <1>3, Zenon DEF activateBlockClosure
  <2>2. Untouched(m, p)
    BY <1>2, SendsReady, KeepsUntouched
  <2>3. Stop(p, "crashed").status # "running" /\ Stop(p, "crashed").stack = p.stack
    BY <1>2, StopFields DEF SameBut, Fields
  <2> QED BY <2>1, <2>2, <2>3 DEF Steps, Untouched
<1>4. CASE closure.slots[1].tag = "pointer"
  <2>1. ObjectOK(m, closure)
    BY <1>1 DEF HeapOK
  <2>2. /\ DOMAIN closure.slots = 1..3 /\ RunsOn(m, context, pc, Len(locals))
        /\ Known(m, closure.slots[1]) /\ IsSequence(locals) /\ \A i \in DOMAIN locals : Known(m, locals[i])
    BY <1>4, <2>1 DEF ObjectOK
  <2>3. closure.slots[1].value \in DOMAIN m.heap
    BY <1>4, <2>2 DEF Known
  <2>4. method \in Methods /\ Reaches(method, pc, Len(locals)) /\ Fits(m, method, receiver)
        /\ context.class = "Context"
    BY <2>2 DEF RunsOn
  <2>5. Known(m, receiver)
    <3>1. ObjectOK(m, context)
      BY <1>1, <2>3 DEF HeapOK
    <3>2. DOMAIN context.slots = 1..7 /\ \A i \in DOMAIN context.slots : Known(m, context.slots[i])
      BY <2>4, <3>1 DEF ObjectOK
    <3> HIDE DEF context
    <3> QED BY <3>2
  <2>6. Len(locals) \in Nat /\ \A i \in 1..Len(locals) : Known(m, locals[i])
    BY <2>2, SequenceDomain
  <2>7. activateBlockClosure(p, closure) = r
    <3> HIDE DEF p
    <3> QED BY <1>2, <1>4, Zenon DEF activateBlockClosure
  <2> HIDE DEF method, receiver, locals, pc, closure
  <2>8. Steps(m, r)
    BY <2>4, <2>5, <2>6, FrameEntered
  <2> QED BY <2>7, <2>8 DEF closure
<1> QED BY <1>3, <1>4

\* A native method runs in a frame of its own, which it leaves unless it runs a
\* script there.
LEMMA NativeCalled ==
  ASSUME Verified, NEW m, NEW n, NEW F, NEW S, NEW args, Sends(m, n, F, S, args), NEW method,
         method.tag # "compiled", Callable(m, method, args, stackOopAt(m, args))
  PROVE  Steps(m, callNativeMethod(pushPC(m), method, args))
<1> DEFINE receiver == stackOopAt(m, args)
           framed == fetchFrameData(PushFrame(pushPC(m), method, FALSE, args, receiver))
           ready == [framed EXCEPT !.pc = 0, !.primitiveHasFailed = FALSE]
           done == Primitive(ready, method.name)
           after == AfterPrimitive(done)
<1>1. method.tag # "pointer" /\ (method.name \in ScriptFunctions /\ receiver.tag = "pointer" =>
                                   m.heap[receiver.value].class \notin Reserved)
  BY DEF Callable
<1>2. FramedWith(m, framed, method, FALSE, args, receiver, 0)
  <2>1. Ready(m) /\ m.sp + 6 <= MaxStack /\ args \in 0..255 /\ Known(m, receiver)
    BY SendsReady
  <2>2. Known(m, method)
    BY <1>1 DEF Known
  <2> HIDE DEF receiver
  <2> QED BY <2>1, <2>2, NewFrame
<1>3. callNativeMethod(pushPC(m), method, args) = IF Len(done.scripts) > Len(pushPC(m).scripts) THEN done ELSE after
  BY ReceiverBelowPC, Zenon DEF callNativeMethod
<1>4. pushPC(m).scripts = m.scripts
  <2>1. DOMAIN m = Fields
    BY SendsReady DEF Ready, DataOK
  <2>2. SameBut(m, pushPC(m), {"stack", "sp"})
    BY <2>1, PushFields DEF pushPC
  <2> QED BY <2>2 DEF SameBut, Fields
<1>5. Sends(m, n, F, S, args) /\ stackOopAt(m, args) = receiver
  OBVIOUS
<1> HIDE DEF framed, receiver
<1>6. Framed(m, framed, method, FALSE, args, receiver) /\ framed.sp = m.sp + 6 + 0 /\ framed.status = m.status
  BY <1>2 DEF FramedWith
<1>7. Stacked(framed, n + 1, S[n] + 1) /\ n + 1 \in Nat /\ n + 1 >= 2 /\ Untouched(m, framed)
      /\ Base(framed, framed.framePointer) = m.sp - args - 1
  <2>1. Layout(m, n, F, S) /\ m.sp + 6 <= MaxStack /\ Resumable(m, S[n], args)
    BY SendsReady
  <2>2. PICK block \in BOOLEAN : block = FALSE
    OBVIOUS
  <2>3. Framed(m, framed, method, block, args, receiver)
    BY <1>6, <2>2
  <2> QED BY <2>1, <2>3, Called
<1>8. PICK G \in [1..n + 1 -> Nat], T \in [1..n + 1 -> Nat] : Layout(framed, n + 1, G, T) /\ T[n + 1] = S[n] + 1
  BY <1>7 DEF Stacked
<1>9. /\ Keeps(framed, ready) /\ Layout(ready, n + 1, G, T) /\ ready.sp = framed.sp /\ ready.stack = framed.stack
      /\ ready.heap = framed.heap /\ ready.pc = 0 /\ ready.primitiveHasFailed = FALSE
      /\ ready.status = framed.status
  <2>1. Ready(framed) /\ DOMAIN framed = Fields
    BY <1>8, LayoutReady DEF Ready, DataOK
  <2>2. SameBut(framed, ready, Registers) /\ ready.pc = 0 /\ ready.primitiveHasFailed = FALSE
        /\ ready.status = framed.status
    BY <2>1 DEF SameBut, Fields, Registers
  <2> HIDE DEF ready
  <2> QED BY <1>8, <2>1, <2>2, KeepsRegisters, LayoutKept
<1> HIDE DEF ready
<1>10. /\ ready.framePointer = m.sp + 2 /\ ready.scripts = m.scripts /\ ready.heap = m.heap
       /\ MethodAt(ready, ready.framePointer) = method /\ currentReceiver(ready) = receiver
       /\ Base(ready, ready.framePointer) = m.sp - args - 1 /\ ready.stack = framed.stack
  <2>1. ready.framePointer = framed.framePointer /\ ready.scripts = framed.scripts
    BY <1>9 DEF Keeps
  <2>2. framed.framePointer = m.sp + 2 /\ framed.scripts = m.scripts /\ framed.heap = m.heap
        /\ MethodAt(framed, framed.framePointer) = method /\ currentReceiver(framed) = receiver
    BY <1>6 DEF Framed, MethodAt, currentReceiver, ReceiverOffset
  <2> QED BY <1>7, <1>9, <2>1, <2>2 DEF MethodAt, currentReceiver, Base, MetaAt
<1>11. InNative(ready)
  <2>1. ~IsCompiled(ready, ready.framePointer)
    BY <1>10 DEF IsCompiled
  <2>2. /\ m.sp \in Nat /\ m.sp + 16 <= MaxStack /\ MaxStack \in Nat
        /\ m.framePointer \in Nat /\ 3 <= m.framePointer /\ args \in Nat /\ m.framePointer + 4 < m.sp - args
    <3>1. args \in 0..255
      BY SendsReady
    <3>2. args \in Nat
      BY <3>1
    <3> QED BY <3>2, SendsReady
  <2>6. m.status = "running"
    BY SendsReady
  <2>3. /\ ready.sp = ready.framePointer + 4 /\ ready.framePointer # 3 /\ ready.sp + 10 <= MaxStack
    <3>1. ready.sp = m.sp + 6 /\ ready.framePointer = m.sp + 2
      BY <1>6, <1>9, <1>10, <2>2
    <3> QED BY <2>2, <3>1
  <2>4. Serves(ready, T[n + 1])
    BY <1>8, <1>10, <2>1, SendsReady DEF Serves
  <2>5. WorksIn(ready, n + 1, G, T)
    BY <1>6, <1>7, <1>9, <2>6, <2>3, <2>4 DEF WorksIn
  <2> QED BY <1>7, <1>9, <2>1, <2>3, <2>5 DEF InNative, Works
<1>12. NativeEnds(ready, done)
  BY <1>1, <1>10, <1>11, PrimitiveEnds
<1> HIDE DEF done
<1>13. Untouched(m, done)
  <2>1. \A i \in 1..m.sp - args - 1 : done.stack[i] = framed.stack[i]
    BY <1>10, <1>12 DEF NativeEnds, Leaves
  <2>2. /\ m.sp \in Nat /\ m.framePointer \in Nat /\ args \in Nat /\ m.framePointer + 4 < m.sp - args
        /\ m.argumentCount \in Nat
    <3>1. args \in 0..255 /\ m.argumentCount \in 0..255
      BY SendsReady
    <3>2. \A i \in 0..255 : i \in Nat
      OBVIOUS
    <3> QED BY <3>1, <3>2, SendsReady
  <2>3. \A i \in 1..m.framePointer - 3 - m.argumentCount : i \in 1..m.sp - args - 1
    BY <2>2
  <2> QED BY <1>7, <2>1, <2>3 DEF Untouched
<1>14. CASE Len(done.scripts) > Len(m.scripts)
  <2>1. callNativeMethod(pushPC(m), method, args) = done
    BY <1>3, <1>4, <1>14
  <2>2. Len(m.scripts) \in Nat
    BY SendsReady, SequenceDomain DEF Ready, DataOK, ScriptsOK
  <2>3. ~(done.scripts = m.scripts)
    BY <1>14, <2>2
  <2>4. done.status = "running" => Settled(done)
    BY <1>10, <1>12, <2>3 DEF NativeEnds, Answers
  <2> QED BY <1>13, <2>1, <2>4 DEF Steps
<1>15. CASE ~(Len(done.scripts) > Len(m.scripts))
  <2>1. callNativeMethod(pushPC(m), method, args) = after
    BY <1>3, <1>4, <1>15
  <2>2. CASE done.primitiveHasFailed /\ done.status = "running"
    <3>1. DOMAIN done = Fields
      BY <1>12, <2>2 DEF NativeEnds, Answers, Settled, Layout, DataOK
    <3>2. after.nativeFailed /\ DOMAIN after = Fields
      <4> DEFINE pushed == PushAll(done, <<currentReceiver(done), encodeSmallInteger(-1)>>)
      <4>1. DOMAIN pushed = Fields
        BY <3>1, PushAllFields DEF SameBut
      <4>2. after = [pushed EXCEPT !.pc = 0, !.nativeFailed = TRUE]
        BY <2>2 DEF AfterPrimitive
      <4> HIDE DEF pushed
      <4> QED BY <4>1, <4>2 DEF Fields
    <3> QED BY <2>1, <3>2 DEF Steps
  <2>3. CASE ~(done.primitiveHasFailed /\ done.status = "running")
    <3>1. after = done
      BY <2>3 DEF AfterPrimitive
    <3>2. done.status = "running" => Settled(done)
      BY <1>12, <2>3 DEF NativeEnds, Answers
    <3> QED BY <1>13, <2>1, <3>1, <3>2 DEF Steps
  <2> QED BY <2>2, <2>3
<1> QED BY <1>14, <1>15

\* What the class of a receiver and its superclasses have for a selector.
LEMMA LookupCallable ==
  ASSUME Verified, NEW m, MethodDictOK(m), NEW receiver, NEW selector, NEW args, Takes(selector, args),
         lookupSelector(m, classIndexOf(m, receiver), selector) # nil
  PROVE  Callable(m, lookupSelector(m, classIndexOf(m, receiver), selector), args, receiver)
<1> DEFINE class == classIndexOf(m, receiver)
           lineage == LineageOf(class)
           found == {i \in DOMAIN lineage : /\ lineage[i] \in DOMAIN m.methodDict
                                           /\ selector \in DOMAIN m.methodDict[lineage[i]]}
           owner == lineage[Min(found)]
           method == m.methodDict[owner][selector]
<1>1. found # {} /\ lookupSelector(m, class, selector) = method
  <2> HIDE DEF class
  <2> QED BY Zenon DEF lookupSelector, class
<1>2. found \in SUBSET Nat
  <2>1. lineage \in Seq(DOMAIN Superclass) \/ lineage = << >>
    BY LineagesAssumption DEF LineageOf
  <2> HIDE DEF lineage
  <2>2. DOMAIN lineage \in SUBSET Nat
    BY <2>1
  <2> QED BY <2>2
<1>3. Min(found) \in found
  <2> HIDE DEF found
  <2> QED BY <1>1, <1>2, LeastNatural
<1>4. owner \in Range(lineage) /\ EntryOK(owner, selector, method)
  <2>1. Min(found) \in DOMAIN lineage
    BY <1>3
  <2>2. owner \in DOMAIN m.methodDict /\ selector \in DOMAIN m.methodDict[owner]
    BY <1>3
  <2> HIDE DEF found, lineage
  <2> QED BY <2>1, <2>2 DEF Range, MethodDictOK
<1>5. receiver.tag = "pointer" => class = m.heap[receiver.value].class
  BY DEF classIndexOf
<1> HIDE DEF owner, class, found
<1>6. CASE method.tag = "compiled"
  <2>1. method \in Methods /\ method.name = owner /\ MethodOf(method).selector = selector
    BY <1>4, <1>6 DEF EntryOK
  <2> HIDE DEF method, lineage
  <2>2. MethodOf(method).arguments = args
    BY <2>1 DEF Takes
  <2>3. Fits(m, method, receiver)
    <3>1. Stores(method) => \A reserved \in Reserved : owner \notin Range(LineageOf(reserved))
      BY <2>1 DEF Verified, VerifiedMethod
    <3>2. Stores(method) /\ receiver.tag = "pointer" => class \notin Reserved
      BY <1>4, <3>1 DEF lineage
    <3> QED BY <1>5, <3>2 DEF Fits
  <2>4. Callable(m, method, args, receiver)
    BY <1>6, <2>1, <2>2, <2>3 DEF Callable
  <2> QED BY <1>1, <2>4 DEF class
<1>7. CASE method.tag # "compiled"
  <2>1. method.tag # "pointer" /\ (method.name \in ScriptFunctions => owner = "ScriptContext")
    BY <1>4, <1>7 DEF EntryOK
  <2> HIDE DEF method
  <2>2. method.name \in ScriptFunctions => class \notin Reserved
    BY <1>4, <2>1, ReservedAssumption
  <2>3. Callable(m, method, args, receiver)
    BY <1>5, <1>7, <2>1, <2>2 DEF Callable
  <2> QED BY <1>1, <2>3 DEF class
<1> QED BY <1>6, <1>7

\* A message can activate the method that it finds, compiled or native.
LEMMA ActivateSteps ==
  ASSUME Verified, NEW m, NEW n, NEW F, NEW S, NEW args, Sends(m, n, F, S, args), NEW method,
         Callable(m, method, args, stackOopAt(m, args))
  PROVE  Steps(m, Activate(m, method, args))
BY MethodActivated, NativeCalled DEF Activate

\* A method that can be activated still can when the heap grows.
LEMMA CallableGrows ==
  ASSUME NEW m, NEW p, HeapGrows(m, p), NEW method, NEW args, NEW receiver, Known(m, receiver),
         Callable(m, method, args, receiver)
  PROVE  Callable(p, method, args, receiver)
<1>1. Fits(m, method, receiver) => Fits(p, method, receiver)
  BY FitsGrows
<1>2. receiver.tag = "pointer" => p.heap[receiver.value].class = m.heap[receiver.value].class
  BY DEF Known, HeapGrows
<1> QED BY <1>1, <1>2 DEF Callable

\* The message that is not understood takes the place of its arguments.
LEMMA NotUnderstoodSends ==
  ASSUME NEW m, NEW n, NEW F, NEW S, NEW args, Sends(m, n, F, S, args), m.sp + 17 <= MaxStack, NEW selector
  PROVE  LET p == NotUnderstood(m, selector, args) IN
         /\ Sends(p, n, F, S, 1) /\ Keeps(m, p) /\ Untouched(m, p)
         /\ stackOopAt(p, 1) = stackOopAt(m, args)
<1> DEFINE arguments == [i \in 1..args |-> stackOopAt(m, args - i)]
           list == Object("Array", << >>, arguments)
           a == Allocate(m, list)
           class == ClassOf(m, stackOopAt(m, args))
           message == Object("Message", <<Symbol(selector), Newest(a), class>>, << >>)
           b == Allocate(a, message)
           c == popMultiplesOops(b, args)
           p == Push(c, Newest(b))
<1>1. /\ m.sp \in Nat /\ m.framePointer \in Nat /\ MaxStack \in Nat /\ args \in Nat
      /\ m.framePointer + 4 < m.sp - args /\ m.sp + 17 <= MaxStack
  <2>1. args \in 0..255 /\ \A i \in 0..255 : i \in Nat
    BY SendsReady
  <2> QED BY <2>1, SendsReady
<1>2. Ready(m) /\ DOMAIN m = Fields /\ Layout(m, n, F, S) /\ m.status = "running" /\ Resumable(m, S[n], args)
      /\ S[n] = Len(m.scripts) /\ n \in Nat /\ F \in [1..n -> Nat] /\ S \in [1..n -> Nat]
  BY SendsReady DEF Ready, DataOK
<1>3. \A i \in 1..args : Known(m, arguments[i])
  <2> TAKE i \in 1..args
  <2>1. args - i \in Nat /\ args - i < m.sp /\ m.sp <= MaxStack
    BY <1>1
  <2> QED BY <1>2, <2>1, TopKnown
<1>4. IsSequence(arguments) /\ DOMAIN arguments = 1..args
  <2>1. arguments = [i \in 1..args |-> arguments[i]]
    OBVIOUS
  <2> HIDE DEF arguments
  <2> QED BY <1>1, <2>1, SequenceFunction, Zenon
<1> HIDE DEF arguments
<1>5. ObjectOK(m, list) /\ list.class # "Context"
  <2>1. DOMAIN list = {"class", "slots", "elements"} /\ list.class = "Array" /\ list.slots = << >>
        /\ list.elements = arguments
    BY DEF Object
  <2> HIDE DEF list
  <2> QED BY <1>3, <1>4, <2>1, EmptySequence DEF ObjectOK
<1> HIDE DEF list
<1>6. /\ Keeps(m, a) /\ Ready(a) /\ a.sp = m.sp /\ a.stack = m.stack /\ Known(a, Newest(a))
      /\ SameBut(m, a, {"heap"}) /\ DOMAIN a = Fields
  <2>1. SameBut(m, a, {"heap"})
    BY <1>2, AllocateFields
  <2> QED BY <1>2, <1>5, <2>1, AllocateKeeps DEF SameBut
<1> HIDE DEF a
<1>7. class.tag # "pointer" /\ Symbol(selector).tag # "pointer"
  BY DEF ClassOf, ClassOop, Symbol, Word
<1> HIDE DEF class
<1>8. ObjectOK(a, message) /\ message.class # "Context"
  <2> DEFINE slots == <<Symbol(selector), Newest(a), class>>
  <2>1. DOMAIN message = {"class", "slots", "elements"} /\ message.class = "Message"
        /\ message.slots = slots /\ message.elements = << >>
    BY DEF Object
  <2>2. \A i \in DOMAIN slots : Known(a, slots[i])
    <3>1. Known(a, class) /\ Known(a, Symbol(selector))
      BY <1>7 DEF Known
    <3> QED BY <1>6, <3>1
  <2> HIDE DEF message, slots
  <2> QED BY <2>1, <2>2, EmptySequence DEF ObjectOK
<1> HIDE DEF message
<1>9. /\ Keeps(a, b) /\ Ready(b) /\ b.sp = a.sp /\ b.stack = a.stack /\ Known(b, Newest(b))
      /\ SameBut(a, b, {"heap"}) /\ DOMAIN b = Fields
  <2>1. SameBut(a, b, {"heap"})
    BY <1>6, AllocateFields
  <2> QED BY <1>6, <1>8, <2>1, AllocateKeeps DEF SameBut
<1> DEFINE oop == Newest(b)
<1> HIDE DEF b
<1>10. /\ Keeps(b, c) /\ Ready(c) /\ c.sp = m.sp - args /\ c.stack = m.stack /\ c.heap = b.heap
       /\ SameBut(b, c, {"sp"}) /\ DOMAIN c = Fields
  <2>1. b.framePointer = m.framePointer
    BY <1>6, <1>9 DEF SameBut, Fields
  <2>2. b.framePointer + 4 <= b.sp - args
    BY <1>1, <1>6, <1>9, <2>1
  <2>3. SameBut(b, c, {"sp"})
    BY <1>9, PopFields
  <2> QED BY <1>1, <1>6, <1>9, <2>2, <2>3, PopKeeps DEF SameBut
<1> HIDE DEF c
<1>11. Known(c, oop)
  BY <1>9, <1>10 DEF Known
<1> HIDE DEF oop
<1>12. /\ Keeps(c, p) /\ p.sp = c.sp + 1 /\ SameBut(c, p, {"stack", "sp"})
       /\ \A i \in 1..MaxStack : i # c.sp + 1 => p.stack[i] = c.stack[i]
  <2> DEFINE pushed == Push(c, oop)
  <2>1. p = pushed
    BY DEF oop
  <2>2. SameBut(c, pushed, {"stack", "sp"})
    BY <1>10, PushFields
  <2>3. /\ Keeps(c, pushed) /\ pushed.sp = c.sp + 1
        /\ \A i \in 1..MaxStack : i # c.sp + 1 => pushed.stack[i] = c.stack[i]
    BY <1>10, <1>11, PushKeeps
  <2> HIDE DEF p, pushed
  <2> QED BY <2>1, <2>2, <2>3
<1>13. NotUnderstood(m, selector, args) = p
  BY Zenon DEF NotUnderstood, p, oop, c, b, message, class, a, list, arguments
<1> HIDE DEF p
<1>14. Keeps(m, p)
  <2>1. Keeps(m, b)
    BY <1>6, <1>9, KeepsTransitive
  <2>2. Keeps(m, c)
    BY <1>10, <2>1, KeepsTransitive
  <2> QED BY <1>12, <2>2, KeepsTransitive
<1>15. Layout(p, n, F, S) /\ Untouched(m, p) /\ SameFrame(m, p, m.framePointer)
  <2>1. m.framePointer = F[n] /\ n \in 1..n
    BY <1>2, FrameRead
  <2> QED BY <1>2, <1>14, <2>1, LayoutKept, KeepsUntouched, KeepsFrames
<1>16. p.pc = m.pc /\ p.status = m.status
  BY <1>6, <1>9, <1>10, <1>12 DEF SameBut, Fields
<1>17. /\ p.framePointer = m.framePointer /\ p.scripts = m.scripts /\ p.method = m.method
       /\ IsCompiled(p, m.framePointer) = IsCompiled(m, m.framePointer)
  BY <1>14, <1>15 DEF Keeps, SameFrame, IsCompiled, MethodAt
<1>18. p.sp = m.sp - args + 1
  BY <1>10, <1>12
<1>19. Resumable(p, S[n], 1)
  <2>1. p.sp - 1 = m.sp - args
    BY <1>1, <1>18
  <2>2. 1 \in 0..255
    OBVIOUS
  <2> QED BY <1>1, <1>2, <1>16, <1>17, <2>1, <2>2 DEF Resumable, ScriptOperands
<1>20. p.sp + 16 <= MaxStack
  BY <1>1, <1>18
<1>21. stackOopAt(p, 1) = stackOopAt(m, args)
  <2>1. p.sp - 1 = m.sp - args /\ m.sp - args \in 1..MaxStack /\ m.sp - args # c.sp + 1
    BY <1>1, <1>10, <1>18
  <2> QED BY <1>10, <1>12, <2>1 DEF stackOopAt
<1>22. Sends(p, n, F, S, 1)
  BY <1>2, <1>15, <1>16, <1>17, <1>19, <1>20 DEF Sends
<1> QED BY <1>13, <1>14, <1>15, <1>21, <1>22

\* A message that a method or a script sends.
LEMMA SendSteps ==
  ASSUME Verified, NEW m, NEW n, NEW F, NEW S, NEW args, Sends(m, n, F, S, args), m.sp + 17 <= MaxStack,
         NEW selector, Takes(selector, args)
  PROVE  Steps(m, sendSelectorArgumentCount(m, selector, args))
<1> DEFINE receiver == stackOopAt(m, args)
           class == classIndexOf(m, receiver)
           found == lookupSelector(m, class, selector)
           handler == lookupSelector(m, class, "doesNotUnderstand:")
           p == NotUnderstood(m, selector, args)
           sent == sendSelectorArgumentCount(m, selector, args)
<1>1. Ready(m) /\ DOMAIN m = Fields /\ MethodDictOK(m) /\ Known(m, receiver) /\ Layout(m, n, F, S)
  BY SendsReady DEF Ready, DataOK
<1>2. \A status : status # "running" => Steps(m, Stop(m, status))
  <2> TAKE status
  <2>1. Stop(m, status).status = status /\ Stop(m, status).stack = m.stack
    BY <1>1, StopFields DEF SameBut, Fields
  <2> QED BY <2>1 DEF Steps, Untouched
<1>3. isBlockClosure(m, receiver) /\ m.heap[receiver.value].slots[3].value = args
        => Steps(m, activateBlockClosure(pushPC(m), m.heap[receiver.value]))
  BY <1>1, BlockActivated DEF isBlockClosure, Known
<1>4. found # nil => Steps(m, Activate(m, found, args))
  <2>1. found # nil => Callable(m, found, args, receiver)
    BY <1>1, LookupCallable
  <2> HIDE DEF found
  <2> QED BY <2>1, ActivateSteps
<1>5. handler # nil => Steps(m, Activate(p, handler, 1))
  <2>1. Sends(p, n, F, S, 1) /\ Keeps(m, p) /\ Untouched(m, p) /\ stackOopAt(p, 1) = receiver
    BY NotUnderstoodSends
  <2>2. handler # nil => Callable(m, handler, 1, receiver)
    <3>1. Takes("doesNotUnderstand:", 1)
      BY DEF Verified
    <3> QED BY <1>1, <3>1, LookupCallable
  <2> HIDE DEF handler, p, receiver
  <2>3. handler # nil => Callable(p, handler, 1, receiver)
    BY <1>1, <2>1, <2>2, CallableGrows DEF Keeps
  <2>4. handler # nil => Steps(p, Activate(p, handler, 1))
    BY <2>1, <2>3, ActivateSteps
  <2> QED BY <2>1, <2>4, StepsAfter
<1>6. \/ sent = Stop(m, "crashed")
      \/ /\ isBlockClosure(m, receiver) /\ m.heap[receiver.value].slots[3].value = args
         /\ sent = activateBlockClosure(pushPC(m), m.heap[receiver.value])
      \/ found # nil /\ sent = Activate(m, found, args)
      \/ sent = Stop(m, "aborted")
      \/ handler # nil /\ sent = Activate(p, handler, 1)
  BY Zenon DEF sendSelectorArgumentCount
<1>7. Steps(m, Stop(m, "crashed")) /\ Steps(m, Stop(m, "aborted"))
  BY <1>2
<1> HIDE DEF sent, found, handler, p, receiver
<1>8. Steps(m, sent)
  BY <1>3, <1>4, <1>5, <1>6, <1>7
<1> QED BY <1>8 DEF sent

(***************************************************************************)
(* The bytecodes.                                                          *)
(***************************************************************************)
\* A machine that begins a step.
Going(m, n, F, S) ==
  /\ Layout(m, n, F, S) /\ n \in Nat /\ F \in [1..n -> Nat] /\ S \in [1..n -> Nat]
  /\ Balanced(m, S[n]) /\ m.status = "running" /\ m.sp <= MaxStack - StackMargin

CodeHere(m)  == CodeOf(m.method)[m.pc]
DepthHere(m) == DepthsOf(m.method)[m.pc]

\* What is known of a machine that goes on.
LEMMA GoingFacts ==
  ASSUME NEW m, NEW n, NEW F, NEW S, Going(m, n, F, S)
  PROVE  /\ Layout(m, n, F, S) /\ Ready(m) /\ DOMAIN m = Fields /\ n \in Nat /\ F \in [1..n -> Nat]
         /\ S \in [1..n -> Nat] /\ S[n] = Len(m.scripts) /\ m.status = "running"
         /\ m.sp \in Nat /\ m.framePointer \in Nat /\ 3 <= m.framePointer /\ MaxStack \in Nat
         /\ m.sp + 24 <= MaxStack /\ m.framePointer + 4 <= m.sp /\ m.method = MethodAt(m, m.framePointer)
         /\ m.argumentCount \in Nat /\ n \in 1..n /\ F[n] = m.framePointer
<1>1. Layout(m, n, F, S) /\ n \in Nat /\ F \in [1..n -> Nat] /\ S \in [1..n -> Nat] /\ Balanced(m, S[n])
      /\ m.status = "running" /\ m.sp <= MaxStack - StackMargin
  BY DEF Going
<1>2. /\ Ready(m) /\ m.sp \in Nat /\ m.framePointer \in Nat /\ 3 <= m.framePointer
      /\ m.framePointer + 4 <= m.sp /\ m.method = MethodAt(m, m.framePointer) /\ n \in 1..n
      /\ F[n] = m.framePointer /\ DOMAIN m = Fields
  BY <1>1, LayoutReady, FrameRead
<1>3. MaxStack \in Nat /\ m.sp + 24 <= MaxStack
  BY <1>1, <1>2, StackAssumption DEF StackMargin
<1>4. S[n] = Len(m.scripts)
  BY <1>1 DEF Balanced
<1>5. m.argumentCount \in Nat
  <2>1. m.argumentCount \in 0..255
    BY <1>1, FrameRead
  <2> QED BY <2>1
<1> QED BY <1>1, <1>2, <1>3, <1>4, <1>5

\* What is known of one at an instruction: it is verified, and the operands
\* are in front of it that it was generated for.
LEMMA BytecodeFacts ==
  ASSUME Verified, NEW m, NEW n, NEW F, NEW S, Going(m, n, F, S), m.pc # 0
  PROVE  /\ IsCompiled(m, m.framePointer) /\ m.method \in Methods /\ m.pc \in Nat \ {0}
         /\ CodeHere(m).op # "Label" /\ VerifiedInstruction(m.method, m.pc) /\ DepthHere(m) \in Nat
         /\ m.sp = m.framePointer + 4 + DepthHere(m) /\ m.pc <= Len(CodeOf(m.method))
         /\ Fits(m, m.method, currentReceiver(m))
<1>1. /\ IsCompiled(m, m.framePointer)
      /\ m.pc \in DOMAIN DepthsOf(m.method) /\ CodeOf(m.method)[m.pc].op # "Label"
      /\ m.sp = m.framePointer + ReceiverOffset + DepthsOf(m.method)[m.pc]
  BY DEF Going, Balanced
<1>2. m.method \in Methods /\ Fits(m, m.method, currentReceiver(m))
  <2>1. FrameOK(m, m.framePointer) /\ m.method = MethodAt(m, m.framePointer)
    BY GoingFacts, FrameRead
  <2> QED BY <1>1, <2>1 DEF FrameOK, currentReceiver
<1>3. /\ VerifiedInstruction(m.method, m.pc) /\ m.pc \in Nat \ {0} /\ m.pc <= Len(CodeOf(m.method))
      /\ DepthsOf(m.method)[m.pc] \in Nat
  BY <1>1, <1>2, InstructionIsVerified
<1> QED BY <1>1, <1>2, <1>3 DEF CodeHere, DepthHere, ReceiverOffset

\* An instruction that goes on to one of its successors.
LEMMA SuccessorReached ==
  ASSUME Verified, NEW m, NEW n, NEW F, NEW S, Going(m, n, F, S), m.pc # 0,
         NEW pc, NEW d, <<pc, d>> \in Successors(CodeHere(m), m.pc, DepthHere(m))
  PROVE  Reaches(m.method, pc, d) /\ pc # 0
<1>1. \A s \in Successors(CodeHere(m), m.pc, DepthHere(m)) : Reaches(m.method, s[1], s[2])
  BY BytecodeFacts DEF VerifiedInstruction, CodeHere, DepthHere
<1>2. Reaches(m.method, <<pc, d>>[1], <<pc, d>>[2])
  BY <1>1
<1>3. Reaches(m.method, pc, d)
  BY <1>2
<1> QED BY <1>3 DEF Reaches

\* A machine in the same frame, at a successor of the instruction and with
\* the operands for it, has made a step.
LEMMA SuccessorArrives ==
  ASSUME Verified, NEW m, NEW n, NEW F, NEW S, Going(m, n, F, S), m.pc # 0,
         NEW pc, NEW d, <<pc, d>> \in Successors(CodeHere(m), m.pc, DepthHere(m)),
         NEW p, Layout(p, n, F, S), Untouched(m, p), p.method = m.method, p.scripts = m.scripts,
         p.framePointer = m.framePointer, p.pc = FetchAt(m, pc).pc, p.status = FetchAt(m, pc).status,
         p.sp = m.framePointer + 4 + d
  PROVE  Steps(m, p)
<1>1. Reaches(m.method, pc, d) /\ pc # 0
  BY SuccessorReached
<1>2. DOMAIN m = Fields /\ m.status = "running" /\ m.method \in Methods
      /\ S[n] = Len(m.scripts) /\ n \in Nat /\ F \in [1..n -> Nat] /\ S \in [1..n -> Nat]
  BY GoingFacts, BytecodeFacts
<1>3. p.status = "running" => p.pc = FirstFrom(CodeOf(m.method), pc)
  BY <1>1, <1>2, FetchAtRunning
<1>4. p.status = "running" => Settled(p)
  BY <1>1, <1>2, <1>3, Arrives
<1> QED BY <1>4 DEF Steps

\* So has one that is at a successor after work in its frame.
LEMMA SuccessorSteps ==
  ASSUME Verified, NEW m, NEW n, NEW F, NEW S, Going(m, n, F, S), m.pc # 0,
         NEW pc, NEW d, <<pc, d>> \in Successors(CodeHere(m), m.pc, DepthHere(m)),
         NEW p, Keeps(m, p), p.pc = FetchAt(m, pc).pc, p.status = FetchAt(m, pc).status,
         p.sp = m.framePointer + 4 + d
  PROVE  Steps(m, p)
<1>1. Layout(m, n, F, S)
  BY GoingFacts
<1>2. Layout(p, n, F, S) /\ Untouched(m, p)
  BY <1>1, LayoutKept, KeepsUntouched
<1>3. p.method = m.method /\ p.scripts = m.scripts /\ p.framePointer = m.framePointer
  BY DEF Keeps
<1> QED BY <1>2, <1>3, SuccessorArrives

\* The other instructions go on to the one after them.
Jumps == {"Jump", "JumpOnTrue", "JumpOnFalse", "PushClosure"}
\* So has one that is at the next instruction.
LEMMA OnwardSteps ==
  ASSUME Verified, NEW m, NEW n, NEW F, NEW S, Going(m, n, F, S), m.pc # 0,
         CodeHere(m).op \notin Leaving, CodeHere(m).op \notin Jumps,
         NEW p, Keeps(m, p), p.pc = fetchNextInstructionOpcode(m).pc,
         p.status = fetchNextInstructionOpcode(m).status, p.sp = m.sp + Growth(CodeHere(m))
  PROVE  Steps(m, p)
<1> DEFINE g == Growth(CodeHere(m))
           d == DepthHere(m) + g
<1>1. Successors(CodeHere(m), m.pc, DepthHere(m)) = {<<m.pc + 1, d>>}
  BY Zenon DEF Successors, Jumps, Leaving
<1>2. g \in Int
  <2> DEFINE code == CodeHere(m)
  <2>1. code.a \in Nat
    BY BytecodeFacts DEF VerifiedInstruction, CodeHere
  <2> HIDE DEF code
  <2>2. Growth(code) \in Int
    BY <2>1 DEF Growth
  <2> QED BY <2>2 DEF code
<1> HIDE DEF g
<1>3. p.sp = m.framePointer + 4 + d
  <2>1. m.sp = m.framePointer + 4 + DepthHere(m) /\ DepthHere(m) \in Nat
    BY BytecodeFacts
  <2>2. m.framePointer \in Nat
    BY GoingFacts
  <2>3. p.sp = m.sp + g
    BY DEF g
  <2> QED BY <1>2, <2>1, <2>2, <2>3
<1>4. <<m.pc + 1, d>> \in Successors(CodeHere(m), m.pc, DepthHere(m))
  BY <1>1
<1> HIDE DEF d
<1> QED BY <1>3, <1>4, SuccessorSteps DEF fetchNextInstructionOpcode

(***************************************************************************)
(* Instructions that go on to the next one.                                *)
(***************************************************************************)
\* A machine that has fetched the next instruction can be worked on.
LEMMA OnwardReady ==
  ASSUME NEW m, NEW n, NEW F, NEW S, Going(m, n, F, S)
  PROVE  LET x == fetchNextInstructionOpcode(m) IN
         /\ Keeps(m, x) /\ Ready(x) /\ SameBut(m, x, {"pc", "status"}) /\ DOMAIN x = Fields
         /\ x.sp = m.sp /\ x.stack = m.stack /\ x.heap = m.heap /\ x.framePointer = m.framePointer
         /\ x.argumentCount = m.argumentCount /\ x.globals = m.globals
         /\ \A oop : Known(x, oop) = Known(m, oop)
<1> DEFINE x == FetchAt(m, m.pc + 1)
<1>1. Ready(m) /\ DOMAIN m = Fields
  BY GoingFacts
<1>2. /\ Keeps(m, x) /\ Ready(x) /\ x.sp = m.sp /\ x.stack = m.stack /\ x.heap = m.heap
      /\ SameBut(m, x, {"pc", "status"})
  BY <1>1, FetchAtKeeps, FetchAtFields
<1> HIDE DEF x
<1>3. x.framePointer = m.framePointer /\ x.argumentCount = m.argumentCount /\ DOMAIN x = Fields
      /\ x.globals = m.globals
  BY <1>2 DEF SameBut, Fields
<1>4. \A oop : Known(x, oop) = Known(m, oop)
  BY <1>2 DEF Known
<1> QED BY <1>2, <1>3, <1>4 DEF x, fetchNextInstructionOpcode

\* The growth and the operands of each instruction.
LEMMA GrowthOf ==
  /\ \A code : code.op \in {"PushConstant", "PushLiteral", "PushLiteralVariable", "PushReceiverVariable",
                            "PushTemporal", "PushTemporalInVector", "PushArray", "PushReceiver",
                            "PushThisContext", "DuplicateStackTop"} => Growth(code) = 1
  /\ \A code : code.op \in {"PopStoreTemporal", "PopStoreTemporalInVector", "PopStackTop", "JumpOnTrue",
                            "JumpOnFalse"} => Growth(code) = -1 /\ Operands(code) = 1
  /\ \A code : code.op \in {"StoreLiteralVariable", "StoreReceiverVariable", "StoreTemporal",
                            "StoreTemporalInVector", "CallPrimitive", "Jump"} => Growth(code) = 0
  /\ \A code : code.op = "PushNClosureTemps" => Growth(code) = code.a
  /\ \A code : code.op = "PushClosure" => Growth(code) = 1 - code.a /\ Operands(code) = code.a
  /\ \A code : code.op \in {"Send", "SpecialMessage"} => Growth(code) = -code.a /\ Operands(code) = code.a + 1
BY DEF Growth, Operands

\* The operands of the instruction are on the stack.
LEMMA OperandsHere ==
  ASSUME Verified, NEW m, NEW n, NEW F, NEW S, Going(m, n, F, S), m.pc # 0
  PROVE  /\ Operands(CodeHere(m)) <= DepthHere(m) /\ DepthHere(m) \in Nat
         /\ m.sp = m.framePointer + 4 + DepthHere(m)
         /\ CodeHere(m).a \in Nat /\ CodeHere(m).b \in Nat /\ CodeHere(m).oop.tag # "pointer"
BY BytecodeFacts DEF VerifiedInstruction, CodeHere, DepthHere

\* A word that is read from the stack of the machine is known.
LEMMA OperandKnown ==
  ASSUME NEW m, NEW n, NEW F, NEW S, Going(m, n, F, S)
  PROVE  /\ Known(m, stackOopAt(m, 0)) /\ Known(m, stackOopAt(m, 1)) /\ Known(m, currentReceiver(m))
         /\ \A i : Known(m, getTemporary(m, i))
         /\ \A i \in Nat : i < m.sp => Known(m, stackOopAt(m, i))
<1>1. Ready(m) /\ m.sp <= MaxStack /\ 1 < m.sp
  <2>1. Ready(m) /\ m.sp \in Nat /\ m.framePointer \in Nat /\ 3 <= m.framePointer /\ MaxStack \in Nat
        /\ m.sp + 24 <= MaxStack /\ m.framePointer + 4 <= m.sp
    BY GoingFacts
  <2> QED BY <2>1
<1>2. m.sp \in Nat
  BY GoingFacts
<1>3. Known(m, stackOopAt(m, 0)) /\ Known(m, stackOopAt(m, 1))
  <2>1. 0 \in Nat /\ 1 \in Nat /\ 0 < m.sp
    BY <1>1, <1>2
  <2> QED BY <1>1, <2>1, TopKnown
<1>4. Known(m, currentReceiver(m)) /\ \A i : Known(m, getTemporary(m, i))
  BY <1>1, ReceiverKnown, TemporaryKnown
<1>5. \A i \in Nat : i < m.sp => Known(m, stackOopAt(m, i))
  BY <1>1, TopKnown
<1> QED BY <1>3, <1>4, <1>5

\* The instruction pushes a word.
LEMMA PushSteps ==
  ASSUME Verified, NEW m, NEW n, NEW F, NEW S, Going(m, n, F, S), m.pc # 0,
         CodeHere(m).op \notin Leaving, CodeHere(m).op \notin Jumps, Growth(CodeHere(m)) = 1,
         NEW oop, Known(m, oop)
  PROVE  Steps(m, Push(fetchNextInstructionOpcode(m), oop))
<1> DEFINE x == fetchNextInstructionOpcode(m)
           p == Push(x, oop)
<1>1. Keeps(m, x) /\ Ready(x) /\ DOMAIN x = Fields /\ x.sp = m.sp /\ Known(x, oop)
  BY OnwardReady
<1> HIDE DEF x
<1>2. Keeps(x, p) /\ p.sp = m.sp + 1
  BY <1>1, PushKeeps
<1>3. p.pc = x.pc /\ p.status = x.status
  <2>1. SameBut(x, p, {"stack", "sp"})
    BY <1>1, PushFields
  <2> HIDE DEF p
  <2> QED BY <2>1 DEF SameBut, Fields
<1> HIDE DEF p
<1>4. Keeps(m, p)
  BY <1>1, <1>2, KeepsTransitive
<1>5. p.sp = m.sp + Growth(CodeHere(m))
  BY <1>2
<1> QED BY <1>3, <1>4, <1>5, OnwardSteps DEF p, x

\* What is left of the machine when its last operand has been taken.
LEMMA PopOnward ==
  ASSUME Verified, NEW m, NEW n, NEW F, NEW S, Going(m, n, F, S), m.pc # 0, Operands(CodeHere(m)) = 1
  PROVE  LET x == PopOop(fetchNextInstructionOpcode(m)) IN
         /\ Keeps(m, x) /\ Ready(x) /\ x.sp = m.sp - 1 /\ x.heap = m.heap
         /\ x.pc = fetchNextInstructionOpcode(m).pc /\ x.status = fetchNextInstructionOpcode(m).status
         /\ DOMAIN x = Fields /\ \A oop : Known(x, oop) = Known(m, oop)
<1> DEFINE y == fetchNextInstructionOpcode(m)
           x == popMultiplesOops(y, 1)
<1>1. /\ Keeps(m, y) /\ Ready(y) /\ DOMAIN y = Fields /\ y.sp = m.sp /\ y.heap = m.heap
      /\ y.framePointer = m.framePointer
  BY OnwardReady
<1> HIDE DEF y
<1>2. y.framePointer + 4 <= y.sp - 1
  <2>1. 1 <= DepthHere(m) /\ DepthHere(m) \in Nat /\ m.sp = m.framePointer + 4 + DepthHere(m)
        /\ m.framePointer \in Nat
    BY OperandsHere, GoingFacts
  <2> QED BY <1>1, <2>1
<1>3. Keeps(y, x) /\ Ready(x) /\ x.sp = m.sp - 1 /\ x.heap = m.heap
  <2>1. 1 \in Nat
    OBVIOUS
  <2> QED BY <1>1, <1>2, <2>1, PopKeeps
<1>4. x.pc = y.pc /\ x.status = y.status /\ DOMAIN x = Fields
  BY <1>1, PopFields DEF SameBut, Fields
<1> HIDE DEF x
<1>5. Keeps(m, x)
  BY <1>1, <1>3, KeepsTransitive
<1>6. \A oop : Known(x, oop) = Known(m, oop)
  BY <1>3 DEF Known
<1> QED BY <1>3, <1>4, <1>5, <1>6 DEF x, y, PopOop


(***************************************************************************)
(* The actions.  A step ends in what Bounded leaves of such a machine.     *)
(***************************************************************************)
Lands == \E p : Steps(machine, p) /\ machine' = Bounded(p)

\* The instruction of an action is the one that the machine is at.
LEMMA Interpreting ==
  ASSUME NEW ops, Interprets(ops)
  PROVE  machine.pc # 0 /\ CodeHere(machine).op \in ops /\ Instruction = CodeHere(machine)
BY DEF Interprets, Instruction, CodeHere

\* Instructions that push one word.
LEMMA InstructionPushes ==
  ASSUME Verified, NEW n, NEW F, NEW S, Going(machine, n, F, S), NEW op,
         Interprets({op}), op \in {"PushConstant", "PushLiteral", "PushLiteralVariable", "PushReceiverVariable",
                                   "PushTemporal", "PushTemporalInVector", "PushArray", "PushReceiver",
                                   "PushThisContext", "DuplicateStackTop"},
         NEW oop, Known(machine, oop)
  PROVE  Steps(machine, Push(Onward, oop))
<1>1. machine.pc # 0 /\ CodeHere(machine).op = op
  BY Interpreting
<1>2. Growth(CodeHere(machine)) = 1
  BY <1>1, GrowthOf
<1>3. op \notin Leaving /\ op \notin Jumps
  BY DEF Leaving, Jumps
<1> QED BY <1>1, <1>2, <1>3, PushSteps DEF Onward

\* A machine may stop.
LEMMA StopSteps ==
  ASSUME NEW m, DOMAIN m = Fields, NEW status, status # "running"
  PROVE  Steps(m, Stop(m, status))
<1>1. Stop(m, status).stack = m.stack /\ Stop(m, status).status = status
  BY StopFields DEF SameBut, Fields
<1> QED BY <1>1 DEF Steps, Untouched

\* interpretPushConstant and the like: they push one word that points at no
\* object or at one of the heap.
LEMMA PushActions ==
  ASSUME Verified, NEW n, NEW F, NEW S, Going(machine, n, F, S),
         \/ interpretPushConstant \/ interpretPushLiteral \/ interpretPushReceiver \/ interpretPushLiteralVariable
         \/ interpretPushReceiverVariable \/ interpretPushTemporary \/ interpretDuplicateStackTop
  PROVE  Lands
<1>1. DOMAIN machine = Fields /\ Ready(machine)
  BY GoingFacts
<1>2. CASE interpretPushConstant
  <2>1. Interprets({"PushConstant"}) /\ machine' = Bounded(Push(Onward, Instruction.oop))
    BY <1>2 DEF interpretPushConstant, Become
  <2>2. Known(machine, Instruction.oop)
    BY <2>1, Interpreting, OperandsHere DEF Known
  <2> QED BY <2>1, <2>2, InstructionPushes DEF Lands
<1>3. CASE interpretPushLiteral
  <2>1. Interprets({"PushLiteral"}) /\ machine' = Bounded(Push(Onward, Instruction.oop))
    BY <1>3 DEF interpretPushLiteral, Become
  <2>2. Known(machine, Instruction.oop)
    BY <2>1, Interpreting, OperandsHere DEF Known
  <2> QED BY <2>1, <2>2, InstructionPushes DEF Lands
<1>4. CASE interpretPushReceiver
  <2>1. Interprets({"PushReceiver"}) /\ machine' = Bounded(Push(Onward, currentReceiver(machine)))
    BY <1>4 DEF interpretPushReceiver, Become
  <2> QED BY <2>1, OperandKnown, InstructionPushes DEF Lands
<1>5. CASE interpretPushLiteralVariable
  <2>1. Interprets({"PushLiteralVariable"}) /\ machine' = Bounded(Push(Onward, machine.globals[Instruction.oop.name]))
    BY <1>5 DEF interpretPushLiteralVariable, Become
  <2>2. machine.pc # 0 /\ CodeHere(machine).op = "PushLiteralVariable" /\ Instruction = CodeHere(machine)
    BY <2>1, Interpreting
  <2>3. Instruction.oop.name \in GlobalNames
    BY <2>2, BytecodeFacts DEF VerifiedInstruction, CodeHere
  <2>4. Known(machine, machine.globals[Instruction.oop.name])
    BY <1>1, <2>3 DEF Ready, DataOK, GlobalsOK
  <2> QED BY <2>1, <2>4, InstructionPushes DEF Lands
<1>6. CASE interpretPushReceiverVariable
  <2> DEFINE self == currentReceiver(machine)
             i == Instruction.a + 1
             slot == machine.heap[self.value].slots[i]
  <2>1. /\ Interprets({"PushReceiverVariable"})
        /\ IF self.tag = "pointer" /\ i \in DOMAIN machine.heap[self.value].slots
           THEN machine' = Bounded(Push(Onward, slot)) ELSE machine' = Bounded(Stop(machine, "crashed"))
    BY <1>6 DEF interpretPushReceiverVariable, Become
  <2>2. CASE self.tag = "pointer" /\ i \in DOMAIN machine.heap[self.value].slots
    <3>1. self.value \in DOMAIN machine.heap
      BY <2>2, OperandKnown DEF Known
    <3>2. ObjectOK(machine, machine.heap[self.value])
      BY <1>1, <3>1 DEF Ready, DataOK, HeapOK
    <3>3. Known(machine, slot)
      BY <2>2, <3>2 DEF ObjectOK
    <3> QED BY <2>1, <2>2, <3>3, InstructionPushes DEF Lands
  <2>3. CASE ~(self.tag = "pointer" /\ i \in DOMAIN machine.heap[self.value].slots)
    BY <1>1, <2>1, <2>3, StopSteps DEF Lands
  <2> QED BY <2>2, <2>3
<1>7. CASE interpretPushTemporary
  <2>1. Interprets({"PushTemporal"}) /\ machine' = Bounded(Push(Onward, getTemporary(machine, Instruction.a)))
    BY <1>7 DEF interpretPushTemporary, Become
  <2> QED BY <2>1, OperandKnown, InstructionPushes DEF Lands
<1>8. CASE interpretDuplicateStackTop
  <2>1. Interprets({"DuplicateStackTop"}) /\ machine' = Bounded(Push(Onward, Top))
    BY <1>8 DEF interpretDuplicateStackTop, Become
  <2> QED BY <2>1, OperandKnown, InstructionPushes DEF Lands, Top
<1> QED BY <1>2, <1>3, <1>4, <1>5, <1>6, <1>7, <1>8

\* Arrays and the temporaries of blocks.
LEMMA AllocatingPushes ==
  ASSUME Verified, NEW n, NEW F, NEW S, Going(machine, n, F, S),
         interpretPushNTemps \/ interpretPushArrayWithElements
  PROVE  Lands
<1> DEFINE x == fetchNextInstructionOpcode(machine)
           a == Instruction.a
<1>1. Keeps(machine, x) /\ Ready(x) /\ DOMAIN x = Fields /\ x.sp = machine.sp /\ x.stack = machine.stack
  BY OnwardReady
<1>2. CASE interpretPushNTemps
  <2> DEFINE p == PushAll(x, Nils(a))
  <2>1. Interprets({"PushNClosureTemps"}) /\ machine' = Bounded(p)
    BY <1>2 DEF interpretPushNTemps, Become, Onward
  <2>2. machine.pc # 0 /\ CodeHere(machine).op = "PushNClosureTemps" /\ a = CodeHere(machine).a
    BY <2>1, Interpreting
  <2>3. a \in Nat /\ Growth(CodeHere(machine)) = a
    BY <2>2, OperandsHere, GrowthOf
  <2> HIDE DEF x, a
  <2>4. Len(Nils(a)) = a /\ \A i \in 1..a : Known(x, Nils(a)[i])
    BY <2>3, NilsKnown
  <2>5. Keeps(x, p) /\ p.sp = machine.sp + a
    BY <1>1, <2>3, <2>4, PushAllKeeps
  <2>6. p.pc = x.pc /\ p.status = x.status
    <3>1. SameBut(x, p, {"stack", "sp"})
      BY <1>1, PushAllFields
    <3> HIDE DEF p
    <3> QED BY <3>1 DEF SameBut, Fields
  <2> HIDE DEF p
  <2>7. Keeps(machine, p)
    BY <1>1, <2>5, KeepsTransitive
  <2>8. CodeHere(machine).op \notin Leaving /\ CodeHere(machine).op \notin Jumps
    BY <2>2 DEF Leaving, Jumps
  <2>9. Steps(machine, p)
    BY <2>2, <2>3, <2>5, <2>6, <2>7, <2>8, OnwardSteps DEF x
  <2> QED BY <2>1, <2>9 DEF Lands
<1>3. CASE interpretPushArrayWithElements
  <2> DEFINE object == Object("Array", << >>, Nils(a))
             born == Allocate(x, object)
             p == Push(born, Newest(born))
  <2>1. Interprets({"PushArray"}) /\ machine' = Bounded(p)
    BY <1>3 DEF interpretPushArrayWithElements, Become, Onward
  <2>2. machine.pc # 0 /\ CodeHere(machine).op = "PushArray" /\ a = CodeHere(machine).a
    BY <2>1, Interpreting
  <2>3. a \in Nat /\ Growth(CodeHere(machine)) = 1
    BY <2>2, OperandsHere, GrowthOf
  <2> HIDE DEF x, a
  <2>4. ObjectOK(x, object) /\ object.class # "Context"
    <3>1. DOMAIN object = {"class", "slots", "elements"} /\ object.class = "Array" /\ object.slots = << >>
          /\ object.elements = Nils(a)
      BY DEF Object
    <3>2. IsSequence(Nils(a)) /\ DOMAIN Nils(a) = 1..a /\ \A i \in 1..a : Known(x, Nils(a)[i])
      BY <2>3, NilsKnown
    <3> HIDE DEF object
    <3> QED BY <3>1, <3>2, EmptySequence DEF ObjectOK
  <2> HIDE DEF object
  <2>5. Keeps(x, born) /\ Ready(born) /\ born.sp = x.sp /\ Known(born, Newest(born))
    BY <1>1, <2>4, AllocateKeeps
  <2>6. SameBut(x, born, {"heap"})
    BY <1>1, AllocateFields
  <2> DEFINE oop == Newest(born)
  <2> HIDE DEF born
  <2>7. born.pc = x.pc /\ born.status = x.status /\ DOMAIN born = Fields
    BY <2>6 DEF SameBut, Fields
  <2> HIDE DEF oop
  <2> DEFINE pushed == Push(born, oop)
  <2>8. Keeps(born, pushed) /\ pushed.sp = machine.sp + 1
    BY <1>1, <2>5, PushKeeps DEF oop
  <2>9. SameBut(born, pushed, {"stack", "sp"})
    BY <2>7, PushFields
  <2>10. p = pushed
    BY DEF oop
  <2> HIDE DEF p, pushed
  <2>11. pushed.pc = x.pc /\ pushed.status = x.status
    BY <2>7, <2>9 DEF SameBut, Fields
  <2>12. Keeps(machine, pushed)
    BY <1>1, <2>5, <2>8, KeepsTransitive
  <2>13. CodeHere(machine).op \notin Leaving /\ CodeHere(machine).op \notin Jumps
    BY <2>2 DEF Leaving, Jumps
  <2>14. pushed.sp = machine.sp + Growth(CodeHere(machine))
    BY <2>3, <2>8
  <2>15. Steps(machine, pushed)
    BY <2>2, <2>11, <2>12, <2>13, <2>14, OnwardSteps DEF x
  <2> QED BY <2>1, <2>10, <2>15 DEF Lands
<1> QED BY <1>2, <1>3

\* An instruction that writes a word somewhere and may have taken it.
Writes(m, x, p) ==
  /\ Keeps(m, x) /\ x.pc = fetchNextInstructionOpcode(m).pc
  /\ x.status = fetchNextInstructionOpcode(m).status /\ x.sp = m.sp + Growth(CodeHere(m))
  /\ Keeps(x, p) /\ \E changed \in {{"stack"}, {"heap"}, {"globals"}} : SameBut(x, p, changed)

\* Such an instruction is a step.
LEMMA WriteSteps ==
  ASSUME Verified, NEW m, NEW n, NEW F, NEW S, Going(m, n, F, S), m.pc # 0,
         CodeHere(m).op \notin Leaving, CodeHere(m).op \notin Jumps, NEW x, NEW p, Writes(m, x, p)
  PROVE  Steps(m, p)
<1>1. Keeps(m, x) /\ Keeps(x, p)
  BY DEF Writes
<1>2. p.pc = x.pc /\ p.status = x.status /\ p.sp = x.sp
  BY DEF Writes, SameBut, Fields
<1>3. Keeps(m, p)
  BY <1>1, KeepsTransitive
<1>4. p.pc = fetchNextInstructionOpcode(m).pc /\ p.status = fetchNextInstructionOpcode(m).status
      /\ p.sp = m.sp + Growth(CodeHere(m))
  BY <1>2 DEF Writes
<1> QED BY <1>3, <1>4, OnwardSteps

\* What is written to, after the operand has been taken or not.
LEMMA Written ==
  ASSUME Verified, NEW n, NEW F, NEW S, Going(machine, n, F, S), NEW op, Interprets({op}), NEW x,
         \/ op \in {"StoreLiteralVariable", "StoreReceiverVariable", "StoreTemporal", "StoreTemporalInVector"}
            /\ x = Onward
         \/ op \in {"PopStoreTemporal", "PopStoreTemporalInVector"} /\ x = PopOop(Onward)
  PROVE  /\ Keeps(machine, x) /\ Ready(x) /\ DOMAIN x = Fields /\ x.heap = machine.heap
         /\ \A oop : Known(x, oop) = Known(machine, oop)
         /\ \A p : Keeps(x, p) /\ (\E changed \in {{"stack"}, {"heap"}, {"globals"}} : SameBut(x, p, changed))
                   => Steps(machine, p)
<1>1. machine.pc # 0 /\ CodeHere(machine).op = op
  BY Interpreting
<1>2. op \notin Leaving /\ op \notin Jumps
  BY DEF Leaving, Jumps
<1>3. machine.sp \in Nat
  BY GoingFacts
<1>4. /\ Keeps(machine, x) /\ Ready(x) /\ DOMAIN x = Fields /\ x.heap = machine.heap
      /\ \A oop : Known(x, oop) = Known(machine, oop)
      /\ x.pc = fetchNextInstructionOpcode(machine).pc /\ x.status = fetchNextInstructionOpcode(machine).status
      /\ x.sp = machine.sp + Growth(CodeHere(machine))
  <2>1. CASE /\ op \in {"StoreLiteralVariable", "StoreReceiverVariable", "StoreTemporal", "StoreTemporalInVector"}
             /\ x = Onward
    <3>1. Growth(CodeHere(machine)) = 0
      BY <1>1, <2>1, GrowthOf
    <3>2. x = fetchNextInstructionOpcode(machine)
      BY <2>1 DEF Onward
    <3>3. x.sp = machine.sp
      BY <3>2, OnwardReady
    <3> QED BY <1>3, <3>1, <3>2, <3>3, OnwardReady
  <2>2. CASE op \in {"PopStoreTemporal", "PopStoreTemporalInVector"} /\ x = PopOop(Onward)
    <3>1. Growth(CodeHere(machine)) = -1 /\ Operands(CodeHere(machine)) = 1
      BY <1>1, <2>2, GrowthOf
    <3>2. x = PopOop(fetchNextInstructionOpcode(machine))
      BY <2>2 DEF Onward
    <3>3. x.sp = machine.sp - 1
      BY <1>1, <3>1, <3>2, PopOnward
    <3> QED BY <1>1, <1>3, <3>1, <3>2, <3>3, PopOnward
  <2> QED BY <2>1, <2>2
<1>5. \A p : Keeps(x, p) /\ (\E changed \in {{"stack"}, {"heap"}, {"globals"}} : SameBut(x, p, changed))
             => Writes(machine, x, p)
  BY <1>4 DEF Writes
<1>6. \A p : Writes(machine, x, p) => Steps(machine, p)
  BY <1>1, <1>2, WriteSteps
<1> QED BY <1>4, <1>5, <1>6

\* interpretStoreTemporalVariable and the like write a temporary, a variable
\* of the receiver or a global.
LEMMA StoreActions ==
  ASSUME Verified, NEW n, NEW F, NEW S, Going(machine, n, F, S),
         \/ interpretStoreLiteralVariable \/ interpretStoreReceiverVariable
         \/ interpretStoreTemporalVariable \/ interpretPopStoreTemporalVariable
  PROVE  Lands
<1>1. DOMAIN machine = Fields /\ Known(machine, Top) /\ Known(machine, currentReceiver(machine))
  BY GoingFacts, OperandKnown DEF Top
<1>2. CASE interpretStoreLiteralVariable
  <2> DEFINE x == Onward
             g == Instruction.oop.name
             p == [x EXCEPT !.globals[g] = Top]
  <2>1. Interprets({"StoreLiteralVariable"}) /\ machine' = Bounded(p)
    BY <1>2 DEF interpretStoreLiteralVariable, Become
  <2>2. /\ Ready(x) /\ DOMAIN x = Fields /\ Known(x, Top)
        /\ \A q : Keeps(x, q) /\ (\E changed \in {{"stack"}, {"heap"}, {"globals"}} : SameBut(x, q, changed))
                  => Steps(machine, q)
    BY <1>1, <2>1, Written
  <2> HIDE DEF x, g
  <2>3. SameBut(x, p, {"globals"}) /\ p.globals = [x.globals EXCEPT ![g] = Top]
    BY <2>2 DEF SameBut, Fields
  <2> HIDE DEF p
  <2>4. Keeps(x, p)
    BY <2>2, <2>3, KeepsGlobal
  <2> QED BY <2>1, <2>2, <2>3, <2>4 DEF Lands
<1>3. CASE interpretStoreReceiverVariable
  <2> DEFINE x == Onward
             self == currentReceiver(machine)
             v == self.value
             i == Instruction.a + 1
             p == [x EXCEPT !.heap[v].slots[i] = Top]
  <2>1. /\ Interprets({"StoreReceiverVariable"})
        /\ IF self.tag = "pointer" /\ i \in DOMAIN machine.heap[v].slots
           THEN machine' = Bounded(p) ELSE machine' = Bounded(Stop(machine, "crashed"))
    BY <1>3 DEF interpretStoreReceiverVariable, Become
  <2>5. Interprets({"StoreReceiverVariable"})
    BY <2>1
  <2>2. /\ Ready(x) /\ x.heap = machine.heap /\ Known(x, Top)
        /\ \A q : Keeps(x, q) /\ (\E changed \in {{"stack"}, {"heap"}, {"globals"}} : SameBut(x, q, changed))
                  => Steps(machine, q)
    BY <1>1, <2>5, Written
  <2>3. CASE self.tag = "pointer" /\ i \in DOMAIN machine.heap[v].slots
    <3>1. v \in DOMAIN machine.heap
      BY <1>1, <2>3 DEF Known
    <3>2. machine.heap[v].class \notin Reserved
      <4>1. machine.pc # 0 /\ CodeHere(machine).op = "StoreReceiverVariable"
        BY <2>1, Interpreting
      <4>2. Fits(machine, machine.method, self) /\ machine.method \in Methods
            /\ machine.pc \in Nat \ {0} /\ machine.pc <= Len(CodeOf(machine.method))
        BY <4>1, BytecodeFacts
      <4>3. machine.pc \in DOMAIN CodeOf(machine.method)
        BY <4>2 DEF Verified, VerifiedMethod
      <4>4. Stores(machine.method)
        BY <4>1, <4>3 DEF Stores, CodeHere
      <4> QED BY <2>3, <4>2, <4>4 DEF Fits
    <3> HIDE DEF x, v, i
    <3>3. Keeps(x, p) /\ SameBut(x, p, {"heap"})
      BY <2>2, <3>1, <3>2, SlotKept
    <3>4. machine' = Bounded(p)
      BY <2>1, <2>3
    <3> HIDE DEF p
    <3> QED BY <2>2, <3>3, <3>4 DEF Lands
  <2>4. CASE ~(self.tag = "pointer" /\ i \in DOMAIN machine.heap[v].slots)
    BY <1>1, <2>1, <2>4, StopSteps DEF Lands
  <2> QED BY <2>3, <2>4
<1>4. ASSUME NEW op, NEW x, Interprets({op}), \/ op = "StoreTemporal" /\ x = Onward
                                              \/ op = "PopStoreTemporal" /\ x = PopOop(Onward)
      PROVE  Steps(machine, setTemporary(x, Instruction.a, Top))
  <2> DEFINE p == setTemporary(x, Instruction.a, Top)
  <2>1. /\ Ready(x) /\ DOMAIN x = Fields /\ Known(x, Top)
        /\ \A q : Keeps(x, q) /\ (\E changed \in {{"stack"}, {"heap"}, {"globals"}} : SameBut(x, q, changed))
                  => Steps(machine, q)
    BY <1>1, <1>4, Written
  <2>2. Instruction.a \in Nat
    BY <1>4, Interpreting, OperandsHere
  <2>3. Keeps(x, p) /\ SameBut(x, p, {"stack"})
    BY <2>1, <2>2, SetTemporaryKeeps, SetTemporaryFields
  <2> HIDE DEF p
  <2>4. Steps(machine, p)
    BY <2>1, <2>3
  <2> QED BY <2>4 DEF p
<1>5. CASE interpretStoreTemporalVariable
  <2>1. Interprets({"StoreTemporal"}) /\ machine' = Bounded(setTemporary(Onward, Instruction.a, Top))
    BY <1>5 DEF interpretStoreTemporalVariable, Become
  <2>2. Steps(machine, setTemporary(Onward, Instruction.a, Top))
    BY <1>4, <2>1
  <2> QED BY <2>1, <2>2 DEF Lands
<1>6. CASE interpretPopStoreTemporalVariable
  <2>1. Interprets({"PopStoreTemporal"}) /\ machine' = Bounded(setTemporary(PopOop(Onward), Instruction.a, Top))
    BY <1>6 DEF interpretPopStoreTemporalVariable, Become
  <2>2. Steps(machine, setTemporary(PopOop(Onward), Instruction.a, Top))
    BY <1>4, <2>1
  <2> QED BY <2>1, <2>2 DEF Lands
<1> QED BY <1>2, <1>3, <1>5, <1>6

\* The variables that a block shares with its method are in an array.
LEMMA VectorActions ==
  ASSUME Verified, NEW n, NEW F, NEW S, Going(machine, n, F, S),
         \/ interpretPushTemporaryInVector \/ interpretStoreTemporalInVector
         \/ interpretPopStoreTemporalInVector
  PROVE  Lands
<1> DEFINE v == Vector.value
           i == Instruction.a + 1
           array == /\ Vector.tag = "pointer" /\ machine.heap[v].class = "Array"
                    /\ i \in DOMAIN machine.heap[v].elements
<1>1. DOMAIN machine = Fields /\ Known(machine, Top) /\ Ready(machine)
  BY GoingFacts, OperandKnown DEF Top
<1>2. ASSUME NEW p, array => Steps(machine, p)
      PROVE  Steps(machine, WithVector(p))
  <2>1. \/ array /\ WithVector(p) = p
        \/ WithVector(p) = Stop(machine, "assertion")
        \/ WithVector(p) = Stop(machine, "crashed")
    BY Zenon DEF WithVector
  <2>2. Steps(machine, Stop(machine, "assertion")) /\ Steps(machine, Stop(machine, "crashed"))
    BY <1>1, StopSteps
  <2> HIDE DEF array
  <2> QED BY <1>2, <2>1, <2>2
<1>3. array => v \in DOMAIN machine.heap /\ machine.heap[v].class \notin Reserved
  <2>1. Known(machine, Vector)
    BY OperandKnown DEF Vector
  <2> QED BY <2>1 DEF Known, Reserved
<1>4. CASE interpretPushTemporaryInVector
  <2> DEFINE oop == machine.heap[v].elements[i]
  <2>1. Interprets({"PushTemporalInVector"}) /\ machine' = Bounded(WithVector(Push(Onward, oop)))
    BY <1>4 DEF interpretPushTemporaryInVector, Become
  <2>2. array => Known(machine, oop)
    BY <1>1, <1>3 DEF Ready, DataOK, HeapOK, ObjectOK
  <2> HIDE DEF array, oop
  <2>3. array => Steps(machine, Push(Onward, oop))
    BY <2>1, <2>2, InstructionPushes
  <2> QED BY <1>2, <2>1, <2>3 DEF Lands
<1>5. ASSUME NEW op, NEW x, Interprets({op}), \/ op = "StoreTemporalInVector" /\ x = Onward
                                              \/ op = "PopStoreTemporalInVector" /\ x = PopOop(Onward)
      PROVE  Steps(machine, WithVector([x EXCEPT !.heap[v].elements[i] = Top]))
  <2> DEFINE p == [x EXCEPT !.heap[v].elements[i] = Top]
  <2>1. /\ Ready(x) /\ x.heap = machine.heap /\ Known(x, Top)
        /\ \A q : Keeps(x, q) /\ (\E changed \in {{"stack"}, {"heap"}, {"globals"}} : SameBut(x, q, changed))
                  => Steps(machine, q)
    BY <1>1, <1>5, Written
  <2> HIDE DEF v, i
  <2>2. array => Keeps(x, p) /\ SameBut(x, p, {"heap"})
    BY <1>3, <2>1, ElementKept
  <2> HIDE DEF p, array
  <2>3. array => Steps(machine, p)
    BY <2>1, <2>2
  <2>4. Steps(machine, WithVector(p))
    BY <1>2, <2>3
  <2> QED BY <2>4 DEF p
<1>6. CASE interpretStoreTemporalInVector
  <2>1. Interprets({"StoreTemporalInVector"})
        /\ machine' = Bounded(WithVector([Onward EXCEPT !.heap[v].elements[i] = Top]))
    BY <1>6 DEF interpretStoreTemporalInVector, Become
  <2>2. Steps(machine, WithVector([Onward EXCEPT !.heap[v].elements[i] = Top]))
    BY <1>5, <2>1
  <2> QED BY <2>1, <2>2 DEF Lands
<1>7. CASE interpretPopStoreTemporalInVector
  <2>1. Interprets({"PopStoreTemporalInVector"})
        /\ machine' = Bounded(WithVector([PopOop(Onward) EXCEPT !.heap[v].elements[i] = Top]))
    BY <1>7 DEF interpretPopStoreTemporalInVector, Become
  <2>2. Steps(machine, WithVector([PopOop(Onward) EXCEPT !.heap[v].elements[i] = Top]))
    BY <1>5, <2>1
  <2> QED BY <2>1, <2>2 DEF Lands
<1> QED BY <1>4, <1>6, <1>7

\* The opcode that is fetched depends on the method alone.
LEMMA FetchSame ==
  ASSUME NEW m, NEW p, DOMAIN m = Fields, DOMAIN p = Fields, p.status = m.status, p.method = m.method,
         p.pc = m.pc, NEW pc
  PROVE  FetchAt(p, pc).pc = FetchAt(m, pc).pc /\ FetchAt(p, pc).status = FetchAt(m, pc).status
BY DEF FetchAt, Stop, Fields

\* interpretPopStackTop, interpretJump and interpretConditionalJump go on at
\* a successor with the operands for it.
LEMMA JumpActions ==
  ASSUME Verified, NEW n, NEW F, NEW S, Going(machine, n, F, S),
         interpretPopStackTop \/ interpretJump \/ interpretConditionalJump
  PROVE  Lands
<1>1. DOMAIN machine = Fields /\ Ready(machine) /\ machine.sp \in Nat /\ machine.framePointer \in Nat
  BY GoingFacts
<1>2. CASE interpretPopStackTop
  <2>1. Interprets({"PopStackTop"}) /\ machine' = Bounded(PopOop(Onward))
    BY <1>2 DEF interpretPopStackTop, Become
  <2>2. machine.pc # 0 /\ CodeHere(machine).op = "PopStackTop"
    BY <2>1, Interpreting
  <2>3. Growth(CodeHere(machine)) = -1 /\ Operands(CodeHere(machine)) = 1
    BY <2>2, GrowthOf
  <2>4. CodeHere(machine).op \notin Leaving /\ CodeHere(machine).op \notin Jumps
    BY <2>2 DEF Leaving, Jumps
  <2> DEFINE p == PopOop(Onward)
  <2>5. /\ Keeps(machine, p) /\ p.sp = machine.sp - 1 /\ p.pc = fetchNextInstructionOpcode(machine).pc
        /\ p.status = fetchNextInstructionOpcode(machine).status
    BY <2>2, <2>3, PopOnward DEF Onward
  <2> HIDE DEF p
  <2>6. p.sp = machine.sp + Growth(CodeHere(machine))
    BY <1>1, <2>3, <2>5
  <2>7. Steps(machine, p)
    BY <2>2, <2>4, <2>5, <2>6, OnwardSteps
  <2> QED BY <2>1, <2>7 DEF Lands, p
<1>3. CASE interpretJump
  <2> DEFINE pc == machine.pc + Instruction.to
             d == DepthHere(machine) + Growth(CodeHere(machine))
             p == FetchAt(machine, pc)
  <2>1. Interprets({"Jump"}) /\ machine' = Bounded(p)
    BY <1>3 DEF interpretJump, Become
  <2>2. machine.pc # 0 /\ CodeHere(machine).op = "Jump" /\ Instruction = CodeHere(machine)
    BY <2>1, Interpreting
  <2>3. <<pc, d>> \in Successors(CodeHere(machine), machine.pc, DepthHere(machine))
    <3>1. Successors(CodeHere(machine), machine.pc, DepthHere(machine)) = {<<pc, d>>}
      BY <2>2, Zenon DEF Successors, Leaving
    <3> QED BY <3>1
  <2>4. machine.sp = machine.framePointer + 4 + d
    BY <1>1, <2>2, GrowthOf, OperandsHere
  <2> HIDE DEF pc
  <2>5. Keeps(machine, p) /\ p.sp = machine.sp
    BY <1>1, FetchAtKeeps
  <2> HIDE DEF d, p
  <2>6. p.pc = FetchAt(machine, pc).pc /\ p.status = FetchAt(machine, pc).status
    BY DEF p
  <2>7. p.sp = machine.framePointer + 4 + d
    BY <2>4, <2>5
  <2>8. Steps(machine, p)
    BY <2>2, <2>3, <2>5, <2>6, <2>7, SuccessorSteps
  <2> QED BY <2>1, <2>8 DEF Lands
<1>4. CASE interpretConditionalJump
  <2> DEFINE code == CodeHere(machine)
             popped == PopOop(machine)
             next == machine.pc + 1
             branch == machine.pc + Instruction.to
             d == DepthHere(machine) + Growth(code)
  <2>1. /\ Interprets({"JumpOnTrue", "JumpOnFalse"})
        /\ \/ machine' = Bounded(Stop(machine, "aborted"))
           \/ machine' = Bounded(FetchAt(popped, branch))
           \/ machine' = Bounded(FetchAt(popped, next))
    BY <1>4, Zenon DEF interpretConditionalJump, Become
  <2>2. machine.pc # 0 /\ code.op \in {"JumpOnTrue", "JumpOnFalse"} /\ Instruction = code
    BY <2>1, Interpreting
  <2>3. Growth(code) = -1 /\ Operands(code) = 1
    BY <2>2, GrowthOf
  <2>4. <<branch, d>> \in Successors(code, machine.pc, DepthHere(machine))
        /\ <<next, d>> \in Successors(code, machine.pc, DepthHere(machine))
    <3> HIDE DEF code
    <3>1. code.op \notin Leaving /\ code.op # "Jump"
      BY <2>2 DEF Leaving
    <3>2. Successors(code, machine.pc, DepthHere(machine)) = {<<next, d>>, <<machine.pc + code.to, d>>}
      BY <2>2, <3>1, Zenon DEF Successors, d, next
    <3> HIDE DEF d
    <3> QED BY <2>2, <3>2
  <2>5. machine.sp - 1 = machine.framePointer + 4 + d /\ machine.framePointer + 4 <= machine.sp - 1
    <3>1. 1 <= DepthHere(machine) /\ DepthHere(machine) \in Nat
          /\ machine.sp = machine.framePointer + 4 + DepthHere(machine)
      BY <2>2, <2>3, OperandsHere
    <3> QED BY <1>1, <2>3, <3>1
  <2>6. Keeps(machine, popped) /\ Ready(popped) /\ popped.sp = machine.sp - 1
    <3>1. 1 \in Nat
      OBVIOUS
    <3> QED BY <1>1, <2>5, <3>1, PopKeeps DEF PopOop
  <2>7. DOMAIN popped = Fields /\ popped.status = machine.status /\ popped.method = machine.method
        /\ popped.pc = machine.pc
    <3>1. SameBut(machine, popped, {"sp"})
      BY <1>1, PopFields DEF PopOop
    <3> HIDE DEF popped
    <3> QED BY <3>1 DEF SameBut, Fields
  <2> HIDE DEF popped, d, code
  <2>8. ASSUME NEW pc, <<pc, d>> \in Successors(code, machine.pc, DepthHere(machine))
        PROVE  Steps(machine, FetchAt(popped, pc))
    <3> DEFINE p == FetchAt(popped, pc)
    <3>1. Keeps(popped, p) /\ p.sp = machine.sp - 1
      BY <2>6, FetchAtKeeps
    <3>2. p.pc = FetchAt(machine, pc).pc /\ p.status = FetchAt(machine, pc).status
      BY <1>1, <2>7, FetchSame
    <3> HIDE DEF p
    <3>3. Keeps(machine, p)
      BY <2>6, <3>1, KeepsTransitive
    <3>4. p.sp = machine.framePointer + 4 + d
      BY <2>5, <3>1
    <3>5. Steps(machine, p)
      BY <2>2, <2>8, <3>2, <3>3, <3>4, SuccessorSteps DEF code
    <3> QED BY <3>5 DEF p
  <2>9. Steps(machine, FetchAt(popped, branch)) /\ Steps(machine, FetchAt(popped, next))
    BY <2>4, <2>8
  <2>10. Steps(machine, Stop(machine, "aborted"))
    BY <1>1, StopSteps
  <2> QED BY <2>1, <2>9, <2>10 DEF Lands
<1> QED BY <1>2, <1>3, <1>4

\* A frame is married, for its context or for a closure that it makes.
LEMMA FrameMarried ==
  ASSUME Verified, NEW m, NEW n, NEW F, NEW S, Going(m, n, F, S), m.pc # 0, NEW to,
         NEW pc, NEW d, Reaches(m.method, pc, d)
  PROVE  LET q == ensureFrameIsMarried(FetchAt(m, to)) IN
         /\ Layout(q, n, F, S) /\ Ready(q) /\ DOMAIN q = Fields /\ Untouched(m, q) /\ q.sp = m.sp
         /\ q.method = m.method /\ q.scripts = m.scripts /\ q.framePointer = m.framePointer
         /\ q.argumentCount = m.argumentCount
         /\ q.pc = FetchAt(m, to).pc /\ q.status = FetchAt(m, to).status
         /\ ThisContext(q).tag = "pointer" /\ Known(q, ThisContext(q))
         /\ RunsOn(q, q.heap[ThisContext(q).value], pc, d)
<1> DEFINE x == FetchAt(m, to)
           q == ensureFrameIsMarried(x)
<1>1. DOMAIN m = Fields /\ Ready(m) /\ Layout(m, n, F, S) /\ IsCompiled(m, m.framePointer)
  BY GoingFacts, BytecodeFacts
<1>2. Keeps(m, x) /\ x.stack = m.stack /\ x.sp = m.sp /\ SameBut(m, x, {"pc", "status"})
  BY <1>1, FetchAtKeeps, FetchAtFields
<1> HIDE DEF x
<1>3. /\ x.framePointer = m.framePointer /\ x.method = m.method /\ x.scripts = m.scripts
      /\ x.argumentCount = m.argumentCount
  BY <1>2 DEF Keeps
<1>4. Layout(x, n, F, S) /\ IsCompiled(x, x.framePointer)
  BY <1>1, <1>2, <1>3, LayoutKept DEF IsCompiled, MethodAt
<1>5. /\ Layout(q, n, F, S) /\ Untouched(x, q) /\ SameBut(x, q, {"stack", "heap"})
      /\ HasContextIn(MetaAt(q, x.framePointer))
      /\ \A i \in 1..MaxStack : i = x.framePointer + 2 \/ i = x.framePointer + 3 \/ q.stack[i] = x.stack[i]
  BY <1>4, MarryKeeps
<1> HIDE DEF q
<1>6. /\ q.sp = x.sp /\ q.method = x.method /\ q.scripts = x.scripts /\ q.framePointer = x.framePointer
      /\ q.argumentCount = x.argumentCount /\ q.pc = x.pc /\ q.status = x.status /\ DOMAIN q = Fields
  BY <1>5 DEF SameBut, Fields
<1>7. Untouched(m, q)
  BY <1>2, <1>3, <1>5 DEF Untouched
<1>8. IsCompiled(q, q.framePointer)
  <2>1. q.method = MethodAt(q, q.framePointer) /\ m.method = MethodAt(m, m.framePointer)
    BY <1>1, <1>5, FrameRead
  <2> QED BY <1>1, <1>3, <1>6, <2>1 DEF IsCompiled
<1>9. /\ ThisContext(q).tag = "pointer" /\ Known(q, ThisContext(q))
      /\ RunsOn(q, q.heap[ThisContext(q).value], pc, d)
  <2>1. Reaches(q.method, pc, d) /\ HasContextIn(MetaAt(q, q.framePointer))
    BY <1>3, <1>5, <1>6
  <2> QED BY <1>5, <1>8, <2>1, ContextOfFrame
<1>10. Ready(q)
  BY <1>5, LayoutReady
<1> QED BY <1>2, <1>3, <1>5, <1>6, <1>7, <1>9, <1>10 DEF q, x

\* The context of a frame is pushed.
LEMMA ThisContextAction ==
  ASSUME Verified, NEW n, NEW F, NEW S, Going(machine, n, F, S), interpretPushThisContext
  PROVE  Lands
<1> DEFINE next == machine.pc + 1
           d == DepthHere(machine) + 1
           q == ensureFrameIsMarried(FetchAt(machine, next))
           oop == ThisContext(q)
           p == Push(q, oop)
<1>1. Interprets({"PushThisContext"}) /\ machine' = Bounded(p)
  BY DEF interpretPushThisContext, Become, Onward, fetchNextInstructionOpcode
<1>2. machine.pc # 0 /\ CodeHere(machine).op = "PushThisContext"
  BY <1>1, Interpreting
<1>3. <<next, d>> \in Successors(CodeHere(machine), machine.pc, DepthHere(machine))
  <2>1. CodeHere(machine).op \notin Leaving /\ CodeHere(machine).op \notin Jumps
        /\ Growth(CodeHere(machine)) = 1
    BY <1>2, GrowthOf DEF Leaving, Jumps
  <2>2. Successors(CodeHere(machine), machine.pc, DepthHere(machine))
          = {<<next, DepthHere(machine) + Growth(CodeHere(machine))>>}
    BY <2>1, Zenon DEF Successors, Jumps
  <2> QED BY <2>1, <2>2
<1>4. machine.sp + 1 = machine.framePointer + 4 + d
  <2>1. machine.sp = machine.framePointer + 4 + DepthHere(machine) /\ DepthHere(machine) \in Nat
        /\ machine.framePointer \in Nat
    BY <1>2, OperandsHere, GoingFacts
  <2> QED BY <2>1
<1> HIDE DEF next, d
<1>5. Reaches(machine.method, next, d)
  BY <1>2, <1>3, SuccessorReached
<1>6. /\ Layout(q, n, F, S) /\ Ready(q) /\ DOMAIN q = Fields /\ Untouched(machine, q) /\ q.sp = machine.sp
      /\ q.method = machine.method /\ q.scripts = machine.scripts /\ q.framePointer = machine.framePointer
      /\ q.argumentCount = machine.argumentCount
      /\ q.pc = FetchAt(machine, next).pc /\ q.status = FetchAt(machine, next).status
      /\ Known(q, oop)
  BY <1>2, <1>5, FrameMarried
<1> HIDE DEF q, oop
<1>7. Keeps(q, p) /\ p.sp = machine.sp + 1 /\ SameBut(q, p, {"stack", "sp"})
  <2>1. Keeps(q, p) /\ p.sp = q.sp + 1
    BY <1>6, PushKeeps
  <2>2. SameBut(q, p, {"stack", "sp"})
    BY <1>6, PushFields
  <2> QED BY <1>6, <2>1, <2>2
<1> HIDE DEF p
<1>8. Layout(p, n, F, S) /\ Untouched(q, p)
  BY <1>6, <1>7, LayoutKept, KeepsUntouched
<1>9. p.method = machine.method /\ p.scripts = machine.scripts /\ p.framePointer = machine.framePointer
      /\ p.pc = FetchAt(machine, next).pc /\ p.status = FetchAt(machine, next).status
  BY <1>6, <1>7 DEF SameBut, Fields
<1>10. Untouched(machine, p)
  BY <1>6, <1>8 DEF Untouched
<1>11. p.sp = machine.framePointer + 4 + d
  BY <1>4, <1>7
<1>12. Steps(machine, p)
  BY <1>2, <1>3, <1>8, <1>9, <1>10, <1>11, SuccessorArrives
<1> QED BY <1>1, <1>12 DEF Lands

\* A closure is pushed that takes its copied values from the stack.
LEMMA ClosureAction ==
  ASSUME Verified, NEW n, NEW F, NEW S, Going(machine, n, F, S), interpretPushClosure
  PROVE  Lands
<1> DEFINE code == CodeHere(machine)
           after == machine.pc + Instruction.to
           start == machine.pc + 1
           a == Instruction.a % 2
           d == DepthHere(machine) + (1 - a)
           q == ensureFrameIsMarried(FetchAt(machine, after))
           slots == <<ThisContext(q), Word("int", start, ""), Word("int", Instruction.b % 8, "")>>
           copied == [i \in 1..a |-> stackOopAt(q, a - i)]
           closure == Object("BlockClosure", slots, copied)
           popped == popMultiplesOops(q, a)
           born == Allocate(popped, closure)
           oop == Newest(born)
           p == Push(born, oop)
<1>1. Interprets({"PushClosure"}) /\ machine' = Bounded(p)
  BY DEF interpretPushClosure, Become
<1>2. machine.pc # 0 /\ code.op = "PushClosure" /\ Instruction = code
  <2>1. Interprets({"PushClosure"})
    BY <1>1
  <2> QED BY <2>1, Interpreting
<1>3. /\ a = code.a /\ a \in {0, 1} /\ a \in Nat
  <2>1. code.a \in Nat /\ code.a <= 1
    BY <1>2, BytecodeFacts DEF VerifiedInstruction, CodeHere
  <2> HIDE DEF code
  <2>2. code.a = 0 \/ code.a = 1
    BY <2>1
  <2>3. 0 % 2 = 0 /\ 1 % 2 = 1
    OBVIOUS
  <2> QED BY <1>2, <2>2, <2>3
<1>4. /\ Growth(code) = 1 - a /\ a <= DepthHere(machine) /\ DepthHere(machine) \in Nat
      /\ machine.sp = machine.framePointer + 4 + DepthHere(machine)
  <2>1. Growth(code) = 1 - code.a /\ Operands(code) = code.a
    BY <1>2, GrowthOf
  <2> QED BY <1>2, <1>3, <2>1, OperandsHere
<1>5. <<after, d>> \in Successors(code, machine.pc, DepthHere(machine))
      /\ <<start, a>> \in Successors(code, machine.pc, DepthHere(machine))
  <2> HIDE DEF code, a
  <2>1. code.op \notin Leaving /\ code.op # "Jump" /\ code.op \notin {"JumpOnTrue", "JumpOnFalse"}
    BY <1>2 DEF Leaving
  <2>2. Successors(code, machine.pc, DepthHere(machine))
          = {<<start, code.a>>, <<machine.pc + code.to, DepthHere(machine) + Growth(code)>>}
    BY <1>2, <2>1, Zenon DEF Successors, start
  <2> QED BY <1>2, <1>3, <1>4, <2>2
<1>6. machine.sp - a + 1 = machine.framePointer + 4 + d /\ machine.framePointer + 4 <= machine.sp - a
      /\ machine.sp \in Nat /\ machine.framePointer \in Nat /\ machine.sp + 24 <= MaxStack /\ MaxStack \in Nat
  <2>1. machine.sp \in Nat /\ machine.framePointer \in Nat /\ machine.sp + 24 <= MaxStack /\ MaxStack \in Nat
    BY GoingFacts
  <2> HIDE DEF a
  <2> QED BY <1>3, <1>4, <2>1
<1> HIDE DEF d, a, after
<1>7. Reaches(machine.method, start, a)
  BY <1>2, <1>5, SuccessorReached
<1> HIDE DEF code
<1>8. /\ Layout(q, n, F, S) /\ Ready(q) /\ DOMAIN q = Fields /\ Untouched(machine, q) /\ q.sp = machine.sp
      /\ q.method = machine.method /\ q.scripts = machine.scripts /\ q.framePointer = machine.framePointer
      /\ q.argumentCount = machine.argumentCount
      /\ q.pc = FetchAt(machine, after).pc /\ q.status = FetchAt(machine, after).status
      /\ ThisContext(q).tag = "pointer" /\ Known(q, ThisContext(q))
      /\ RunsOn(q, q.heap[ThisContext(q).value], start, a)
  BY <1>2, <1>7, FrameMarried
<1> HIDE DEF q
<1>9. \A i \in 1..a : Known(q, copied[i])
  <2> TAKE i \in 1..a
  <2>1. a - i \in Nat /\ a - i < q.sp /\ q.sp <= MaxStack
    BY <1>3, <1>6, <1>8
  <2> QED BY <1>8, <2>1, TopKnown
<1>10. IsSequence(copied) /\ DOMAIN copied = 1..a /\ Len(copied) = a
  <2>1. copied = [i \in 1..a |-> copied[i]] /\ DOMAIN copied = 1..a
    OBVIOUS
  <2> HIDE DEF copied
  <2>2. IsSequence(copied) /\ Len(copied) = a
    BY <1>3, <2>1, SequenceFunction, Zenon
  <2> QED BY <2>1, <2>2
<1> HIDE DEF copied
<1>11. Keeps(q, popped) /\ Ready(popped) /\ popped.sp = machine.sp - a /\ popped.heap = q.heap
       /\ SameBut(q, popped, {"sp"})
  BY <1>3, <1>6, <1>8, PopKeeps, PopFields
<1> HIDE DEF popped
<1>12. DOMAIN popped = Fields /\ popped.pc = q.pc /\ popped.status = q.status
  BY <1>11 DEF SameBut, Fields
<1>13. ObjectOK(popped, closure) /\ closure.class # "Context"
  <2>1. /\ DOMAIN closure = {"class", "slots", "elements"} /\ closure.class = "BlockClosure"
        /\ closure.slots = slots /\ closure.elements = copied
    BY DEF Object
  <2>2. /\ DOMAIN slots = 1..3 /\ slots[1] = ThisContext(q) /\ slots[2].value = start
        /\ slots[2].tag = "int" /\ slots[3].tag = "int"
    <3>1. \A x : Word("int", x, "").tag = "int" /\ Word("int", x, "").value = x
      BY DEF Word
    <3> DEFINE w == Word("int", start, "")
               v == Word("int", Instruction.b % 8, "")
    <3>2. w.value = start /\ w.tag = "int" /\ v.tag = "int"
      BY <3>1
    <3>3. slots = <<ThisContext(q), w, v>>
      OBVIOUS
    <3> HIDE DEF w, v, slots, start
    <3> QED BY <3>2, <3>3
  <2>3. \A oop1 : Known(q, oop1) => Known(popped, oop1)
    BY <1>11 DEF Known
  <2> HIDE DEF closure, slots
  <2>4. \A i \in DOMAIN slots : Known(popped, slots[i])
    <3>1. Known(popped, slots[1])
      BY <1>8, <2>2, <2>3
    <3>2. Known(popped, slots[2]) /\ Known(popped, slots[3])
      BY <2>2 DEF Known
    <3> QED BY <2>2, <3>1, <3>2
  <2>5. \A i \in DOMAIN copied : Known(popped, copied[i])
    BY <1>9, <1>10, <2>3
  <2>6. RunsOn(popped, popped.heap[slots[1].value], slots[2].value, Len(copied))
    BY <1>8, <1>10, <1>11, <2>2 DEF RunsOn, Fits
  <2> QED BY <1>10, <2>1, <2>2, <2>4, <2>5, <2>6 DEF ObjectOK
<1> HIDE DEF closure
<1>14. /\ Keeps(popped, born) /\ Ready(born) /\ born.sp = popped.sp /\ Known(born, oop)
       /\ SameBut(popped, born, {"heap"})
  BY <1>11, <1>12, <1>13, AllocateKeeps, AllocateFields
<1> HIDE DEF born, oop
<1>15. DOMAIN born = Fields /\ born.pc = popped.pc /\ born.status = popped.status
  BY <1>14 DEF SameBut, Fields
<1>16. Keeps(born, p) /\ p.sp = born.sp + 1 /\ SameBut(born, p, {"stack", "sp"})
  BY <1>14, <1>15, PushKeeps, PushFields
<1> HIDE DEF p
<1>17. Keeps(q, p)
  BY <1>11, <1>14, <1>16, KeepsTransitive
<1>18. Layout(p, n, F, S) /\ Untouched(q, p)
  BY <1>8, <1>17, LayoutKept, KeepsUntouched
<1>19. p.method = machine.method /\ p.scripts = machine.scripts /\ p.framePointer = machine.framePointer
  BY <1>8, <1>17 DEF Keeps
<1>20. p.pc = FetchAt(machine, after).pc /\ p.status = FetchAt(machine, after).status
  <2>1. p.pc = born.pc /\ p.status = born.status
    BY <1>16 DEF SameBut, Fields
  <2> QED BY <1>8, <1>12, <1>15, <2>1
<1>21. Untouched(machine, p)
  BY <1>8, <1>18 DEF Untouched
<1>22. p.sp = machine.framePointer + 4 + d
  BY <1>6, <1>11, <1>14, <1>16
<1>23. Steps(machine, p)
  BY <1>2, <1>5, <1>18, <1>19, <1>20, <1>21, <1>22, SuccessorArrives DEF code
<1> QED BY <1>1, <1>23 DEF Lands

\* An instruction sends a message.
LEMMA InstructionSends ==
  ASSUME Verified, NEW m, NEW n, NEW F, NEW S, Going(m, n, F, S), m.pc # 0,
         CodeHere(m).op \in {"Send", "SpecialMessage"}, NEW selector, Takes(selector, CodeHere(m).a)
  PROVE  Steps(m, sendSelectorArgumentCount(m, selector, CodeHere(m).a))
<1> DEFINE args == CodeHere(m).a
           d == m.sp - args - (m.framePointer + 4)
<1>1. args \in 0..255 /\ args \in Nat
  <2>1. args \in 0..255 /\ \A i \in 0..255 : i \in Nat
    BY DEF Takes
  <2> QED BY <2>1
<1>2. /\ m.sp \in Nat /\ m.framePointer \in Nat /\ m.sp + 24 <= MaxStack /\ MaxStack \in Nat
      /\ args + 1 <= DepthHere(m) /\ DepthHere(m) \in Nat /\ m.sp = m.framePointer + 4 + DepthHere(m)
  <2>1. Operands(CodeHere(m)) = args + 1
    BY GrowthOf
  <2> QED BY <2>1, OperandsHere, GoingFacts
<1>3. Reaches(m.method, m.pc + 1, d)
  <2>1. CodeHere(m).op \notin Leaving /\ CodeHere(m).op \notin Jumps /\ Growth(CodeHere(m)) = -args
    BY GrowthOf DEF Leaving, Jumps
  <2>2. Successors(CodeHere(m), m.pc, DepthHere(m)) = {<<m.pc + 1, DepthHere(m) + Growth(CodeHere(m))>>}
    BY <2>1, Zenon DEF Successors, Jumps
  <2>3. DepthHere(m) + Growth(CodeHere(m)) = d
    <3> HIDE DEF args
    <3>1. Growth(CodeHere(m)) = -args
      BY <2>1
    <3> QED BY <1>1, <1>2, <3>1
  <2>4. <<m.pc + 1, d>> \in Successors(CodeHere(m), m.pc, DepthHere(m))
    BY <2>2, <2>3
  <2> HIDE DEF d
  <2> QED BY <2>4, SuccessorReached
<1>4. IsCompiled(m, m.framePointer) /\ m.pc \in Nat \ {0}
  BY BytecodeFacts
<1>5. m.framePointer + 4 < m.sp - args /\ m.sp + 16 <= MaxStack /\ m.sp + 17 <= MaxStack
  <2> HIDE DEF args
  <2> QED BY <1>1, <1>2
<1>6. Resumable(m, S[n], args)
  BY <1>1, <1>3, <1>4, <1>5 DEF Resumable
<1>7. Sends(m, n, F, S, args)
  BY <1>5, <1>6, GoingFacts DEF Sends
<1> QED BY <1>5, <1>7, SendSteps

\* interpretSend finds its receiver below the arguments, and activates a
\* method that takes them.
LEMMA SendAction ==
  ASSUME Verified, NEW n, NEW F, NEW S, Going(machine, n, F, S), interpretSend
  PROVE  Lands
<1> DEFINE code == CodeHere(machine)
<1>1. Interprets({"Send"})
      /\ machine' = Bounded(sendSelectorArgumentCount(machine, Instruction.oop.name, Instruction.a))
  BY DEF interpretSend, Become
<1>2. machine.pc # 0 /\ code.op = "Send" /\ Instruction = code
  BY <1>1, Interpreting
<1>3. Takes(code.oop.name, code.a)
  BY <1>2, BytecodeFacts DEF VerifiedInstruction, CodeHere
<1>4. Steps(machine, sendSelectorArgumentCount(machine, code.oop.name, code.a))
  BY <1>2, <1>3, InstructionSends
<1> QED BY <1>1, <1>2, <1>4 DEF Lands

\* The message of an instruction is answered without a send, it is sent, or the
\* machine stops.
LEMMA SpecialMessageCases ==
  ASSUME interpretSpecialMessage
  PROVE  \E result : /\ Special(result)
                     /\ \/ Become(Push(popMultiplesOops(Onward, Instruction.a + 1), result.oop))
                        \/ Become(sendSelectorArgumentCount(machine, FallbackSelector(Instruction.oop.name),
                                                            Instruction.a))
                        \/ Become(Stop(machine, "crashed")) \/ Become(Stop(machine, "assertion"))
<1> DEFINE message == Instruction.oop.name
           result == IF message \in ArithmeticMessages
                     THEN SpecialArithmetic(message, stackOopAt(machine, 1), Top)
                     ELSE IF message = "==" THEN Answer(Boolean(stackOopAt(machine, 1) = Top))
                     ELSE IF message = "class" THEN Answer(ClassOf(machine, Top))
                     ELSE SendInstead
           p == Push(popMultiplesOops(Onward, Instruction.a + 1), result.oop)
           sent == sendSelectorArgumentCount(machine, FallbackSelector(message), Instruction.a)
           outcome == result.outcome
<1>1. Special(result)
  <2>1. message \in ArithmeticMessages => Special(SpecialArithmetic(message, stackOopAt(machine, 1), Top))
    BY SpecialResult
  <2>2. Special(Answer(Boolean(stackOopAt(machine, 1) = Top)))
    BY AnswerResult, NumbersAreNoPointers, Zenon
  <2>3. Special(Answer(ClassOf(machine, Top)))
    <3>1. ClassOf(machine, Top).tag # "pointer"
      BY DEF ClassOf, ClassOop, Word
    <3> QED BY <3>1, AnswerResult
  <2> QED BY <2>1, <2>2, <2>3, OtherResults, Zenon
<1>2. (CASE outcome = "answer" -> Become(p)
         [] outcome = "send" -> Become(sent)
         [] outcome = "crash" -> Become(Stop(machine, "crashed"))
         [] outcome = "assertion" -> Become(Stop(machine, "assertion")))
  BY Zenon DEF interpretSpecialMessage
<1>3. outcome \in {"answer", "send", "crash", "assertion"}
  BY <1>1 DEF Special
<1> HIDE DEF outcome, p, sent, result
<1>4. Become(p) \/ Become(sent) \/ Become(Stop(machine, "crashed")) \/ Become(Stop(machine, "assertion"))
  BY <1>2, <1>3
<1> QED BY <1>1, <1>4, Zenon DEF p, sent

\* interpretSpecialMessage pops its operands for an answer, or sends the
\* message with them.
LEMMA SpecialMessageAction ==
  ASSUME Verified, NEW n, NEW F, NEW S, Going(machine, n, F, S), interpretSpecialMessage
  PROVE  Lands
<1> DEFINE code == CodeHere(machine)
           message == Instruction.oop.name
           a == Instruction.a
           x == Onward
           popped == popMultiplesOops(x, a + 1)
           sent == sendSelectorArgumentCount(machine, FallbackSelector(message), a)
<1>1. PICK result : /\ Special(result)
                    /\ \/ Become(Push(popped, result.oop)) \/ Become(sent)
                       \/ Become(Stop(machine, "crashed")) \/ Become(Stop(machine, "assertion"))
  BY SpecialMessageCases, Zenon
<1> DEFINE p == Push(popped, result.oop)
<1>2. Interprets({"SpecialMessage"})
  BY DEF interpretSpecialMessage
<1>3. \/ machine' = Bounded(p) \/ machine' = Bounded(sent) \/ machine' = Bounded(Stop(machine, "crashed"))
      \/ machine' = Bounded(Stop(machine, "assertion"))
  BY <1>1 DEF Become
<1>4. machine.pc # 0 /\ code.op = "SpecialMessage" /\ Instruction = code
  BY <1>2, Interpreting
<1>5. DOMAIN machine = Fields /\ machine.sp \in Nat /\ machine.framePointer \in Nat
  BY GoingFacts
<1>6. Steps(machine, sent)
  <2>1. Takes(FallbackSelector(code.oop.name), code.a)
    BY <1>4, BytecodeFacts DEF VerifiedInstruction, CodeHere
  <2>2. Steps(machine, sendSelectorArgumentCount(machine, FallbackSelector(code.oop.name), code.a))
    BY <1>4, <2>1, InstructionSends
  <2> QED BY <1>4, <2>2
<1>7. Steps(machine, p)
  <2>1. /\ a \in Nat /\ a + 1 <= DepthHere(machine) /\ DepthHere(machine) \in Nat
        /\ machine.sp = machine.framePointer + 4 + DepthHere(machine) /\ Growth(code) = -a
    <3>1. Operands(code) = code.a + 1 /\ Growth(code) = -code.a
      BY <1>4, GrowthOf
    <3> QED BY <1>4, <3>1, OperandsHere
  <2>2. /\ Keeps(machine, x) /\ Ready(x) /\ DOMAIN x = Fields /\ x.sp = machine.sp
        /\ x.framePointer = machine.framePointer
    BY OnwardReady DEF Onward
  <2> DEFINE b == a + 1
  <2>3. b \in Nat /\ x.framePointer + 4 <= x.sp - b /\ machine.sp - b + 1 = machine.sp + Growth(code)
    <3> HIDE DEF a, x, code
    <3> QED BY <1>5, <2>1, <2>2
  <2> HIDE DEF x, b
  <2>4. popped = popMultiplesOops(x, b)
    BY DEF b
  <2>5. Keeps(x, popped) /\ Ready(popped) /\ popped.sp = machine.sp - b /\ SameBut(x, popped, {"sp"})
    BY <2>2, <2>3, <2>4, PopKeeps, PopFields
  <2> HIDE DEF popped
  <2>6. DOMAIN popped = Fields /\ popped.pc = x.pc /\ popped.status = x.status
    BY <2>5 DEF SameBut, Fields
  <2>7. Known(popped, result.oop)
    BY <1>1 DEF Special, Known
  <2>8. Keeps(popped, p) /\ p.sp = popped.sp + 1 /\ SameBut(popped, p, {"stack", "sp"})
    BY <2>5, <2>6, <2>7, PushKeeps, PushFields
  <2> HIDE DEF p
  <2>9. p.pc = x.pc /\ p.status = x.status
    BY <2>6, <2>8 DEF SameBut, Fields
  <2>10. Keeps(machine, p)
    BY <2>2, <2>5, <2>8, KeepsTransitive
  <2>11. p.sp = machine.sp + Growth(CodeHere(machine))
    BY <2>3, <2>5, <2>8
  <2>12. CodeHere(machine).op \notin Leaving /\ CodeHere(machine).op \notin Jumps
    BY <1>4 DEF Leaving, Jumps
  <2> QED BY <1>4, <2>9, <2>10, <2>11, <2>12, OnwardSteps DEF x, Onward
<1>8. Steps(machine, Stop(machine, "crashed")) /\ Steps(machine, Stop(machine, "assertion"))
  BY <1>5, StopSteps
<1> HIDE DEF p, sent
<1> QED BY <1>3, <1>6, <1>7, <1>8 DEF Lands

\* A frame with bytecodes is that of no file.
LEMMA CompiledFrame ==
  ASSUME Verified, NEW m, NEW n, NEW F, NEW S, Going(m, n, F, S), m.pc # 0
  PROVE  n >= 2 /\ Serves(m, S[n])
<1>1. /\ IsCompiled(m, m.framePointer) /\ F[n] = m.framePointer /\ S[n] = Len(m.scripts)
      /\ Layout(m, n, F, S)
  BY GoingFacts, BytecodeFacts
<1>2. F[1] = 3 /\ ~IsCompiled(m, 3) /\ n \in Nat \ {0}
  BY <1>1 DEF Layout, FramesOK
<1>3. n # 1
  BY <1>1, <1>2
<1>4. Len(m.scripts) \in Nat
  BY <1>1, SequenceDomain DEF Layout, DataOK, ScriptsOK
<1> QED BY <1>1, <1>2, <1>3, <1>4 DEF Serves

\* A frame returns to its caller, or it stops.
LEMMA ReturnSteps ==
  ASSUME Verified, NEW m, NEW n, NEW F, NEW S, Going(m, n, F, S), m.pc # 0, NEW value, Known(m, value),
         NEW p, p = returnValue(m, value) \/ p = localReturnValue(m, value)
  PROVE  Steps(m, p)
<1>1. /\ Layout(m, n, F, S) /\ DOMAIN m = Fields /\ m.status = "running" /\ m.framePointer \in Nat
      /\ m.argumentCount \in Nat
  BY GoingFacts
<1>2. Untouched(m, p)
  <2> DEFINE at == (m.framePointer - 2 - (m.argumentCount + 1)) + 1
  <2>1. p.stack = m.stack \/ p.stack = [m.stack EXCEPT ![at] = value]
    <3>1. DOMAIN m = Fields
      BY <1>1
    <3>2. \A r : r = returnValue(m, value) \/ r = localReturnValue(m, value) =>
            r.stack = m.stack \/ r.stack = [m.stack EXCEPT ![(m.framePointer - 2 - (m.argumentCount + 1)) + 1] = value]
      BY <3>1, ReturnStack
    <3> QED BY <3>2
  <2>2. \A i \in 1..m.framePointer - 3 - m.argumentCount : i # at /\ i \in 1..MaxStack
    <3>1. MaxStack \in Nat /\ m.framePointer + 4 \in 1..MaxStack
      BY <1>1, FrameRead, StackAssumption
    <3> QED BY <1>1, <3>1
  <2>3. DOMAIN m.stack = 1..MaxStack
    BY <1>1 DEF Layout, DataOK, StackOK
  <2> HIDE DEF at
  <2> QED BY <2>1, <2>2, <2>3 DEF Untouched
<1>3. ASSUME p.status = "running" PROVE Settled(p)
  <2>1. p = localReturnValue(m, value)
    <3>1. Stop(m, "aborted").status # "running"
      BY <1>1, StopFields
    <3>2. returnValue(m, value) = Stop(m, "aborted") \/ returnValue(m, value) = localReturnValue(m, value)
      BY DEF returnValue
    <3> QED BY <1>3, <3>1, <3>2
  <2> QED BY <1>1, <1>3, <2>1, CompiledFrame, Returned
<1> QED BY <1>2, <1>3 DEF Steps

\* interpretReturn and interpretBlockReturn leave the frame, and the caller
\* goes on with one value.
LEMMA ReturnActions ==
  ASSUME Verified, NEW n, NEW F, NEW S, Going(machine, n, F, S), interpretReturn \/ interpretBlockReturn
  PROVE  Lands
<1> DEFINE receiver == currentReceiver(machine)
<1>1. Known(machine, Top) /\ Known(machine, receiver) /\ Known(machine, nil)
  BY OperandKnown, WordFields DEF Top, Known
<1>2. machine.pc # 0
  BY DEF interpretReturn, interpretBlockReturn, Interprets
<1>3. \/ machine' = Bounded(returnValue(machine, Top)) \/ machine' = Bounded(returnValue(machine, receiver))
      \/ machine' = Bounded(localReturnValue(machine, Top)) \/ machine' = Bounded(localReturnValue(machine, nil))
  BY DEF interpretReturn, interpretBlockReturn, Become
<1> HIDE DEF receiver
<1>4. Steps(machine, returnValue(machine, Top)) /\ Steps(machine, localReturnValue(machine, Top))
  BY <1>1, <1>2, ReturnSteps
<1>5. Steps(machine, returnValue(machine, receiver)) /\ Steps(machine, localReturnValue(machine, nil))
  BY <1>1, <1>2, ReturnSteps
<1> QED BY <1>3, <1>4, <1>5 DEF Lands

\* A method runs a primitive by its number and returns its answer, or goes on
\* with the error in its first temporary.
LEMMA CallPrimitiveAction ==
  ASSUME Verified, NEW n, NEW F, NEW S, Going(machine, n, F, S), interpretCallPrimitive, ~LeavesWords
  PROVE  Lands
<1> DEFINE code == CodeHere(machine)
           function == NumberedPrimitives[Instruction.a]
           x == Onward
           y == [x EXCEPT !.primitiveHasFailed = FALSE]
           done == ObjectNative(y, function)
           failed == primitiveFailed(y)
           error == encodeSmallInteger(-1)
           p == setTemporary(failed, failed.argumentCount, error)
<1>1. Interprets({"CallPrimitive"})
      /\ IF Instruction.a \in DOMAIN NumberedPrimitives THEN machine' = Bounded(callPrimitiveHere(function))
         ELSE machine' = Bounded(x)
  BY DEF interpretCallPrimitive, Become
<1>2. machine.pc # 0 /\ code.op = "CallPrimitive"
  BY <1>1, Interpreting
<1>3. code.op \notin Leaving /\ code.op \notin Jumps /\ Growth(code) = 0
  BY <1>2, GrowthOf DEF Leaving, Jumps
<1>4. /\ Layout(machine, n, F, S) /\ DOMAIN machine = Fields /\ machine.sp \in Nat /\ MaxStack \in Nat
      /\ machine.sp + 24 <= MaxStack /\ machine.status = "running" /\ n \in Nat /\ F \in [1..n -> Nat]
      /\ S \in [1..n -> Nat]
  BY GoingFacts
<1>5. /\ Keeps(machine, x) /\ Ready(x) /\ SameBut(machine, x, {"pc", "status"}) /\ DOMAIN x = Fields
      /\ x.sp = machine.sp /\ x.stack = machine.stack
      /\ x.pc = fetchNextInstructionOpcode(machine).pc /\ x.status = fetchNextInstructionOpcode(machine).status
  BY OnwardReady DEF Onward
<1>6. x.status = "running"
  <2>1. machine.method.tag = "compiled"
    BY <1>2, BytecodeFacts, MethodsAreCompiled
  <2>2. machine.pc + 1 # 0
    <3>1. machine.pc \in Nat
      BY <1>2, BytecodeFacts
    <3> QED BY <3>1
  <2> QED BY <1>4, <2>1, <2>2 DEF Onward, fetchNextInstructionOpcode, FetchAt, Fields
<1> HIDE DEF x
<1>7. Steps(machine, x)
  <2>1. x.sp = machine.sp + Growth(code)
    BY <1>3, <1>4, <1>5
  <2> QED BY <1>2, <1>3, <1>5, <2>1, OnwardSteps
<1>8. SameBut(x, y, Registers) /\ y.pc = x.pc /\ y.status = x.status /\ y.primitiveHasFailed = FALSE
  BY <1>5 DEF SameBut, Fields, Registers
<1> HIDE DEF y
<1>9. Keeps(x, y) /\ Ready(y) /\ y.sp = x.sp /\ y.stack = x.stack
  BY <1>5, <1>8, KeepsRegisters
<1>10. Keeps(machine, y) /\ DOMAIN y = Fields
  BY <1>5, <1>8, <1>9, KeepsTransitive DEF SameBut
<1>11. Works(y)
  <2>1. Layout(y, n, F, S)
    BY <1>4, <1>10, LayoutKept
  <2>2. n >= 2 /\ Serves(machine, S[n])
    BY <1>2, CompiledFrame
  <2>3. Serves(y, S[n])
    <3>1. y.scripts = machine.scripts /\ y.framePointer = machine.framePointer
      BY <1>10 DEF Keeps
    <3> QED BY <1>5, <1>9, <2>2, <3>1 DEF Serves, IsCompiled, MethodAt
  <2>4. y.sp + 10 <= MaxStack
    BY <1>4, <1>5, <1>9
  <2> QED BY <1>4, <1>6, <1>8, <2>1, <2>2, <2>3, <2>4 DEF Works, WorksIn
<1>12. Steps(machine, p)
  <2>1. SameBut(y, failed, {"primitiveHasFailed"})
    BY <1>10, FailureFields
  <2> HIDE DEF failed
  <2>2. SameBut(y, failed, Registers) /\ failed.pc = y.pc /\ failed.status = y.status
    BY <2>1 DEF SameBut, Fields, Registers
  <2>3. Keeps(y, failed) /\ Ready(failed) /\ failed.sp = y.sp /\ DOMAIN failed = Fields
    BY <1>9, <2>2, KeepsRegisters DEF SameBut
  <2>4. Known(failed, error) /\ failed.argumentCount \in Nat
    <3>1. failed.argumentCount \in 0..255 /\ \A i \in 0..255 : i \in Nat
      BY <2>3 DEF Ready
    <3>2. Known(failed, error)
      BY WordFields DEF Known
    <3> QED BY <3>1, <3>2
  <2> HIDE DEF error
  <2>5. Keeps(failed, p) /\ p.sp = failed.sp /\ SameBut(failed, p, {"stack"})
    BY <2>3, <2>4, SetTemporaryKeeps, SetTemporaryFields
  <2> HIDE DEF p
  <2>6. p.pc = x.pc /\ p.status = x.status
    BY <1>8, <2>2, <2>5 DEF SameBut, Fields
  <2>7. Keeps(machine, p)
    BY <1>10, <2>3, <2>5, KeepsTransitive
  <2>8. p.sp = machine.sp + Growth(code)
    BY <1>3, <1>4, <1>5, <1>9, <2>3, <2>5
  <2> QED BY <1>2, <1>3, <1>5, <2>6, <2>7, <2>8, OnwardSteps
<1>13. ASSUME Instruction.a \in DOMAIN NumberedPrimitives PROVE Steps(machine, callPrimitiveHere(function))
  <2>1. function \notin {"Object::stAt", "Object::stAtPut"}
    BY <1>1, <1>13 DEF LeavesWords
  <2>2. Ends(y, done)
    BY <1>11, <2>1, ObjectNativeEnds
  <2>3. callPrimitiveHere(function)
          = IF done.primitiveHasFailed THEN setTemporary(done, done.argumentCount, error) ELSE done
    BY Zenon DEF callPrimitiveHere, y, x
  <2> HIDE DEF done, function
  <2>4. CASE done.primitiveHasFailed
    <3>1. done = failed
      BY <2>2, <2>4 DEF Ends
    <3>2. callPrimitiveHere(function) = p
      BY <2>3, <2>4, <3>1
    <3> QED BY <1>12, <3>2
  <2>5. CASE ~done.primitiveHasFailed
    <3>1. callPrimitiveHere(function) = done
      BY <2>3, <2>5
    <3>2. Leaves(y, done) /\ (done.status = "running" => Settled(done))
      <4>1. failed.primitiveHasFailed
        BY <1>10, FailureFields
      <4> QED BY <2>2, <2>5, <4>1 DEF Ends, Answers
    <3>3. Untouched(machine, done)
      <4>1. machine.argumentCount = ArgumentsIn(MetaAt(machine, machine.framePointer))
        BY <1>4, FrameRead
      <4>2. y.framePointer = machine.framePointer /\ y.stack = machine.stack
        BY <1>5, <1>9, <1>10 DEF Keeps
      <4>3. Base(y, y.framePointer) = machine.framePointer - 3 - machine.argumentCount
        BY <4>1, <4>2 DEF Base, MetaAt
      <4> QED BY <3>2, <4>2, <4>3 DEF Leaves, Untouched
    <3> QED BY <3>1, <3>2, <3>3 DEF Steps
  <2> QED BY <2>4, <2>5
<1> HIDE DEF function
<1> QED BY <1>1, <1>7, <1>13 DEF Lands

\* Every bytecode leaves the machine in a frame that is as it should be.
LEMMA BytecodeLands ==
  ASSUME Verified, NEW n, NEW F, NEW S, Going(machine, n, F, S), ~LeavesWords, Bytecode
  PROVE  Lands
<1>1. CASE \/ interpretPushConstant \/ interpretPushLiteral \/ interpretPushReceiver \/ interpretPushLiteralVariable
           \/ interpretPushReceiverVariable \/ interpretPushTemporary \/ interpretDuplicateStackTop
  BY <1>1, PushActions
<1>2. CASE \/ interpretPushNTemps \/ interpretPushArrayWithElements
  BY <1>2, AllocatingPushes
<1>3. CASE \/ interpretStoreLiteralVariable \/ interpretStoreReceiverVariable
           \/ interpretStoreTemporalVariable \/ interpretPopStoreTemporalVariable
  BY <1>3, StoreActions
<1>4. CASE \/ interpretPushTemporaryInVector \/ interpretStoreTemporalInVector
           \/ interpretPopStoreTemporalInVector
  BY <1>4, VectorActions
<1>5. CASE interpretPopStackTop \/ interpretJump \/ interpretConditionalJump
  BY <1>5, JumpActions
<1>6. CASE interpretPushThisContext
  BY <1>6, ThisContextAction
<1>7. CASE interpretPushClosure
  BY <1>7, ClosureAction
<1>8. CASE interpretSend
  BY <1>8, SendAction
<1>9. CASE interpretSpecialMessage
  BY <1>9, SpecialMessageAction
<1>10. CASE interpretReturn \/ interpretBlockReturn
  BY <1>10, ReturnActions
<1>11. CASE interpretCallPrimitive
  BY <1>11, CallPrimitiveAction
<1>12. CASE sendNativeMethodFailed
  BY <1>12 DEF sendNativeMethodFailed, LeavesWords
<1> QED BY <1>1, <1>2, <1>3, <1>4, <1>5, <1>6, <1>7, <1>8, <1>9, <1>10, <1>11, <1>12 DEF Bytecode

(***************************************************************************)
(* The operations of scripts.                                              *)
(***************************************************************************)
\* The growth of each operation of a script.
LEMMA OpGrowthOf ==
  /\ \A op : op.op = "pop" => OpGrowth(op) = -1
  /\ \A op : op.op = "send" => OpGrowth(op) = -op.count
  /\ \A op : op.op \notin {"pop", "send"} => OpGrowth(op) = 1
BY DEF OpGrowth

\* A verified script has no fewer than no words on the stack.
LEMMA ScriptDepthsAreNatural ==
  ASSUME NEW ops, VerifiedScript(ops)
  PROVE  \A ip \in 1..Len(ops) + 1 : ScriptDepths(ops)[ip] \in Nat
<1>1. Len(ops) \in Nat /\ \A ip \in 1..Len(ops) : VerifiedOp(ops[ip], ScriptDepths(ops)[ip])
  BY DEF VerifiedScript
<1>2. /\ ScriptDepths(ops)[1] = 0
      /\ \A ip \in 1..Len(ops) : ScriptDepths(ops)[ip + 1] = ScriptDepths(ops)[ip] + OpGrowth(ops[ip])
  BY <1>1, ScriptDepthStep
<1> DEFINE Q == {n \in Nat : n + 1 \in 1..Len(ops) + 1 => ScriptDepths(ops)[n + 1] \in Nat}
<1>3. 0 \in Q
  BY <1>2
<1>4. ASSUME NEW n \in Q PROVE n + 1 \in Q
  <2> SUFFICES ASSUME (n + 1) + 1 \in 1..Len(ops) + 1 PROVE ScriptDepths(ops)[(n + 1) + 1] \in Nat
    OBVIOUS
  <2> DEFINE ip == n + 1
             op == ops[ip]
             d == ScriptDepths(ops)[ip]
  <2>1. ip \in 1..Len(ops) /\ d \in Nat
    BY <1>1
  <2>2. VerifiedOp(op, d) /\ ScriptDepths(ops)[ip + 1] = d + OpGrowth(op)
    BY <1>1, <1>2, <2>1
  <2> HIDE DEF op, d, ip
  <2>3. d + OpGrowth(op) \in Nat
    <3>1. CASE op.op = "pop"
      BY <2>1, <2>2, <3>1, OpGrowthOf DEF VerifiedOp
    <3>2. CASE op.op = "send"
      <4>1. d > op.count /\ op.count \in 0..255
        BY <2>2, <3>2 DEF VerifiedOp, Takes
      <4> DEFINE count == op.count
      <4>2. OpGrowth(op) = -count
        BY <3>2, OpGrowthOf
      <4>3. d > count /\ count \in 0..255
        BY <4>1
      <4> HIDE DEF count
      <4>4. d + (-count) \in Nat
        BY <2>1, <4>3
      <4> QED BY <4>2, <4>4
    <3>3. CASE op.op \notin {"pop", "send"}
      <4>1. OpGrowth(op) = 1
        BY <3>3, OpGrowthOf
      <4> QED BY <2>1, <4>1
    <3> QED BY <3>1, <3>2, <3>3
  <2> QED BY <2>2, <2>3 DEF ip
<1>5. Q = Nat
  <2> HIDE DEF Q
  <2>1. Q \in SUBSET Nat
    BY DEF Q
  <2> QED BY <1>3, <1>4, <2>1, SetInduction
<1> QED
  <2> TAKE ip \in 1..Len(ops) + 1
  <2>1. ip - 1 \in Nat /\ (ip - 1) + 1 = ip
    BY <1>1
  <2>2. ip - 1 \in Q
    BY <1>5, <2>1
  <2> QED BY <1>1, <2>1, <2>2

\* A machine that begins a step of the last script: S[n] is that script and the
\* frame is its own.
LEMMA ScriptFacts ==
  ASSUME NEW m, NEW n, NEW F, NEW S, Going(m, n, F, S), m.pc = 0
  PROVE  /\ ~IsCompiled(m, m.framePointer) /\ S[n] = Len(m.scripts) /\ Len(m.scripts) \in Nat \ {0}
         /\ IsSequence(m.scripts) /\ DOMAIN m.scripts = 1..Len(m.scripts)
         /\ Last(m.scripts) = m.scripts[Len(m.scripts)] /\ ScriptOK(m, m.scripts[Len(m.scripts)])
         /\ ScriptDepth(m.scripts[Len(m.scripts)]) \in Nat
         /\ m.sp = m.framePointer + 4 + ScriptOperands(m, m.framePointer, Len(m.scripts))
         /\ \A k \in 1..n - 1 : S[k] \in Nat /\ S[k] < Len(m.scripts) /\ S[k] >= 1
<1>1. /\ Layout(m, n, F, S) /\ n \in Nat /\ S \in [1..n -> Nat] /\ F[n] = m.framePointer /\ n \in 1..n
      /\ S[n] = Len(m.scripts)
  BY GoingFacts
<1>2. ~IsCompiled(m, m.framePointer)
      /\ m.sp = m.framePointer + ReceiverOffset + ScriptOperands(m, m.framePointer, S[n])
  BY DEF Going, Balanced
<1>3. FramesOK(m, n, F, S) /\ IsSequence(m.scripts) /\ \A s \in DOMAIN m.scripts : ScriptOK(m, m.scripts[s])
  BY <1>1 DEF Layout, DataOK, ScriptsOK
<1>4. Len(m.scripts) \in Nat /\ DOMAIN m.scripts = 1..Len(m.scripts)
  BY <1>3, SequenceDomain
<1>5. \A k \in 1..n : S[k] >= 1
  <2>1. S[1] = 1 /\ n \in Nat \ {0}
    BY <1>3 DEF FramesOK
  <2>2. \A k \in 1..n : \A j \in 1..k - 1 : S[j] <= S[k]
    BY <1>3 DEF FramesOK
  <2> TAKE k \in 1..n
  <2>3. CASE k = 1
    BY <2>1, <2>3
  <2>4. CASE k # 1
    <3>1. 1 \in 1..k - 1
      BY <2>1, <2>4
    <3> QED BY <2>1, <2>2, <3>1
  <2> QED BY <2>3, <2>4
<1>6. \A k \in 1..n - 1 : S[k] < S[n]
  <2>1. \A j \in 1..n - 1 : ~IsCompiled(m, F[n]) => S[j] < S[n]
    BY <1>1, <1>3 DEF FramesOK
  <2> QED BY <1>1, <1>2, <2>1
<1>7. Len(m.scripts) \in Nat \ {0}
  BY <1>1, <1>4, <1>5
<1>8. Len(m.scripts) \in DOMAIN m.scripts
  BY <1>4, <1>7
<1>9. ScriptOK(m, m.scripts[Len(m.scripts)])
  BY <1>3, <1>8
<1>10. ScriptDepth(m.scripts[Len(m.scripts)]) \in Nat
  <2> DEFINE script == m.scripts[Len(m.scripts)]
  <2>1. VerifiedScript(script.ops) /\ script.ip \in 1..Len(script.ops) + 1
    BY <1>9 DEF ScriptOK
  <2> HIDE DEF script
  <2>2. ScriptDepth(script) \in Nat
    BY <2>1, ScriptDepthsAreNatural DEF ScriptDepth
  <2> QED BY <2>2 DEF script
<1>11. Last(m.scripts) = m.scripts[Len(m.scripts)]
  BY DEF Last
<1>12. \A k \in 1..n - 1 : S[k] \in Nat /\ S[k] < Len(m.scripts) /\ S[k] >= 1
  BY <1>1, <1>5, <1>6
<1> QED BY <1>1, <1>2, <1>3, <1>4, <1>7, <1>9, <1>10, <1>11, <1>12 DEF ReceiverOffset

\* The script that runs, the operation it is at, and the machine that has read it.
ScriptHere(m) == m.scripts[Len(m.scripts)]
OpHere(m)     == ScriptHere(m).ops[ScriptHere(m).ip]
VisitedBy(m)  == [m EXCEPT !.scripts[Len(m.scripts)].ip = @ + 1]
Visiting(m)   == m.pc = 0 /\ ScriptHere(m).ip \in DOMAIN ScriptHere(m).ops

\* The operation is verified for the operands of the script, and those in front of
\* the next one follow from it.
LEMMA OpIsVerified ==
  ASSUME NEW m, NEW n, NEW F, NEW S, Going(m, n, F, S), Visiting(m)
  PROVE  /\ ScriptDepth(ScriptHere(m)) \in Nat /\ VerifiedOp(OpHere(m), ScriptDepth(ScriptHere(m)))
         /\ ScriptHere(m).ip + 1 \in 1..Len(ScriptHere(m).ops) + 1
         /\ ScriptDepths(ScriptHere(m).ops)[ScriptHere(m).ip + 1] = ScriptDepth(ScriptHere(m)) + OpGrowth(OpHere(m))
<1> DEFINE script == ScriptHere(m)
<1>1. m.pc = 0 /\ script.ip \in DOMAIN script.ops
  BY DEF Visiting
<1>2. ScriptOK(m, script) /\ ScriptDepth(script) \in Nat
  BY <1>1, ScriptFacts DEF ScriptHere
<1> HIDE DEF script
<1>3. VerifiedScript(script.ops)
  BY <1>2 DEF ScriptOK
<1>4. Len(script.ops) \in Nat /\ DOMAIN script.ops = 1..Len(script.ops)
      /\ VerifiedOp(script.ops[script.ip], ScriptDepths(script.ops)[script.ip])
  BY <1>1, <1>3 DEF VerifiedScript
<1>5. script.ip \in 1..Len(script.ops)
  BY <1>1, <1>4
<1>6. ScriptDepths(script.ops)[script.ip + 1]
        = ScriptDepths(script.ops)[script.ip] + OpGrowth(script.ops[script.ip])
  BY <1>4, <1>5, ScriptDepthStep
<1>7. script.ip + 1 \in 1..Len(script.ops) + 1
  BY <1>4, <1>5
<1> QED BY <1>2, <1>4, <1>6, <1>7 DEF script, OpHere, ScriptDepth

\* A script that has read its operation is at the next one.
LEMMA VisitReady ==
  ASSUME NEW m, NEW n, NEW F, NEW S, Going(m, n, F, S), Visiting(m)
  PROVE  LET v == VisitedBy(m) IN
         /\ SameBut(m, v, {"scripts"}) /\ Layout(v, n, F, S) /\ Ready(v) /\ Len(v.scripts) = Len(m.scripts)
         /\ Len(m.scripts) \in DOMAIN v.scripts
         /\ ScriptDepth(ScriptHere(v)) = ScriptDepth(ScriptHere(m)) + OpGrowth(OpHere(m))
<1> DEFINE v == VisitedBy(m)
           last == Len(m.scripts)
           script == ScriptHere(m)
           next == [script EXCEPT !.ip = @ + 1]
<1>1. /\ Layout(m, n, F, S) /\ DOMAIN m = Fields /\ n \in Nat /\ IsSequence(m.scripts)
      /\ DOMAIN m.scripts = 1..last /\ last \in Nat \ {0} /\ ScriptOK(m, script)
      /\ \A k \in 1..n - 1 : S[k] \in Nat /\ S[k] < last
  BY GoingFacts, ScriptFacts DEF Visiting, ScriptHere
<1>2. SameBut(m, v, {"scripts"}) /\ v.scripts = [m.scripts EXCEPT ![last] = next]
  BY <1>1 DEF SameBut, Fields, VisitedBy, ScriptHere
<1>3. next.ops = script.ops /\ next.ip = script.ip + 1 /\ next.self = script.self
      /\ DOMAIN next = {"ops", "ip", "self"}
  BY <1>1 DEF ScriptOK
<1> HIDE DEF v, next
<1>4. last \in 1..last
  BY <1>1
<1>5. /\ IsSequence(v.scripts) /\ Len(v.scripts) = last
      /\ \A s \in 1..last : v.scripts[s] = IF s = last THEN next ELSE m.scripts[s]
  <2>1. /\ IsSequence([m.scripts EXCEPT ![last] = next]) /\ Len([m.scripts EXCEPT ![last] = next]) = last
        /\ \A s \in 1..last : [m.scripts EXCEPT ![last] = next][s] = IF s = last THEN next ELSE m.scripts[s]
    BY <1>1, <1>4, SequenceExcept
  <2> HIDE DEF last
  <2> QED BY <1>2, <2>1
<1>6. v.scripts[last] = next /\ DOMAIN v.scripts = 1..last
  BY <1>4, <1>5, SequenceDomain
<1>7. \A word : Known(m, word) => Known(v, word)
  <2>1. v.heap = m.heap
    BY <1>2 DEF SameBut, Fields
  <2> QED BY <2>1 DEF Known
<1>8. next.ip \in 1..Len(next.ops) + 1 /\ ScriptDepth(next) = ScriptDepth(script) + OpGrowth(OpHere(m))
  BY <1>3, OpIsVerified DEF ScriptDepth
<1> HIDE DEF script, last
<1>9. ScriptOK(v, next)
  BY <1>1, <1>3, <1>7, <1>8 DEF ScriptOK
<1>10. ScriptsOK(v)
  <2>1. \A s \in 1..last : ScriptOK(m, m.scripts[s])
    BY <1>1 DEF Layout, DataOK, ScriptsOK
  <2>2. \A s \in 1..last : ScriptOK(v, m.scripts[s])
    BY <1>7, <2>1 DEF ScriptOK
  <2>3. \A s \in 1..last : v.scripts[s] = next \/ v.scripts[s] = m.scripts[s]
    BY <1>5
  <2> QED BY <1>5, <1>6, <1>9, <2>2, <2>3 DEF ScriptsOK
<1>11. Layout(v, n, F, S)
  <2>1. \A k \in 1..n - 1 : S[k] \in 1..last => v.scripts[S[k]] = m.scripts[S[k]]
    <3>1. \A k \in 1..n - 1 : S[k] # last
      BY <1>1
    <3> QED BY <1>5, <3>1
  <2>2. \A k \in 1..n - 1 : S[k] \in DOMAIN m.scripts /\ ~IsCompiled(m, F[k])
                            => S[k] \in DOMAIN v.scripts /\ v.scripts[S[k]] = m.scripts[S[k]]
    BY <1>1, <1>6, <2>1
  <2> QED BY <1>1, <1>2, <1>10, <2>2, ScriptsKept
<1>12. Ready(v)
  BY <1>11, LayoutReady
<1>13. ScriptHere(v) = next
  BY <1>5, <1>6 DEF ScriptHere
<1> QED BY <1>2, <1>4, <1>5, <1>6, <1>8, <1>11, <1>12, <1>13 DEF v, last, script

\* The next operation finds its operands.
LEMMA VisitSteps ==
  ASSUME NEW m, NEW n, NEW F, NEW S, Going(m, n, F, S), Visiting(m), NEW p, Keeps(VisitedBy(m), p),
         p.pc = 0, p.sp = m.sp + OpGrowth(OpHere(m))
  PROVE  Steps(m, p)
<1> DEFINE v == VisitedBy(m)
           d == ScriptDepth(ScriptHere(m))
           below == IF m.framePointer = 3 THEN 0 ELSE 1
<1>1. /\ SameBut(m, v, {"scripts"}) /\ Layout(v, n, F, S) /\ Len(v.scripts) = Len(m.scripts)
      /\ ScriptDepth(ScriptHere(v)) = d + OpGrowth(OpHere(m))
  BY VisitReady
<1> HIDE DEF v
<1>2. v.stack = m.stack /\ v.framePointer = m.framePointer /\ v.argumentCount = m.argumentCount
  BY <1>1 DEF SameBut, Fields
<1>3. Layout(p, n, F, S) /\ Untouched(v, p) /\ p.scripts = v.scripts /\ p.framePointer = v.framePointer
  BY <1>1, LayoutKept, KeepsUntouched DEF v, Keeps
<1>4. Untouched(m, p)
  BY <1>2, <1>3 DEF Untouched
<1>5. ~IsCompiled(p, p.framePointer)
  <2>1. ~IsCompiled(m, m.framePointer)
    BY ScriptFacts DEF Visiting
  <2>2. SameFrame(v, p, F[n]) /\ F[n] = m.framePointer
    <3>1. n \in 1..n /\ F[n] = m.framePointer
      BY GoingFacts
    <3>2. Keeps(v, p)
      BY DEF v
    <3> QED BY <1>1, <3>1, <3>2, KeepsFrames
  <2> QED BY <1>2, <1>3, <2>1, <2>2 DEF IsCompiled, MethodAt, SameFrame
<1>6. /\ m.sp = m.framePointer + 4 + (below + d) /\ S[n] = Len(m.scripts) /\ m.framePointer \in Nat
      /\ d \in Nat /\ n \in Nat /\ F \in [1..n -> Nat] /\ S \in [1..n -> Nat]
  BY GoingFacts, ScriptFacts DEF Visiting, ScriptOperands, ScriptHere
<1>7. ScriptOperands(p, p.framePointer, S[n]) = below + (d + OpGrowth(OpHere(m)))
  <2>1. p.scripts[S[n]] = ScriptHere(v)
    BY <1>1, <1>3, <1>6 DEF ScriptHere
  <2>2. ScriptDepth(p.scripts[S[n]]) = d + OpGrowth(OpHere(m))
    BY <1>1, <2>1
  <2>3. p.framePointer = m.framePointer
    BY <1>2, <1>3
  <2> HIDE DEF d
  <2> QED BY <2>2, <2>3 DEF ScriptOperands
<1>8. OpGrowth(OpHere(m)) \in Int
  <2>1. VerifiedOp(OpHere(m), d)
    BY OpIsVerified
  <2>2. OpHere(m).op = "send" => OpHere(m).count \in 0..255
    BY <2>1 DEF VerifiedOp, Takes
  <2>3. \A count \in 0..255 : -count \in Int
    OBVIOUS
  <2> QED BY <2>2, <2>3, OpGrowthOf
<1>9. p.sp = p.framePointer + ReceiverOffset + ScriptOperands(p, p.framePointer, S[n])
  <2> DEFINE growth == OpGrowth(OpHere(m))
  <2>1. below \in Nat
    OBVIOUS
  <2> HIDE DEF below, d, growth
  <2>2. m.sp + growth = m.framePointer + 4 + (below + (d + growth))
    BY <1>6, <1>8, <2>1 DEF growth
  <2> QED BY <1>2, <1>3, <1>7, <2>2 DEF ReceiverOffset, growth
<1>10. Balanced(p, S[n])
  BY <1>1, <1>3, <1>5, <1>6, <1>9 DEF Balanced
<1>11. Settled(p)
  BY <1>3, <1>6, <1>10 DEF Settled
<1> QED BY <1>4, <1>11 DEF Steps

\* What an action of a script begins with.
LEMMA VisitsHere ==
  ASSUME NEW n, NEW F, NEW S, Going(machine, n, F, S), NEW op, Visits(op)
  PROVE  /\ Visiting(machine) /\ machine.pc = 0 /\ OpHere(machine).op = op /\ Argument = OpHere(machine)
         /\ CurrentScript = ScriptHere(machine) /\ Visited = VisitedBy(machine)
<1>1. machine.pc = 0
  BY DEF Visits, InScript
<1>2. CurrentScript = ScriptHere(machine)
  BY <1>1, ScriptFacts DEF CurrentScript, ScriptHere
<1>3. CurrentScript.ip \in DOMAIN CurrentScript.ops /\ CurrentScript.ops[CurrentScript.ip].op = op
  BY DEF Visits
<1> QED BY <1>1, <1>2, <1>3, Zenon DEF Visiting, OpHere, Argument, Visited, VisitedBy

\* What such a machine has kept.
LEMMA VisitedFields ==
  ASSUME NEW m, NEW n, NEW F, NEW S, Going(m, n, F, S), Visiting(m)
  PROVE  LET v == VisitedBy(m) IN
         /\ Ready(v) /\ DOMAIN v = Fields /\ v.sp = m.sp /\ v.heap = m.heap /\ v.stack = m.stack
         /\ v.pc = 0 /\ v.framePointer = m.framePointer /\ v.globals = m.globals
         /\ \A oop : Known(v, oop) = Known(m, oop)
<1> DEFINE v == VisitedBy(m)
<1>1. SameBut(m, v, {"scripts"}) /\ Ready(v) /\ m.pc = 0
  BY VisitReady DEF Visiting
<1> HIDE DEF v
<1>2. /\ DOMAIN v = Fields /\ v.sp = m.sp /\ v.heap = m.heap /\ v.stack = m.stack /\ v.pc = m.pc
      /\ v.framePointer = m.framePointer /\ v.globals = m.globals
  BY <1>1 DEF SameBut, Fields
<1> QED BY <1>1, <1>2 DEF v, Known

\* An operation that pushes one word.
LEMMA VisitPushes ==
  ASSUME NEW m, NEW n, NEW F, NEW S, Going(m, n, F, S), Visiting(m), OpHere(m).op \notin {"pop", "send"},
         NEW oop, Known(m, oop)
  PROVE  Steps(m, Push(VisitedBy(m), oop))
<1> DEFINE v == VisitedBy(m)
           p == Push(v, oop)
<1>1. Ready(v) /\ DOMAIN v = Fields /\ v.sp = m.sp /\ v.pc = 0 /\ Known(v, oop)
  BY VisitedFields
<1> HIDE DEF v
<1>2. Keeps(v, p) /\ p.sp = v.sp + 1 /\ SameBut(v, p, {"stack", "sp"})
  BY <1>1, PushKeeps, PushFields
<1> HIDE DEF p
<1>3. p.pc = 0
  BY <1>1, <1>2 DEF SameBut, Fields
<1>4. p.sp = m.sp + OpGrowth(OpHere(m))
  BY <1>1, <1>2, OpGrowthOf
<1> QED BY <1>2, <1>3, <1>4, VisitSteps DEF v, p

\* The operations of the visitor, one after the other.
LEMMA VisitPushActions ==
  ASSUME NEW n, NEW F, NEW S, Going(machine, n, F, S),
         \/ visitLiteralNode \/ visitSelfReference \/ visitIdentifierExpression \/ visitCascade
         \/ visitUnimplemented
  PROVE  Lands
<1> DEFINE m == machine
<1>1. DOMAIN m = Fields /\ Steps(m, Stop(m, "aborted"))
  BY GoingFacts, StopSteps
<1>2. \A op, oop : Visits(op) /\ op \notin {"pop", "send"} /\ Known(m, oop) => Steps(m, Push(Visited, oop))
  BY VisitsHere, VisitPushes
<1>3. CASE visitLiteralNode
  <2>1. Visits("push") /\ machine' = Bounded(Push(Visited, Argument.oop))
    BY <1>3 DEF visitLiteralNode, Become
  <2>2. Known(m, Argument.oop)
    <3>1. VerifiedOp(OpHere(m), ScriptDepth(ScriptHere(m))) /\ OpHere(m).op = "push" /\ Argument = OpHere(m)
      BY <2>1, VisitsHere, OpIsVerified
    <3> QED BY <3>1 DEF VerifiedOp, Known
  <2>3. Steps(m, Push(Visited, Argument.oop))
    BY <1>2, <2>1, <2>2
  <2> QED BY <2>1, <2>3 DEF Lands
<1>4. CASE visitSelfReference
  <2>1. Visits("pushSelf") /\ machine' = Bounded(Push(Visited, CurrentScript.self))
    BY <1>4 DEF visitSelfReference, Become
  <2>2. Known(m, CurrentScript.self)
    <3>1. CurrentScript = ScriptHere(m) /\ m.pc = 0
      BY <2>1, VisitsHere
    <3> QED BY <3>1, ScriptFacts DEF ScriptOK, ScriptHere
  <2>3. Steps(m, Push(Visited, CurrentScript.self))
    BY <1>2, <2>1, <2>2
  <2> QED BY <2>1, <2>3 DEF Lands
<1>5. CASE visitIdentifierExpression
  <2> DEFINE name == Argument.oop.name
  <2>1. /\ Visits("pushVariable")
        /\ \/ name \in GlobalNames /\ machine' = Bounded(Push(Visited, machine.globals[name]))
           \/ machine' = Bounded(Stop(machine, "aborted"))
    BY <1>5 DEF visitIdentifierExpression, Become
  <2>2. name \in GlobalNames => Known(m, machine.globals[name])
    BY GoingFacts DEF Ready, DataOK, GlobalsOK
  <2> HIDE DEF name
  <2>3. name \in GlobalNames => Steps(m, Push(Visited, machine.globals[name]))
    BY <1>2, <2>1, <2>2
  <2> QED BY <1>1, <2>1, <2>3 DEF Lands
<1>6. CASE visitCascade
  <2>1. Visits("duplicate") /\ machine' = Bounded(Push(Visited, Top))
    BY <1>6 DEF visitCascade, Become
  <2>2. Known(m, Top)
    BY OperandKnown DEF Top
  <2>3. Steps(m, Push(Visited, Top))
    BY <1>2, <2>1, <2>2
  <2> QED BY <2>1, <2>3 DEF Lands
<1>7. CASE visitUnimplemented
  <2>1. machine' = Bounded(Stop(machine, "aborted"))
    BY <1>7 DEF visitUnimplemented, Become
  <2> QED BY <1>1, <2>1 DEF Lands
<1> QED BY <1>3, <1>4, <1>5, <1>6, <1>7

\* visitStatementEnd pops the value of a statement.
LEMMA VisitPopAction ==
  ASSUME NEW n, NEW F, NEW S, Going(machine, n, F, S), visitStatementEnd
  PROVE  Lands
<1> DEFINE m == machine
           v == VisitedBy(m)
           p == popMultiplesOops(v, 1)
<1>1. Visits("pop") /\ machine' = Bounded(PopOop(Visited))
  BY DEF visitStatementEnd, Become
<1>2. Visiting(m) /\ OpHere(m).op = "pop" /\ Visited = v /\ m.pc = 0
  BY <1>1, VisitsHere
<1>3. /\ Ready(v) /\ DOMAIN v = Fields /\ v.sp = m.sp /\ v.pc = 0 /\ v.framePointer = m.framePointer
  BY <1>2, VisitedFields
<1>4. machine' = Bounded(p)
  BY <1>1, <1>2 DEF PopOop
<1>5. v.framePointer + 4 <= v.sp - 1
  <2> DEFINE d == ScriptDepth(ScriptHere(m))
             below == IF m.framePointer = 3 THEN 0 ELSE 1
  <2>1. VerifiedOp(OpHere(m), d) /\ d \in Nat
    BY <1>2, OpIsVerified
  <2>2. d >= 1
    BY <1>2, <2>1 DEF VerifiedOp
  <2>3. m.sp = m.framePointer + 4 + (below + d) /\ m.framePointer \in Nat
    BY <1>2, GoingFacts, ScriptFacts DEF ScriptOperands, ScriptHere
  <2>4. below \in Nat
    OBVIOUS
  <2> HIDE DEF v, d, below
  <2> QED BY <1>3, <2>1, <2>2, <2>3, <2>4
<1> HIDE DEF v
<1>6. Keeps(v, p) /\ p.sp = m.sp - 1 /\ SameBut(v, p, {"sp"})
  BY <1>3, <1>5, PopKeeps, PopFields
<1> HIDE DEF p
<1>7. p.pc = 0
  BY <1>3, <1>6 DEF SameBut, Fields
<1>8. p.sp = m.sp + OpGrowth(OpHere(m))
  <2>1. OpGrowth(OpHere(m)) = -1 /\ m.sp \in Nat
    BY <1>2, OpGrowthOf, GoingFacts
  <2> QED BY <1>6, <2>1
<1>9. Steps(m, p)
  BY <1>2, <1>6, <1>7, <1>8, VisitSteps DEF v
<1> QED BY <1>4, <1>9 DEF Lands

\* visitMessageSendNode sends a message from the frame of the script.
LEMMA VisitSendAction ==
  ASSUME Verified, NEW n, NEW F, NEW S, Going(machine, n, F, S), visitMessageSendNode
  PROVE  Lands
<1> DEFINE m == machine
           v == VisitedBy(m)
           selector == Argument.oop.name
           args == Argument.count
           p == sendSelectorArgumentCount(v, selector, args)
           d == ScriptDepth(ScriptHere(m))
           below == IF m.framePointer = 3 THEN 0 ELSE 1
<1>1. Visits("send") /\ machine' = Bounded(sendSelectorArgumentCount(Visited, selector, args))
  BY DEF visitMessageSendNode, Become
<1>2. Visiting(m) /\ OpHere(m).op = "send" /\ Visited = v /\ m.pc = 0 /\ Argument = OpHere(m)
  BY <1>1, VisitsHere
<1>3. /\ Ready(v) /\ DOMAIN v = Fields /\ v.sp = m.sp /\ v.pc = 0 /\ v.framePointer = m.framePointer
      /\ v.stack = m.stack
  BY <1>2, VisitedFields
<1>4. /\ Layout(v, n, F, S) /\ Len(v.scripts) = Len(m.scripts) /\ Len(m.scripts) \in DOMAIN v.scripts
      /\ ScriptDepth(ScriptHere(v)) = d + OpGrowth(OpHere(m)) /\ SameBut(m, v, {"scripts"})
  BY <1>2, VisitReady
<1> HIDE DEF v
<1>5. machine' = Bounded(p)
  BY <1>1, <1>2
<1> HIDE DEF p
<1>6. d > args /\ args \in 0..255 /\ Takes(selector, args) /\ d \in Nat
  <2>1. VerifiedOp(OpHere(m), d) /\ d \in Nat
    BY <1>2, OpIsVerified
  <2> HIDE DEF d
  <2>2. d > args /\ Takes(selector, args)
    BY <1>2, <2>1 DEF VerifiedOp
  <2> QED BY <2>1, <2>2 DEF Takes
<1>7. OpGrowth(OpHere(m)) = -args
  BY <1>2, OpGrowthOf
<1>8. /\ m.sp = m.framePointer + 4 + (below + d) /\ m.framePointer \in Nat /\ m.sp \in Nat
      /\ S[n] = Len(m.scripts) /\ m.sp + 24 <= MaxStack /\ MaxStack \in Nat
      /\ n \in Nat /\ F \in [1..n -> Nat] /\ S \in [1..n -> Nat] /\ ~IsCompiled(m, m.framePointer)
      /\ m.status = "running"
  BY <1>2, GoingFacts, ScriptFacts DEF ScriptOperands, ScriptHere
<1>9. below \in Nat
  OBVIOUS
<1>10. \A i \in 0..255 : i \in Nat
  OBVIOUS
<1>11. v.sp + 16 <= MaxStack /\ v.sp + 17 <= MaxStack /\ v.framePointer + 4 < v.sp - args
       /\ v.sp - args - (v.framePointer + 4) = below + (d + (-args))
  <2>1. args \in Nat
    BY <1>6, <1>10
  <2> HIDE DEF below, d, args
  <2>2. v.sp = m.framePointer + 4 + (below + d) /\ v.framePointer = m.framePointer /\ m.framePointer \in Nat
        /\ v.sp \in Nat /\ v.sp + 24 <= MaxStack /\ MaxStack \in Nat /\ d > args /\ d \in Nat
    BY <1>3, <1>6, <1>8
  <2>3. v.sp + 16 <= MaxStack /\ v.sp + 17 <= MaxStack
    BY <2>2
  <2>4. v.framePointer + 4 < v.sp - args
    BY <1>9, <2>1, <2>2
  <2>5. v.sp - args - (v.framePointer + 4) = below + (d + (-args))
    BY <1>9, <2>1, <2>2
  <2> QED BY <2>3, <2>4, <2>5
<1>12. ScriptOperands(v, v.framePointer, S[n]) = below + (d + (-args))
  <2>1. ScriptDepth(v.scripts[S[n]]) = d + (-args)
    BY <1>4, <1>7, <1>8 DEF ScriptHere
  <2> HIDE DEF d, args
  <2> QED BY <1>3, <2>1 DEF ScriptOperands
<1>13. Resumable(v, S[n], args)
  <2>1. ~IsCompiled(v, v.framePointer)
    BY <1>3, <1>8 DEF IsCompiled, MethodAt
  <2>2. S[n] \in DOMAIN v.scripts
    BY <1>4, <1>8
  <2> HIDE DEF below, d, args
  <2> QED BY <1>3, <1>6, <1>11, <1>12, <2>1, <2>2 DEF Resumable
<1> HIDE DEF args, selector, below, d
<1>14. Sends(v, n, F, S, args)
  <2>1. v.status = "running" /\ S[n] = Len(v.scripts)
    BY <1>4, <1>8 DEF SameBut, Fields
  <2> QED BY <1>4, <1>8, <1>11, <1>13, <2>1 DEF Sends
<1>15. Steps(v, p)
  BY <1>6, <1>11, <1>14, SendSteps DEF p
<1>16. Steps(m, p)
  <2>1. v.argumentCount = m.argumentCount
    BY <1>4 DEF SameBut, Fields
  <2> QED BY <1>3, <1>15, <2>1 DEF Steps, Untouched
<1> QED BY <1>5, <1>16 DEF Lands

(***************************************************************************)
(* The ends of scripts.                                                    *)
(***************************************************************************)
\* A script ends in its own frame.
LEMMA AtEndHere ==
  ASSUME NEW n, NEW F, NEW S, Going(machine, n, F, S), AtEndOfScript
  PROVE  machine.pc = 0 /\ CurrentScript = ScriptHere(machine)
<1>1. machine.pc = 0
  BY DEF AtEndOfScript, InScript
<1> QED BY <1>1, ScriptFacts DEF CurrentScript, ScriptHere

\* A return writes its value where the receiver was.
LEMMA ReturnUntouched ==
  ASSUME NEW m, NEW n, NEW F, NEW S, Layout(m, n, F, S), NEW value
  PROVE  Untouched(m, returnValue(m, value))
<1> DEFINE at == (m.framePointer - 2 - (m.argumentCount + 1)) + 1
           p == returnValue(m, value)
<1>1. /\ DOMAIN m = Fields /\ m.framePointer \in Nat /\ m.argumentCount \in 0..255
      /\ m.framePointer + 4 \in 1..MaxStack /\ DOMAIN m.stack = 1..MaxStack
  BY FrameRead
<1>2. p.stack = m.stack \/ p.stack = [m.stack EXCEPT ![at] = value]
  BY <1>1, ReturnStack
<1>3. \A i \in 1..m.framePointer - 3 - m.argumentCount : i # at /\ i \in 1..MaxStack
  <2>1. MaxStack \in Nat
    BY StackAssumption
  <2>2. m.argumentCount \in Nat
    <3>1. \A i \in 0..255 : i \in Nat
      OBVIOUS
    <3> QED BY <1>1, <3>1
  <2> QED BY <1>1, <2>1, <2>2
<1> HIDE DEF at, p
<1>4. Untouched(m, p)
  BY <1>1, <1>2, <1>3 DEF Untouched
<1> QED BY <1>4 DEF p

\* A file that another one runs is through: its value is the answer of the native
\* method that runs it, in the frame of which it has run.
LEMMA NestedScriptEnds ==
  ASSUME Verified, NEW m, NEW n, NEW F, NEW S, Going(m, n, F, S), m.pc = 0, Len(m.scripts) > 1,
         NEW value, Known(m, value)
  PROVE  Steps(m, AfterPrimitive(returnValue(PopOop([m EXCEPT !.scripts = Front(@)]), value)))
<1> DEFINE last == Len(m.scripts)
           cut == [m EXCEPT !.scripts = Front(@)]
           popped == popMultiplesOops(cut, 1)
           r == returnValue(popped, value)
           after == AfterPrimitive(r)
<1>1. /\ Layout(m, n, F, S) /\ DOMAIN m = Fields /\ n \in Nat /\ S[n] = last
      /\ F[n] = m.framePointer /\ n \in 1..n /\ m.status = "running" /\ IsSequence(m.scripts)
      /\ DOMAIN m.scripts = 1..last /\ last \in Nat \ {0} /\ ScriptDepth(ScriptHere(m)) \in Nat
      /\ \A k \in 1..n - 1 : S[k] \in Nat /\ S[k] < last /\ S[k] >= 1
      /\ ~IsCompiled(m, m.framePointer) /\ m.sp \in Nat /\ m.framePointer \in Nat
      /\ m.sp = m.framePointer + 4 + ScriptOperands(m, m.framePointer, last)
  BY GoingFacts, ScriptFacts DEF ScriptHere
<1>2. n >= 2 /\ m.framePointer # 3
  <2>1. FramesOK(m, n, F, S)
    BY <1>1 DEF Layout
  <2>2. S[1] = 1 /\ n \in Nat \ {0}
    BY <2>1 DEF FramesOK
  <2>3. n # 1
    BY <1>1, <2>2
  <2>4. n \in 2..n
    BY <2>2, <2>3
  <2>5. 7 <= Base(m, F[n]) /\ Base(m, F[n]) <= F[n] - 3
    <3>1. \A k \in 2..n : 7 <= Base(m, F[k])
      BY <2>1, FramePlaces
    <3>2. \A k \in 1..n : \A j \in 1..k - 1 : Base(m, F[k]) <= F[k] - 3
      BY <2>1, FramePlaces
    <3>3. 1 \in 1..n - 1
      BY <2>4
    <3> QED BY <1>1, <2>4, <3>1, <3>2, <3>3
  <2>6. Base(m, F[n]) \in Int
    <3>1. ArgumentsIn(MetaAt(m, F[n])) \in 0..255
      BY <1>1, <2>1, FramePlaces
    <3>2. \A i \in 0..255 : i \in Nat
      OBVIOUS
    <3>3. ArgumentsIn(MetaAt(m, F[n])) \in Nat
      BY <3>1, <3>2
    <3>4. F[n] \in Nat
      BY <1>1
    <3> QED BY <3>3, <3>4 DEF Base
  <2> QED BY <1>1, <2>2, <2>3, <2>5, <2>6
<1>3. m.framePointer + 4 <= m.sp - 1
  <2> DEFINE d == ScriptDepth(ScriptHere(m))
  <2>1. ScriptOperands(m, m.framePointer, last) = 1 + d
    BY <1>2 DEF ScriptOperands, ScriptHere
  <2>2. d \in Nat /\ m.sp = m.framePointer + 4 + (1 + d)
    BY <1>1, <2>1
  <2> HIDE DEF d
  <2> QED BY <1>1, <2>2
<1>4. SameBut(m, cut, {"scripts"}) /\ cut.scripts = Front(m.scripts)
  BY <1>1 DEF SameBut, Fields
<1> HIDE DEF cut
<1>5. /\ cut.sp = m.sp /\ cut.framePointer = m.framePointer /\ cut.heap = m.heap /\ cut.stack = m.stack
      /\ cut.status = "running" /\ DOMAIN cut = Fields /\ cut.argumentCount = m.argumentCount
  BY <1>1, <1>4 DEF SameBut, Fields
<1>6. /\ IsSequence(cut.scripts) /\ Len(cut.scripts) = last - 1
      /\ \A s \in 1..last - 1 : cut.scripts[s] = m.scripts[s]
      /\ DOMAIN cut.scripts = 1..last - 1
  <2>1. /\ IsSequence(Front(m.scripts)) /\ Len(Front(m.scripts)) = last - 1
        /\ \A s \in 1..last - 1 : Front(m.scripts)[s] = m.scripts[s]
    BY <1>1, SequenceFront
  <2> QED BY <1>4, <2>1, SequenceDomain
<1>7. Layout(cut, n, F, S)
  <2>1. ScriptsOK(cut)
    <3>1. \A s \in 1..last : ScriptOK(m, m.scripts[s])
      BY <1>1 DEF Layout, DataOK, ScriptsOK
    <3>2. \A s \in 1..last - 1 : s \in 1..last
      BY <1>1
    <3>3. \A script : ScriptOK(m, script) => ScriptOK(cut, script)
      BY <1>5 DEF ScriptOK, Known
    <3> QED BY <1>6, <3>1, <3>2, <3>3 DEF ScriptsOK
  <2>2. \A k \in 1..n - 1 : S[k] \in 1..last - 1
    BY <1>1
  <2> QED BY <1>1, <1>4, <1>6, <2>1, <2>2, ScriptsKept
<1>8. /\ Keeps(cut, popped) /\ popped.stack = cut.stack /\ popped.heap = cut.heap /\ SameBut(cut, popped, {"sp"})
  <2>1. cut.framePointer + 4 <= cut.sp - 1
    BY <1>3, <1>5
  <2> QED BY <1>5, <1>7, <2>1, LayoutReady, PopKeeps, PopFields
<1> HIDE DEF popped
<1>9. /\ popped.framePointer = m.framePointer /\ popped.argumentCount = m.argumentCount
      /\ popped.status = "running" /\ popped.stack = m.stack /\ popped.heap = m.heap
      /\ popped.scripts = cut.scripts
  BY <1>5, <1>8 DEF SameBut, Fields
<1>10. Layout(popped, n, F, S) /\ Known(popped, value)
  BY <1>7, <1>8, <1>9, LayoutKept DEF Known
<1>11. Serves(popped, S[n])
  <2>1. ~IsCompiled(popped, popped.framePointer)
    BY <1>1, <1>9 DEF IsCompiled, MethodAt
  <2>2. last = (last - 1) + 1
    BY <1>1
  <2> QED BY <1>1, <1>6, <1>9, <2>1, <2>2 DEF Serves
<1>12. Untouched(m, r)
  <2>1. Untouched(popped, r)
    BY <1>10, ReturnUntouched
  <2> QED BY <1>9, <2>1 DEF Untouched
<1>13. r.status = "running" => Settled(r)
  <2>1. Stop(popped, "aborted").status # "running"
    BY <1>10, FrameRead, StopFields
  <2>2. returnValue(popped, value) = Stop(popped, "aborted") \/ returnValue(popped, value) = localReturnValue(popped, value)
    BY DEF returnValue
  <2> QED BY <1>2, <1>9, <1>10, <1>11, <2>1, <2>2, Returned
<1> HIDE DEF r
<1>14. CASE r.primitiveHasFailed /\ r.status = "running"
  <2> DEFINE pushed == PushAll(r, <<currentReceiver(r), encodeSmallInteger(-1)>>)
  <2>1. after = [pushed EXCEPT !.pc = 0, !.nativeFailed = TRUE]
    BY <1>14 DEF AfterPrimitive
  <2>2. DOMAIN r = Fields
    BY <1>13, <1>14 DEF Settled, Layout, DataOK
  <2>3. DOMAIN pushed = Fields
    BY <2>2, PushAllFields DEF SameBut
  <2> HIDE DEF pushed
  <2>4. after.nativeFailed /\ DOMAIN after = Fields
    BY <2>1, <2>3 DEF Fields
  <2> QED BY <2>4 DEF Steps, r, popped, cut, PopOop
<1>15. CASE ~(r.primitiveHasFailed /\ r.status = "running")
  <2>1. after = r
    BY <1>15 DEF AfterPrimitive
  <2>2. Steps(m, after)
    BY <1>12, <1>13, <2>1 DEF Steps
  <2> QED BY <2>2 DEF r, popped, cut, PopOop
<1> QED BY <1>14, <1>15

\* EndOfNestedScript: the script that another one has run ends, and the
\* frame of its native method returns.
LEMMA NestedScriptAction ==
  ASSUME Verified, NEW n, NEW F, NEW S, Going(machine, n, F, S), EndOfNestedScript
  PROVE  Lands
<1>1. machine.pc = 0 /\ Len(machine.scripts) > 1
  BY AtEndHere DEF EndOfNestedScript
<1>2. Known(machine, Top)
  BY OperandKnown DEF Top
<1>3. Steps(machine, AfterPrimitive(returnValue(PopOop([machine EXCEPT !.scripts = Front(@)]), Top)))
  BY <1>1, <1>2, NestedScriptEnds
<1>4. machine' = Bounded(AfterPrimitive(returnValue(PopOop([machine EXCEPT !.scripts = Front(@)]), Top)))
  BY Zenon DEF EndOfNestedScript, Become
<1> QED BY <1>3, <1>4 DEF Lands

\* main has come to its end.
LEMMA EndOfMainAction ==
  ASSUME NEW n, NEW F, NEW S, Going(machine, n, F, S), EndOfMain
  PROVE  Lands
<1> DEFINE popped == PopOop(machine)
           p == [popped EXCEPT !.status = "finished", !.answer = Top]
<1>1. machine' = Bounded(p)
  BY DEF EndOfMain, Become
<1>2. DOMAIN machine = Fields
  BY GoingFacts
<1>3. SameBut(machine, popped, {"sp"})
  BY <1>2, PopFields DEF PopOop
<1> HIDE DEF popped
<1>4. p.status = "finished" /\ p.stack = machine.stack
  BY <1>3 DEF SameBut, Fields
<1> HIDE DEF p
<1>5. Steps(machine, p)
  BY <1>4 DEF Steps, Untouched
<1> QED BY <1>1, <1>5 DEF Lands

\* Every step of a script but the end of the file that the host runs.
LEMMA ScriptLands ==
  ASSUME Verified, NEW n, NEW F, NEW S, Going(machine, n, F, S), ScriptStep, ~EndOfFile
  PROVE  Lands
BY VisitPushActions, VisitPopAction, VisitSendAction, NestedScriptAction, EndOfMainAction DEF ScriptStep

(***************************************************************************)
(* A machine that starts.                                                  *)
(***************************************************************************)
\* A stack with the terminal frame only.
OneFrame  == [k \in 1..1 |-> 3]
OneScript == [k \in 1..1 |-> 1]

NoneMarried(m) == \A i \in DOMAIN m.heap : m.heap[i].class = "Context" => m.heap[i].slots[1].tag # "raw"

\* The stack is empty but for the terminal frame, and what is in the heap points
\* at no frame.
Fresh(m, p) ==
  /\ Layout(p, 1, OneFrame, OneScript) /\ ~IsCompiled(p, 3) /\ p.sp = 7 /\ p.framePointer = 3
  /\ p.pc = m.pc /\ p.heap = m.heap /\ p.scripts = m.scripts /\ p.status = m.status
  /\ p.nativeFailed = m.nativeFailed /\ p.phase = m.phase

\* The words that PushAll pushes.
LEMMA PushedWords ==
  ASSUME NEW m, DOMAIN m = Fields, DOMAIN m.stack = 1..MaxStack, NEW oops
  PROVE  LET p == PushAll(m, oops) IN
         /\ SameBut(m, p, {"stack", "sp"}) /\ p.sp = m.sp + Len(oops) /\ DOMAIN p.stack = 1..MaxStack
         /\ \A i \in 1..MaxStack : i \in m.sp + 1..m.sp + Len(oops) => p.stack[i] = oops[i - m.sp]
         /\ \A i \in 1..MaxStack : i \notin m.sp + 1..m.sp + Len(oops) => p.stack[i] = m.stack[i]
<1> DEFINE p == PushAll(m, oops)
<1>1. /\ SameBut(m, p, {"stack", "sp"}) /\ p.sp = m.sp + Len(oops)
      /\ p.stack = [i \in DOMAIN m.stack |-> IF i \in m.sp + 1..m.sp + Len(oops) THEN oops[i - m.sp] ELSE m.stack[i]]
  BY PushAllFields
<1> HIDE DEF p
<1> QED BY <1>1 DEF p

\* createTerminalStackFrame makes such a stack.
LEMMA FreshFrame ==
  ASSUME NEW m, DataOK(m), NoneMarried(m)
  PROVE  Fresh(m, createTerminalStackFrame(m))
<1> DEFINE z == [m EXCEPT !.sp = 0]
           low == <<nil, Raw(0), Raw(0)>>
           a == PushAll(z, low)
           b == [a EXCEPT !.framePointer = a.sp]
           meta == encodeFrameMetaData(FALSE, FALSE, 0)
           high == <<nil, meta, nil, nil>>
           c == PushAll(b, high)
           p == fetchFrameData(c)
<1>1. /\ ArgumentsIn(meta) = 0 /\ BlockIn(meta) = FALSE /\ HasContextIn(meta) = FALSE
      /\ meta.value \in Nat /\ meta.tag = "raw"
  <2>1. 0 \in 0..255
    OBVIOUS
  <2> QED BY <2>1, Metadata, Zenon
<1> HIDE DEF meta
<1>2. DOMAIN m = Fields /\ DOMAIN m.stack = 1..MaxStack /\ \A i \in 1..MaxStack : Known(m, m.stack[i])
  BY DEF DataOK, StackOK
<1>3. MaxStack \in Nat /\ MaxStack >= 31
  BY StackAssumption DEF StackMargin
<1>4. SameBut(m, z, {"sp"}) /\ z.sp = 0 /\ z.stack = m.stack /\ DOMAIN z = Fields
  BY <1>2 DEF SameBut, Fields
<1> HIDE DEF z
<1>5. SameBut(z, a, {"stack", "sp"}) /\ a.sp = 3 /\ DOMAIN a.stack = 1..MaxStack /\ DOMAIN a = Fields
      /\ a.stack[1] = nil /\ a.stack[2] = Raw(0) /\ a.stack[3] = Raw(0)
      /\ \A i \in 4..MaxStack : a.stack[i] = m.stack[i]
  <2>1. /\ SameBut(z, a, {"stack", "sp"}) /\ a.sp = z.sp + Len(low) /\ DOMAIN a.stack = 1..MaxStack
        /\ \A i \in 1..MaxStack : i \in z.sp + 1..z.sp + Len(low) => a.stack[i] = low[i - z.sp]
        /\ \A i \in 1..MaxStack : i \notin z.sp + 1..z.sp + Len(low) => a.stack[i] = z.stack[i]
    <3> HIDE DEF low
    <3> QED BY <1>2, <1>4, PushedWords
  <2>2. Len(low) = 3 /\ low[1] = nil /\ low[2] = Raw(0) /\ low[3] = Raw(0)
    OBVIOUS
  <2> HIDE DEF low, a
  <2>3. \A i \in 1..MaxStack : i \in 1..3 => a.stack[i] = low[i]
    BY <1>4, <2>1, <2>2
  <2>4. \A i \in 4..MaxStack : a.stack[i] = m.stack[i]
    BY <1>4, <2>1, <2>2
  <2>5. 1 \in 1..MaxStack /\ 2 \in 1..MaxStack /\ 3 \in 1..MaxStack
    BY <1>3
  <2>6. a.stack[1] = nil /\ a.stack[2] = Raw(0) /\ a.stack[3] = Raw(0)
    BY <2>2, <2>3, <2>5
  <2> QED BY <1>4, <2>1, <2>2, <2>4, <2>6 DEF SameBut
<1> HIDE DEF a
<1>7. SameBut(a, b, {"framePointer"}) /\ b.framePointer = 3 /\ b.sp = 3 /\ b.stack = a.stack /\ DOMAIN b = Fields
  BY <1>5 DEF SameBut, Fields
<1> HIDE DEF b
<1>8. SameBut(b, c, {"stack", "sp"}) /\ c.sp = 7 /\ DOMAIN c.stack = 1..MaxStack /\ DOMAIN c = Fields
      /\ c.stack[4] = nil /\ c.stack[5] = meta /\ c.stack[6] = nil /\ c.stack[7] = nil
      /\ \A i \in 1..MaxStack : i \notin 4..7 => c.stack[i] = a.stack[i]
  <2>1. /\ SameBut(b, c, {"stack", "sp"}) /\ c.sp = b.sp + Len(high) /\ DOMAIN c.stack = 1..MaxStack
        /\ \A i \in 1..MaxStack : i \in b.sp + 1..b.sp + Len(high) => c.stack[i] = high[i - b.sp]
        /\ \A i \in 1..MaxStack : i \notin b.sp + 1..b.sp + Len(high) => c.stack[i] = b.stack[i]
    <3>1. DOMAIN b.stack = 1..MaxStack
      BY <1>5, <1>7
    <3> HIDE DEF high
    <3> QED BY <1>7, <3>1, PushedWords
  <2>2. Len(high) = 4 /\ high[1] = nil /\ high[2] = meta /\ high[3] = nil /\ high[4] = nil
    OBVIOUS
  <2> HIDE DEF high, c
  <2>3. \A i \in 1..MaxStack : i \in 4..7 => c.stack[i] = high[i - 3]
    BY <1>7, <2>1, <2>2
  <2>4. \A i \in 1..MaxStack : i \notin 4..7 => c.stack[i] = a.stack[i]
    BY <1>7, <2>1, <2>2
  <2>5. 4 \in 1..MaxStack /\ 5 \in 1..MaxStack /\ 6 \in 1..MaxStack /\ 7 \in 1..MaxStack
    BY <1>3
  <2>6. c.stack[4] = nil /\ c.stack[5] = meta /\ c.stack[6] = nil /\ c.stack[7] = nil
    BY <2>2, <2>3, <2>5
  <2> QED BY <1>7, <2>1, <2>2, <2>4, <2>6 DEF SameBut
<1> HIDE DEF c
<1>9. c.sp = 7 /\ DOMAIN c = Fields
  BY <1>8
<1>10. /\ DOMAIN c.stack = 1..MaxStack /\ c.stack[2] = Raw(0) /\ c.stack[3] = Raw(0) /\ c.stack[4] = nil
       /\ c.stack[5] = meta /\ c.stack[6] = nil /\ c.stack[7] = nil /\ c.stack[1] = nil
       /\ \A i \in 8..MaxStack : c.stack[i] = m.stack[i]
  BY <1>3, <1>5, <1>8
<1>11. /\ c.heap = m.heap /\ c.globals = m.globals /\ c.scripts = m.scripts /\ c.methodDict = m.methodDict
       /\ c.framePointer = 3 /\ c.pc = m.pc /\ c.status = m.status /\ c.nativeFailed = m.nativeFailed
       /\ c.phase = m.phase
  BY <1>4, <1>5, <1>7, <1>8 DEF SameBut, Fields
<1> HIDE DEF low, high
<1>12. DataOK(c)
  <2>1. \A i \in 1..MaxStack : Known(m, c.stack[i])
    <3>1. Known(m, nil) /\ Known(m, Raw(0)) /\ Known(m, meta)
      BY <1>1, WordFields DEF Known
    <3>2. \A i \in 1..MaxStack : i \in {1, 2, 3, 4, 5, 6, 7} \/ i \in 8..MaxStack
      BY <1>3
    <3> QED BY <1>2, <1>10, <3>1, <3>2
  <2>2. c.sp \in Nat
    BY <1>9
  <2> QED BY <1>9, <1>10, <1>11, <2>1, <2>2, StackWritten
<1>13. /\ DataOK(p) /\ p.heap = c.heap /\ p.scripts = c.scripts /\ p.nativeFailed = c.nativeFailed
       /\ p.framePointer = 3 /\ p.sp = 7 /\ p.stack = c.stack /\ p.pc = c.pc /\ p.status = c.status
       /\ p.argumentCount = ArgumentsIn(meta) /\ p.isBlock = BlockIn(meta) /\ p.method = nil
  <2>1. c.stack[c.framePointer + 2] = meta /\ c.stack[c.framePointer + 1] = nil
    BY <1>10, <1>11
  <2>2. c.framePointer # 0
    BY <1>11
  <2>3. /\ DOMAIN c = Fields /\ DataOK(p) /\ p.heap = c.heap /\ p.scripts = c.scripts /\ p.nativeFailed = c.nativeFailed
        /\ p.framePointer = c.framePointer /\ p.sp = c.sp /\ p.stack = c.stack
        /\ p.pc = c.pc /\ p.status = c.status
        /\ p.argumentCount = ArgumentsIn(c.stack[c.framePointer + 2]) /\ p.isBlock = BlockIn(c.stack[c.framePointer + 2])
        /\ p.method = c.stack[c.framePointer + 1]
    BY <1>9, <1>12, <2>2, FetchFrameReady
  <2> HIDE DEF p
  <2> QED BY <1>9, <1>11, <2>1, <2>3
<1>14. p.phase = m.phase
  <2>1. SameBut(c, p, {"argumentCount", "isBlock", "hasContext", "method"})
    BY <1>9, <1>11, FetchFrameFields
  <2> HIDE DEF p
  <2> QED BY <1>11, <2>1 DEF SameBut, Fields
<1>15. p = createTerminalStackFrame(m)
  BY Zenon DEF createTerminalStackFrame, p, c, b, a, z, high, low, meta
<1> HIDE DEF p
<1>16. MethodAt(p, 3) = nil /\ MetaAt(p, 3) = meta /\ ~IsCompiled(p, 3)
  <2>1. p.stack[3 + 1] = nil /\ p.stack[3 + 2] = meta
    BY <1>10, <1>13
  <2>2. nil.tag # "compiled"
    BY WordFields
  <2> QED BY <2>1, <2>2 DEF MethodAt, MetaAt, IsCompiled
<1>17. FrameOK(p, 3)
  <2>1. 3 + ReceiverOffset <= MaxStack
    BY <1>3 DEF ReceiverOffset
  <2> QED BY <1>1, <1>16, <2>1 DEF FrameOK
<1>18. FramesOK(p, 1, OneFrame, OneScript)
  <2>1. /\ OneFrame \in [1..1 -> Nat] /\ OneScript \in [1..1 -> Nat] /\ OneFrame[1] = 3 /\ OneScript[1] = 1
        /\ 2..1 = {} /\ \A k \in 1..1 : k = 1 /\ 1..k - 1 = {}
    BY DEF OneFrame, OneScript
  <2>2. p.stack[3] = Raw(0)
    BY <1>10, <1>13
  <2> QED BY <1>1, <1>16, <1>17, <2>1, <2>2 DEF FramesOK
<1>19. ContextsOK(p, 1, OneFrame)
  BY <1>11, <1>13 DEF ContextsOK, NoneMarried
<1>20. Current(p, OneFrame[1])
  <2>1. OneFrame[1] = 3
    BY DEF OneFrame
  <2> QED BY <1>13, <1>16, <2>1 DEF Current, ReceiverOffset
<1>21. Layout(p, 1, OneFrame, OneScript)
  BY <1>13, <1>18, <1>19, <1>20 DEF Layout
<1> QED BY <1>11, <1>13, <1>14, <1>15, <1>16, <1>21 DEF Fresh

\* The first script begins in the terminal frame, without a word on the stack.
LEMMA FirstScript ==
  ASSUME NEW m, Layout(m, 1, OneFrame, OneScript), ~IsCompiled(m, 3), m.sp = 7, m.framePointer = 3, m.pc = 0,
         NEW ops, VerifiedScript(ops), NEW self, Known(m, self), NEW p, SameBut(m, p, {"scripts"}),
         IsSequence(p.scripts), Len(p.scripts) = 1, p.scripts[1] = Script(ops, self)
  PROVE  Settled(p)
<1> DEFINE script == Script(ops, self)
<1>1. script.ops = ops /\ script.ip = 1 /\ script.self = self /\ DOMAIN script = {"ops", "ip", "self"}
  BY DEF Script
<1> HIDE DEF script
<1>2. Len(ops) \in Nat
  BY DEF VerifiedScript
<1>3. p.heap = m.heap /\ p.sp = 7 /\ p.framePointer = 3 /\ p.pc = 0 /\ p.stack = m.stack
  BY DEF SameBut, Fields
<1>4. DOMAIN p.scripts = 1..1
  BY SequenceDomain
<1>5. ScriptOK(p, script)
  BY <1>1, <1>2, <1>3 DEF ScriptOK, Known
<1>6. ScriptsOK(p)
  BY <1>4, <1>5 DEF ScriptsOK, script
<1>7. Layout(p, 1, OneFrame, OneScript)
  <2>1. \A k \in 1..1 - 1 : FALSE
    OBVIOUS
  <2> QED BY <1>6, <2>1, ScriptsKept
<1>8. OneScript[1] = 1 /\ OneFrame \in [1..1 -> Nat] /\ OneScript \in [1..1 -> Nat]
  BY DEF OneFrame, OneScript
<1>9. ScriptDepth(p.scripts[1]) = 0
  <2>1. ScriptDepth(script) = 0
    BY <1>1, <1>2, ScriptDepthStep DEF ScriptDepth
  <2> QED BY <2>1 DEF script
<1>10. Balanced(p, OneScript[1])
  <2>1. ~IsCompiled(p, p.framePointer)
    BY <1>3 DEF IsCompiled, MethodAt
  <2>2. ScriptOperands(p, p.framePointer, 1) = 0
    BY <1>3, <1>9 DEF ScriptOperands
  <2> QED BY <1>3, <1>8, <2>1, <2>2 DEF Balanced, ReceiverOffset
<1> QED BY <1>7, <1>8, <1>10 DEF Settled

\* The machine of main begins afresh.
Restarts == \E p : Settled(p) /\ p.phase # machine.phase /\ machine' = Bounded(p)

\* The script that sends main is verified.
LEMMA MainIsVerified == Verified => VerifiedScript(MainOps)
<1> SUFFICES ASSUME Verified PROVE VerifiedScript(MainOps)
  OBVIOUS
<1> DEFINE push == ScriptOp("push", ClassOop("GlobalContext"), 0)
           send == ScriptOp("send", Symbol("main"), 0)
<1>1. /\ push.op = "push" /\ push.oop.tag # "pointer" /\ send.op = "send" /\ send.count = 0
      /\ send.oop.name = "main"
  BY DEF ScriptOp, ClassOop, Symbol, Word
<1> HIDE DEF push, send
<1>2. MainOps = <<push, send>>
  BY DEF MainOps, push, send
<1>3. Len(MainOps) = 2 /\ DOMAIN MainOps = 1..2 /\ MainOps[1] = push /\ MainOps[2] = send
  BY <1>2
<1>4. ScriptDepths(MainOps)[1] = 0
      /\ \A ip \in 1..2 : ScriptDepths(MainOps)[ip + 1] = ScriptDepths(MainOps)[ip] + OpGrowth(MainOps[ip])
  <2> DEFINE ops == MainOps
  <2>1. Len(ops) \in Nat
    BY <1>3
  <2> HIDE DEF ops
  <2>2. /\ ScriptDepths(ops)[1] = 0
        /\ \A ip \in 1..Len(ops) : ScriptDepths(ops)[ip + 1] = ScriptDepths(ops)[ip] + OpGrowth(ops[ip])
    BY <2>1, ScriptDepthStep
  <2> QED BY <1>3, <2>2 DEF ops
<1>5. OpGrowth(push) = 1
  BY <1>1, OpGrowthOf
<1>6. ScriptDepths(MainOps)[2] = 1
  <2>1. ScriptDepths(MainOps)[1 + 1] = ScriptDepths(MainOps)[1] + OpGrowth(MainOps[1])
    BY <1>4
  <2> QED BY <1>3, <1>4, <1>5, <2>1
<1>7. VerifiedOp(push, 0)
  BY <1>1 DEF VerifiedOp
<1>8. VerifiedOp(send, 1)
  <2>1. Takes(send.oop.name, send.count)
    BY <1>1 DEF Verified
  <2> QED BY <1>1, <2>1 DEF VerifiedOp
<1>9. \A ip \in 1..2 : VerifiedOp(MainOps[ip], ScriptDepths(MainOps)[ip])
  <2> TAKE ip \in 1..2
  <2>1. ip = 1 \/ ip = 2
    OBVIOUS
  <2> QED BY <1>3, <1>4, <1>6, <1>7, <1>8, <2>1
<1> QED BY <1>3, <1>9 DEF VerifiedScript

\* A machine that has run the file of the host has one frame, and no context
\* that is still married.
LEMMA AtTerminalFrame ==
  ASSUME NEW m, NEW n, NEW F, NEW S, Going(m, n, F, S), m.pc = 0, Len(m.scripts) = 1
  PROVE  n = 1 /\ F[1] = 3 /\ NoneMarried(m)
<1>1. /\ Layout(m, n, F, S) /\ n \in Nat /\ n \in 1..n
      /\ \A k \in 1..n - 1 : S[k] \in Nat /\ S[k] < 1 /\ S[k] >= 1
  BY GoingFacts, ScriptFacts
<1>2. FramesOK(m, n, F, S) /\ ContextsOK(m, n, F)
  BY <1>1 DEF Layout
<1>3. n = 1
  <2>1. \A k \in 1..n - 1 : FALSE
    BY <1>1
  <2>2. 1 \in 1..n - 1 \/ n = 1
    BY <1>1
  <2> QED BY <2>1, <2>2
<1>4. F[1] = 3 /\ ~IsCompiled(m, 3) /\ FrameOK(m, F[1])
  BY <1>2, <1>3 DEF FramesOK
<1>5. ~HasContextIn(MetaAt(m, F[1]))
  BY <1>4 DEF FrameOK
<1>6. \A k \in 1..n : k = 1
  BY <1>3
<1>7. NoneMarried(m)
  BY <1>2, <1>5, <1>6 DEF ContextsOK, NoneMarried
<1> QED BY <1>3, <1>4, <1>7

\* EndOfFile: the machine of main begins with a terminal frame and its
\* script.
LEMMA EndOfFileAction ==
  ASSUME Verified, NEW n, NEW F, NEW S, Going(machine, n, F, S), EndOfFile
  PROVE  Restarts
<1> DEFINE m == [machine EXCEPT !.phase = "main"]
           fresh == createTerminalStackFrame(m)
           script == Script(MainOps, nil)
           p == [fresh EXCEPT !.scripts = <<script>>]
<1>1. machine.pc = 0 /\ Len(machine.scripts) = 1 /\ machine.phase = "script" /\ machine' = Bounded(p)
  BY AtEndHere DEF EndOfFile, Become
<1>2. /\ Layout(machine, n, F, S) /\ Ready(machine) /\ DOMAIN machine = Fields
  BY GoingFacts
<1>3. NoneMarried(machine)
  BY <1>1, AtTerminalFrame
<1>4. SameBut(machine, m, {"phase"}) /\ m.phase = "main"
  BY <1>2 DEF SameBut, Fields
<1> HIDE DEF m
<1>5. SameBut(machine, m, Registers) /\ m.heap = machine.heap /\ m.pc = machine.pc
  BY <1>4 DEF SameBut, Fields, Registers
<1>6. DataOK(m) /\ NoneMarried(m)
  <2>1. Ready(m)
    BY <1>2, <1>5, KeepsRegisters
  <2> QED BY <1>3, <1>5, <2>1 DEF Ready, NoneMarried
<1>7. Fresh(m, fresh)
  BY <1>6, FreshFrame
<1> HIDE DEF fresh, script
<1>8. /\ Layout(fresh, 1, OneFrame, OneScript) /\ ~IsCompiled(fresh, 3) /\ fresh.sp = 7
      /\ fresh.framePointer = 3 /\ fresh.pc = 0 /\ fresh.phase = "main" /\ DOMAIN fresh = Fields
  <2>1. Layout(fresh, 1, OneFrame, OneScript) => DOMAIN fresh = Fields
    BY DEF Layout, DataOK
  <2> QED BY <1>1, <1>4, <1>5, <1>7, <2>1 DEF Fresh
<1>9. SameBut(fresh, p, {"scripts"}) /\ p.scripts = <<script>>
  BY <1>8 DEF SameBut, Fields
<1> HIDE DEF p
<1>10. p.phase = "main"
  BY <1>8, <1>9 DEF SameBut, Fields
<1>11. IsSequence(p.scripts) /\ Len(p.scripts) = 1 /\ p.scripts[1] = script
  <2>1. <<script>> \in Seq({script}) /\ Len(<<script>>) = 1 /\ <<script>>[1] = script
    OBVIOUS
  <2> QED BY <1>9, <2>1 DEF IsSequence
<1>12. Settled(p)
  <2>1. Known(fresh, nil)
    BY WordFields DEF Known
  <2> QED BY <1>8, <1>9, <1>11, <2>1, MainIsVerified, FirstScript DEF script
<1>13. p.phase # machine.phase
  BY <1>1, <1>10
<1> QED BY <1>1, <1>12, <1>13 DEF Restarts

(***************************************************************************)
(* The invariant, and the steps.                                           *)
(***************************************************************************)
Stable(m) == m.status = "running" => m.nativeFailed \/ (Settled(m) /\ m.sp <= MaxStack - StackMargin)

\* Bounded only stops a machine, one whose stack has no room for a step
\* among them.
LEMMA BoundedFields ==
  ASSUME NEW p, DOMAIN p = Fields
  PROVE  /\ DOMAIN Bounded(p) = Fields /\ Bounded(p).stack = p.stack /\ Bounded(p).nativeFailed = p.nativeFailed
         /\ Bounded(p).phase = p.phase
         /\ Bounded(p).status = "running" => Bounded(p) = p /\ (p.sp \in Nat => p.sp <= MaxStack - StackMargin)
<1>1. \A status : SameBut(p, Stop(p, status), {"status"}) /\ Stop(p, status).status = status
  BY StopFields
<1>2. Bounded(p) = p \/ Bounded(p) = Stop(p, "bounded") \/ Bounded(p) = Stop(p, "crashed")
  BY DEF Bounded
<1>3. \A status : /\ DOMAIN Stop(p, status) = Fields /\ Stop(p, status).stack = p.stack
                  /\ Stop(p, status).nativeFailed = p.nativeFailed /\ Stop(p, status).phase = p.phase
  BY <1>1 DEF SameBut, Fields
<1>4. Stop(p, "bounded").status # "running" /\ Stop(p, "crashed").status # "running"
  BY <1>1
<1>5. ASSUME Bounded(p).status = "running" PROVE Bounded(p) = p /\ (p.sp \in Nat => p.sp <= MaxStack - StackMargin)
  <2>1. Bounded(p) = p
    BY <1>2, <1>4, <1>5
  <2>2. ~(p.sp > MaxStack - StackMargin \/ Len(p.heap) > MaxHeap)
    BY <1>4, <1>5, <2>1 DEF Bounded
  <2>3. MaxStack - StackMargin \in Int
    BY StackAssumption DEF StackMargin
  <2> QED BY <2>1, <2>2, <2>3
<1> QED BY <1>2, <1>3, <1>5

\* The fields of such a machine.
LEMMA SettledFields ==
  ASSUME NEW p, Settled(p)
  PROVE  DOMAIN p = Fields /\ p.sp \in Nat
BY DEF Settled, Layout, DataOK

\* After a step of the frame, the machine has stopped, has failed or goes on
\* as it should, and its callers have their words.
LEMMA LandsStable ==
  ASSUME Lands
  PROVE  /\ Stable(machine')
         /\ machine'.nativeFailed \/ Untouched(machine, machine')
<1>1. PICK p : Steps(machine, p) /\ machine' = Bounded(p)
  BY DEF Lands
<1>2. CASE p.nativeFailed /\ DOMAIN p = Fields
  <2>1. machine'.nativeFailed
    BY <1>1, <1>2, BoundedFields
  <2> QED BY <2>1 DEF Stable
<1>3. CASE Untouched(machine, p) /\ (p.status = "running" => Settled(p))
  <2>1. CASE p.status # "running"
    <3>1. machine' = p
      BY <1>1, <2>1 DEF Bounded
    <3> QED BY <1>3, <2>1, <3>1 DEF Stable
  <2>2. CASE p.status = "running"
    <3>1. Settled(p) /\ DOMAIN p = Fields /\ p.sp \in Nat
      BY <1>3, <2>2, SettledFields
    <3>2. machine'.stack = p.stack
      BY <1>1, <3>1, BoundedFields
    <3>3. machine'.status = "running" => machine' = p /\ p.sp <= MaxStack - StackMargin
      BY <1>1, <3>1, BoundedFields
    <3>4. Stable(machine')
      BY <3>1, <3>3 DEF Stable
    <3>5. Untouched(machine, machine')
      BY <1>3, <3>2 DEF Untouched
    <3> QED BY <3>4, <3>5
  <2> QED BY <2>1, <2>2
<1> QED BY <1>1, <1>2, <1>3 DEF Steps

\* After the begin of main it goes on as it should.
LEMMA RestartsStable ==
  ASSUME Restarts
  PROVE  Stable(machine') /\ machine'.phase # machine.phase
<1>1. PICK p : Settled(p) /\ p.phase # machine.phase /\ machine' = Bounded(p)
  BY DEF Restarts
<1>2. DOMAIN p = Fields /\ p.sp \in Nat
  BY <1>1, SettledFields
<1>3. machine'.phase = p.phase /\ (machine'.status = "running" => machine' = p /\ p.sp <= MaxStack - StackMargin)
  BY <1>1, <1>2, BoundedFields
<1> QED BY <1>1, <1>3 DEF Stable

\* The machine that the host starts.
LEMMA InitialData == DataOK(InitialMachine)
<1> DEFINE m == InitialMachine
           globals == [g \in GlobalNames |-> IF g \in DOMAIN ClassHierarchy THEN ClassOop(g) ELSE nil]
           dict(c) == [s \in DOMAIN NativeMethods[c] |-> NativeMethod(NativeMethods[c][s])]
           methodDict == [c \in DOMAIN ClassHierarchy |-> IF c \in DOMAIN NativeMethods THEN dict(c) ELSE << >>]
<1>1. /\ DOMAIN m = Fields /\ m.stack = [i \in 1..MaxStack |-> nil] /\ m.sp = 0 /\ m.heap = << >>
      /\ m.scripts = << >> /\ m.globals = globals
  BY DEF InitialMachine, Fields
<1>2. m.methodDict = methodDict
  BY Zenon DEF InitialMachine
<1> HIDE DEF m
<1>3. StackOK(m)
  <2>1. Known(m, nil)
    BY WordFields DEF Known
  <2> QED BY <1>1, <2>1 DEF StackOK
<1>4. HeapOK(m) /\ ScriptsOK(m)
  BY <1>1, EmptySequence DEF HeapOK, ScriptsOK
<1>5. GlobalsOK(m)
  <2>1. \A g : ClassOop(g).tag # "pointer" /\ nil.tag # "pointer"
    BY WordFields DEF ClassOop, Word
  <2> QED BY <1>1, <2>1 DEF GlobalsOK, Known
<1> HIDE DEF globals
<1>6. MethodDictOK(m)
  <2>1. \A f : NativeMethod(f).tag = "native" /\ NativeMethod(f).name = f
    BY DEF NativeMethod, Word
  <2>2. DOMAIN methodDict = DOMAIN ClassHierarchy
    OBVIOUS
  <2>3. ASSUME NEW c \in DOMAIN methodDict, NEW s \in DOMAIN methodDict[c] PROVE EntryOK(c, s, methodDict[c][s])
    <3>1. c \in DOMAIN NativeMethods /\ methodDict[c] = dict(c)
      <4>1. c \notin DOMAIN NativeMethods => methodDict[c] = << >>
        BY <2>2
      <4>2. c \in DOMAIN NativeMethods => methodDict[c] = dict(c)
        BY <2>2
      <4> HIDE DEF methodDict, dict
      <4> QED BY <2>3, <4>1, <4>2, EmptySequence
    <3>2. s \in DOMAIN NativeMethods[c] /\ methodDict[c][s] = NativeMethod(NativeMethods[c][s])
      <4> HIDE DEF methodDict
      <4> QED BY <2>3, <3>1
    <3>3. NativeMethods[c][s] \in ScriptFunctions => c = "ScriptContext"
      BY <3>1, <3>2, NativesAssumption
    <3> HIDE DEF methodDict, dict
    <3> QED BY <2>1, <3>2, <3>3 DEF EntryOK
  <2> HIDE DEF methodDict
  <2> QED BY <1>2, <2>3 DEF MethodDictOK
<1>7. DOMAIN m = Fields /\ m.sp \in Nat
  BY <1>1
<1> QED BY <1>3, <1>4, <1>5, <1>6, <1>7 DEF DataOK, m

\* The machine that a file is read into is as it should be.
LEMMA StartedSettled == Verified => Settled(StartedMachine) /\ StartedMachine.sp <= MaxStack - StackMargin
<1> SUFFICES ASSUME Verified PROVE Settled(StartedMachine) /\ StartedMachine.sp <= MaxStack - StackMargin
  OBVIOUS
<1> DEFINE m == InitialMachine
           fresh == createTerminalStackFrame(m)
           ops == compiled.scripts[1].ops
           context == Object("ScriptContext", <<nil, nil, ClassOop(Metaclass("GlobalContext")), nil>>, << >>)
           born == Allocate(fresh, context)
           script == Script(ops, Newest(born))
           p == [born EXCEPT !.scripts = Append(@, script)]
<1>1. m.heap = << >> /\ m.scripts = << >> /\ m.pc = 0
  BY DEF InitialMachine
<1>2. NoneMarried(m)
  BY <1>1, EmptySequence DEF NoneMarried
<1>3. Fresh(m, fresh)
  BY <1>2, InitialData, FreshFrame
<1>4. StartedMachine = p
  <2>1. compiled.scripts[1].readable
    BY DEF Verified
  <2> QED BY <2>1, Zenon DEF StartedMachine, executeScriptFromFile
<1> HIDE DEF m, fresh
<1>5. /\ Layout(fresh, 1, OneFrame, OneScript) /\ ~IsCompiled(fresh, 3) /\ fresh.sp = 7 /\ fresh.pc = 0
      /\ fresh.framePointer = 3 /\ fresh.scripts = << >>
  BY <1>1, <1>3 DEF Fresh
<1>6. Ready(fresh) /\ DOMAIN fresh = Fields
  BY <1>5, LayoutReady DEF Ready, DataOK
<1>7. ObjectOK(fresh, context) /\ (context.class = "Context" => context.slots[1].tag # "raw")
  <2> DEFINE slots == <<nil, nil, ClassOop(Metaclass("GlobalContext")), nil>>
  <2>1. DOMAIN context = {"class", "slots", "elements"} /\ context.class = "ScriptContext"
        /\ context.slots = slots /\ context.elements = << >>
    BY DEF Object
  <2>2. \A i \in DOMAIN slots : slots[i].tag # "pointer"
    <3>1. ClassOop(Metaclass("GlobalContext")).tag # "pointer" /\ nil.tag # "pointer"
      BY WordFields DEF ClassOop, Word
    <3> QED BY <3>1
  <2> HIDE DEF context, slots
  <2> QED BY <2>1, <2>2, EmptySequence DEF ObjectOK, Known
<1> HIDE DEF context
<1>8. /\ Keeps(fresh, born) /\ Ready(born) /\ born.sp = fresh.sp /\ born.stack = fresh.stack
      /\ Known(born, Newest(born)) /\ SameBut(fresh, born, {"heap"})
  BY <1>6, <1>7, AllocateKeeps, AllocateFields
<1> HIDE DEF born
<1>9. /\ Layout(born, 1, OneFrame, OneScript) /\ born.framePointer = 3 /\ born.scripts = << >>
      /\ born.pc = 0 /\ DOMAIN born = Fields /\ born.sp = 7 /\ ~IsCompiled(born, 3)
  <2>1. Layout(born, 1, OneFrame, OneScript)
    BY <1>5, <1>8, LayoutKept
  <2>2. born.framePointer = 3 /\ born.scripts = << >> /\ born.pc = 0 /\ DOMAIN born = Fields
    BY <1>5, <1>8 DEF SameBut, Fields
  <2> QED BY <1>5, <1>8, <2>1, <2>2 DEF IsCompiled, MethodAt
<1>10. SameBut(born, p, {"scripts"}) /\ p.scripts = Append(<< >>, script)
  BY <1>9 DEF SameBut, Fields
<1> HIDE DEF p, script
<1>11. IsSequence(p.scripts) /\ Len(p.scripts) = 1 /\ p.scripts[1] = script
  <2>1. IsSequence(Append(<< >>, script)) /\ Len(Append(<< >>, script)) = Len(<< >>) + 1
        /\ Append(<< >>, script)[Len(<< >>) + 1] = script
    BY EmptySequence, SequenceAppend
  <2> QED BY <1>10, <2>1, EmptySequence
<1>12. VerifiedScript(ops)
  BY DEF Verified
<1> HIDE DEF ops
<1>13. Settled(p)
  BY <1>8, <1>9, <1>10, <1>11, <1>12, FirstScript DEF script
<1>14. p.sp <= MaxStack - StackMargin
  <2>1. p.sp = 7
    BY <1>9, <1>10 DEF SameBut, Fields
  <2> QED BY <2>1, StackAssumption DEF StackMargin
<1> QED BY <1>4, <1>13, <1>14

(***************************************************************************)
(* The inductive invariant.                                                *)
(***************************************************************************)
\* Every step but that of a machine that has stopped is one of a running machine,
\* and none changes the program.
LEMMA StepsRun ==
  ASSUME Bytecode \/ ScriptStep
  PROVE  machine.status = "running" /\ UNCHANGED <<program, compiled, expected>>
<1>1. \A p : Become(p) => UNCHANGED <<program, compiled, expected>>
  BY DEF Become
<1>2. CASE \/ interpretPushConstant \/ interpretPushLiteral \/ interpretPushReceiver
           \/ interpretPushLiteralVariable \/ interpretStoreLiteralVariable \/ interpretPushReceiverVariable
           \/ interpretStoreReceiverVariable \/ interpretPushTemporary \/ interpretStoreTemporalVariable
           \/ interpretPopStoreTemporalVariable
  BY <1>1, <1>2, Zenon
     DEF interpretPushConstant, interpretPushLiteral, interpretPushReceiver, interpretPushLiteralVariable,
         interpretStoreLiteralVariable, interpretPushReceiverVariable, interpretStoreReceiverVariable,
         interpretPushTemporary, interpretStoreTemporalVariable, interpretPopStoreTemporalVariable,
         Interprets, Running
<1>3. CASE \/ interpretPushTemporaryInVector \/ interpretStoreTemporalInVector
           \/ interpretPopStoreTemporalInVector \/ interpretPushNTemps \/ interpretPushArrayWithElements
           \/ interpretPushClosure \/ interpretPushThisContext \/ interpretDuplicateStackTop
           \/ interpretPopStackTop \/ interpretJump \/ interpretConditionalJump \/ interpretSend
  BY <1>1, <1>3, Zenon
     DEF interpretPushTemporaryInVector, interpretStoreTemporalInVector, interpretPopStoreTemporalInVector,
         interpretPushNTemps, interpretPushArrayWithElements, interpretPushClosure, interpretPushThisContext,
         interpretDuplicateStackTop, interpretPopStackTop, interpretJump, interpretConditionalJump,
         interpretSend, Interprets, Running
<1>4. CASE interpretSpecialMessage
  <2>1. Running
    BY <1>4, Zenon DEF interpretSpecialMessage, Interprets
  <2>2. \E p : Become(p)
    BY <1>4, SpecialMessageCases, Zenon
  <2> QED BY <1>1, <2>1, <2>2, Zenon DEF Running
<1>5. CASE \/ interpretReturn \/ interpretBlockReturn \/ interpretCallPrimitive \/ sendNativeMethodFailed
  BY <1>1, <1>5, Zenon
     DEF interpretReturn, interpretBlockReturn, interpretCallPrimitive, sendNativeMethodFailed, Interprets, Running
<1>6. CASE ScriptStep
  BY <1>1, <1>6, Zenon
     DEF ScriptStep, visitLiteralNode, visitSelfReference, visitIdentifierExpression, visitStatementEnd,
         visitCascade, visitMessageSendNode, visitUnimplemented, EndOfNestedScript, EndOfFile, EndOfMain,
         Visits, AtEndOfScript, InScript, Running
<1> QED BY <1>2, <1>3, <1>4, <1>5, <1>6, Zenon DEF Bytecode

\* A running machine is about to begin a step.
LEMMA StableGoing ==
  ASSUME Stable(machine), ~LeavesWords, machine.status = "running"
  PROVE  \E n, F, S : Going(machine, n, F, S)
<1>1. Settled(machine) /\ machine.sp <= MaxStack - StackMargin
  BY DEF Stable, LeavesWords
<1>2. PICK n \in Nat : \E F \in [1..n -> Nat], S \in [1..n -> Nat] : Layout(machine, n, F, S) /\ Balanced(machine, S[n])
  BY <1>1 DEF Settled
<1>3. PICK F \in [1..n -> Nat], S \in [1..n -> Nat] : Layout(machine, n, F, S) /\ Balanced(machine, S[n])
  BY <1>2
<1>4. Going(machine, n, F, S)
  BY <1>1, <1>3 DEF Going
<1> QED BY <1>4

\* A step lands, or main begins.
LEMMA StepLands ==
  ASSUME Verified, Stable(machine), ~LeavesWords, Bytecode \/ ScriptStep
  PROVE  Lands \/ Restarts
<1>1. PICK n, F, S : Going(machine, n, F, S)
  BY StepsRun, StableGoing
<1>2. CASE Bytecode
  BY <1>1, <1>2, BytecodeLands
<1>3. CASE ScriptStep /\ ~EndOfFile
  BY <1>1, <1>3, ScriptLands
<1>4. CASE EndOfFile
  BY <1>1, <1>4, EndOfFileAction
<1> QED BY <1>2, <1>3, <1>4

\* What is known of a machine does not depend on when the program is read.
LEMMA SettledPrimed ==
  ASSUME UNCHANGED compiled, UNCHANGED expected, Settled(machine')
  PROVE  Settled(machine)'
<1>1. PICK n \in Nat : \E F \in [1..n -> Nat], S \in [1..n -> Nat] :
                          Layout(machine', n, F, S) /\ Balanced(machine', S[n])
  BY DEF Settled
<1>2. PICK F \in [1..n -> Nat], S \in [1..n -> Nat] : Layout(machine', n, F, S) /\ Balanced(machine', S[n])
  BY <1>1
<1>3. /\ DataOK(machine') /\ FramesOK(machine', n, F, S) /\ ContextsOK(machine', n, F)
      /\ Current(machine', F[n])
  BY <1>2 DEF Layout
<1>4. (\A method : CodeOf(method)' = CodeOf(method)) /\ (\A method : MethodOf(method)' = MethodOf(method))
      /\ (\A method : DepthsOf(method)' = DepthsOf(method))
  BY DEF CodeOf, MethodOf, DepthsOf
<1>5. Methods' = Methods
  BY DEF Methods, Programmed, MethodOf
<1>6. \A method, pc, d : Reaches(method, pc, d) => Reaches(method, pc, d)'
  <2> SUFFICES ASSUME NEW method, NEW pc, NEW d, Reaches(method, pc, d) PROVE Reaches(method, pc, d)'
    OBVIOUS
  <2>1. CodeOf(method)' = CodeOf(method) /\ DepthsOf(method)' = DepthsOf(method)
    BY <1>4
  <2>2. FirstFrom(CodeOf(method), pc)' = FirstFrom(CodeOf(method), pc)
    BY <2>1
  <2> QED BY <2>1, <2>2 DEF Reaches
<1>7. \A method, receiver : Fits(machine', method, receiver) => Fits(machine, method, receiver)'
  BY DEF Fits, Stores, CodeOf, MethodOf
<1>8. HeapOK(machine)'
  <2>1. HeapOK(machine')
    BY <1>3 DEF DataOK
  <2>2. \A context, pc, d : RunsOn(machine', context, pc, d) => RunsOn(machine, context, pc, d)'
    BY <1>5, <1>6, <1>7 DEF RunsOn
  <2>3. ASSUME NEW i, i \in DOMAIN machine'.heap PROVE ObjectOK(machine, machine.heap[i])'
    <3>1. ObjectOK(machine', machine'.heap[i])
      BY <2>1, <2>3 DEF HeapOK
    <3> QED BY <2>2, <3>1 DEF ObjectOK, Known
  <2> QED BY <2>1, <2>3 DEF HeapOK
<1>9. ScriptsOK(machine)'
  <2>1. ScriptsOK(machine')
    BY <1>3 DEF DataOK
  <2> QED BY <2>1, <1>5 DEF ScriptsOK, ScriptOK, Known, VerifiedScript, VerifiedOp, Takes, MethodOf
<1>10. MethodDictOK(machine)'
  <2>1. MethodDictOK(machine')
    BY <1>3 DEF DataOK
  <2> QED BY <2>1, <1>5 DEF MethodDictOK, EntryOK, MethodOf
<1>11. DataOK(machine)'
  BY <1>3, <1>8, <1>9, <1>10 DEF DataOK, StackOK, GlobalsOK, Known
<1>12. FramesOK(machine, n, F, S)'
  <2>1. FramesOK(machine', n, F, S)
    BY <1>3
  <2>2. ASSUME NEW f, FrameOK(machine', f) PROVE FrameOK(machine, f)'
    <3>1. HasContextIn(MetaAt(machine', f)) => Married(machine, machine.stack[f + 3].value, f)'
      BY <2>2 DEF FrameOK, Married, MethodAt, MetaAt
    <3>2. IF IsCompiled(machine, f)'
          THEN /\ MethodAt(machine, f)' \in Methods'
               /\ Fits(machine, MethodAt(machine, f), machine.stack[f + ReceiverOffset])'
          ELSE ~HasContextIn(MetaAt(machine, f))'
      BY <1>5, <1>7, <2>2 DEF FrameOK, IsCompiled, MethodAt, MetaAt
    <3> QED BY <2>2, <3>1, <3>2 DEF FrameOK, MetaAt
  <2>3. ASSUME NEW f, NEW g, NEW s, Resumes(machine', f, g, s) PROVE Resumes(machine, f, g, s)'
    BY <1>6, <2>3 DEF Resumes, IsCompiled, MethodAt, Base, MetaAt, ScriptOperands, ScriptDepth
  <2>4. \A k \in 1..n : FrameOK(machine, F[k])'
    BY <2>1, <2>2 DEF FramesOK
  <2>5. \A k \in 2..n : Resumes(machine, F[k - 1], F[k], S[k - 1])'
    BY <2>1, <2>3 DEF FramesOK
  <2> QED BY <2>1, <2>4, <2>5 DEF FramesOK, IsCompiled, MethodAt, Base, MetaAt
<1>13. ContextsOK(machine, n, F)' /\ Current(machine, F[n])'
  BY <1>3 DEF ContextsOK, Current, MetaAt, MethodAt
<1>14. Balanced(machine, S[n])'
  BY <1>2 DEF Balanced, IsCompiled, MethodAt, ScriptOperands, ScriptDepth, DepthsOf, CodeOf, MethodOf
<1>15. Layout(machine, n, F, S)'
  BY <1>11, <1>12, <1>13 DEF Layout
<1> QED BY <1>14, <1>15 DEF Settled

\* No step changes what is verified.
LEMMA VerifiedPrimed ==
  ASSUME Verified, UNCHANGED compiled, UNCHANGED expected
  PROVE  Verified'
<1>1. Methods' = Methods
  BY DEF Methods, Programmed, MethodOf
<1>2. \A method : CodeOf(method)' = CodeOf(method) /\ DepthsOf(method)' = DepthsOf(method)
                  /\ MethodOf(method)' = MethodOf(method)
  BY DEF CodeOf, MethodOf, DepthsOf
<1>3. \A selector, count : Takes(selector, count) => Takes(selector, count)'
  BY <1>1, <1>2 DEF Takes
<1>4. \A method, pc, d : Reaches(method, pc, d) => Reaches(method, pc, d)'
  <2> SUFFICES ASSUME NEW method, NEW pc, NEW d, Reaches(method, pc, d) PROVE Reaches(method, pc, d)'
    OBVIOUS
  <2>1. CodeOf(method)' = CodeOf(method) /\ DepthsOf(method)' = DepthsOf(method)
    BY <1>2
  <2>2. FirstFrom(CodeOf(method), pc)' = FirstFrom(CodeOf(method), pc)
    BY <2>1
  <2> QED BY <2>1, <2>2 DEF Reaches
<1>5. ASSUME NEW method \in Methods' PROVE VerifiedMethod(method)'
  <2>1. VerifiedMethod(method)
    BY <1>1 DEF Verified
  <2>2. CodeOf(method)' = CodeOf(method) /\ DepthsOf(method)' = DepthsOf(method) /\ MethodOf(method)' = MethodOf(method)
    BY <1>2
  <2>3. ASSUME NEW i, VerifiedInstruction(method, i) PROVE VerifiedInstruction(method, i)'
    BY <1>3, <1>4, <2>2, <2>3 DEF VerifiedInstruction
  <2>4. Stores(method)' = Stores(method)
    BY <2>2 DEF Stores
  <2> QED BY <1>4, <2>1, <2>2, <2>3, <2>4 DEF VerifiedMethod
<1>6. \A ops : VerifiedScript(ops) => VerifiedScript(ops)'
  BY <1>3 DEF VerifiedScript, VerifiedOp
<1> QED BY <1>3, <1>5, <1>6 DEF Verified

\* The machine is settled in its frames, or it has stopped, or a native method
\* has failed.
Sound == Verified /\ Stable(machine)

\* The invariant holds initially.
LEMMA SoundInitially == Verified /\ Starts => Sound
BY StartedSettled DEF Starts, Sound, Stable

\* Each step preserves it.
LEMMA SoundNext ==
  ASSUME Sound, ~LeavesWords, [Next]_vars
  PROVE  Sound'
<1>1. UNCHANGED <<compiled, expected>>
  BY StepsRun DEF Next, Halted, vars
<1>2. Stable(machine')
  <2>1. CASE Bytecode \/ ScriptStep
    BY <2>1, StepLands, LandsStable, RestartsStable DEF Sound
  <2>2. CASE UNCHANGED vars
    BY <2>2 DEF Sound, Stable, vars
  <2> QED BY <2>1, <2>2 DEF Next, Halted
<1>3. Verified'
  BY <1>1, VerifiedPrimed DEF Sound
<1>4. Stable(machine)'
  <2>1. Settled(machine') => Settled(machine)'
    BY <1>1, SettledPrimed
  <2> QED BY <1>2, <2>1 DEF Stable
<1> QED BY <1>3, <1>4 DEF Sound

\* It holds throughout every verified program.
LEMMA Soundness == VerifiedSpec => []Sound
<1>1. Verified /\ Starts => Sound
  BY SoundInitially
<1>2. Sound /\ ~LeavesWords /\ [Next]_vars => Sound'
  BY SoundNext
<1> QED BY <1>1, <1>2, PTL DEF VerifiedSpec

(***************************************************************************)
(* What is owed to the programs.                                           *)
(***************************************************************************)
\* What the invariant says of a machine that runs.
LEMMA SoundGoing ==
  ASSUME Sound, ~LeavesWords, Running
  PROVE  \E n, F, S : Going(machine, n, F, S)
BY StableGoing DEF Sound, Running

\* For every verified program: whenever an instruction begins, the frame holds as
\* many operands as the instruction was generated for.
THEOREM StackBalance == VerifiedSpec => []StackIsBalanced
<1>1. ASSUME Sound, ~LeavesWords PROVE StackIsBalanced
  <2> SUFFICES ASSUME InBytecode
               PROVE  machine.sp = machine.framePointer + ReceiverOffset + DepthsOf(machine.method)[machine.pc]
    BY DEF StackIsBalanced
  <2>1. PICK n, F, S : Going(machine, n, F, S)
    BY <1>1, SoundGoing DEF InBytecode
  <2>2. Balanced(machine, S[n]) /\ machine.pc # 0
    BY <2>1 DEF Going, InBytecode
  <2> QED BY <2>2 DEF Balanced
<1>2. Sound /\ ~LeavesWords => StackIsBalanced
  BY <1>1
<1> QED BY <1>2, Soundness, PTL DEF VerifiedSpec

\* For every verified program: the interpreter's copies of the frame's data are
\* those of the frame it is in.
THEOREM FrameData == VerifiedSpec => []FrameDataIsCurrent
<1>1. ASSUME Sound, ~LeavesWords PROVE FrameDataIsCurrent
  <2> SUFFICES ASSUME InBytecode
               PROVE  LET meta == machine.stack[machine.framePointer + 2] IN
                      /\ machine.argumentCount = ArgumentsIn(meta)
                      /\ machine.isBlock = BlockIn(meta)
                      /\ machine.method = machine.stack[machine.framePointer + 1]
    BY DEF FrameDataIsCurrent
  <2>1. PICK n, F, S : Going(machine, n, F, S)
    BY <1>1, SoundGoing DEF InBytecode
  <2>2. Layout(machine, n, F, S)
    BY <2>1 DEF Going
  <2> QED BY <2>2, FrameRead DEF MetaAt, MethodAt
<1>2. Sound /\ ~LeavesWords => FrameDataIsCurrent
  BY <1>1
<1> QED BY <1>2, Soundness, PTL DEF VerifiedSpec

\* For every verified program: a script finds its own frame with one value for
\* the message that it has sent.
THEOREM ScriptFrames == VerifiedSpec => []ScriptsGetTheirFrameBack
<1>1. ASSUME Sound, ~LeavesWords PROVE ScriptsGetTheirFrameBack
  <2> SUFFICES ASSUME Running, machine.pc = 0, Len(machine.scripts) = 1
               PROVE  machine.framePointer = 3 /\ machine.sp = 7 + ScriptDepth(machine.scripts[1])
    BY DEF ScriptsGetTheirFrameBack
  <2>1. PICK n, F, S : Going(machine, n, F, S)
    BY <1>1, SoundGoing
  <2>2. n = 1 /\ F[1] = 3
    BY <2>1, AtTerminalFrame
  <2>3. machine.framePointer = 3
    BY <2>1, <2>2, GoingFacts
  <2>4. /\ machine.sp = machine.framePointer + 4 + ScriptOperands(machine, machine.framePointer, 1)
        /\ ScriptDepth(machine.scripts[1]) \in Nat
    BY <2>1, ScriptFacts
  <2>5. ScriptOperands(machine, machine.framePointer, 1) = ScriptDepth(machine.scripts[1])
    BY <2>3, <2>4 DEF ScriptOperands
  <2> QED BY <2>3, <2>4, <2>5
<1>2. Sound /\ ~LeavesWords => ScriptsGetTheirFrameBack
  BY <1>1
<1> QED BY <1>2, Soundness, PTL DEF VerifiedSpec

\* For every verified program: no step changes the words below the receiver of
\* the frame it runs in.
THEOREM CallersStay == VerifiedSpec => CallersAreUntouched
<1> DEFINE Owed == machine'.phase = machine.phase =>
                     \A i \in 1..machine.framePointer - 3 - ArgumentCount(machine) :
                        machine'.stack[i] = machine.stack[i]
<1>1. ASSUME Sound, ~LeavesWords, ~LeavesWords', [Next]_vars PROVE Owed \/ UNCHANGED vars
  <2>1. CASE Bytecode \/ ScriptStep
    <3>1. Lands \/ Restarts
      BY <1>1, <2>1, StepLands DEF Sound
    <3>2. CASE Restarts
      BY <3>2, RestartsStable
    <3>3. CASE Lands
      <4>1. ~machine'.nativeFailed
        BY <1>1 DEF LeavesWords
      <4>2. Untouched(machine, machine')
        BY <3>3, <4>1, LandsStable
      <4>3. PICK n, F, S : Going(machine, n, F, S)
        BY <1>1, <2>1, StepsRun, SoundGoing DEF Running
      <4>4. machine.argumentCount = ArgumentCount(machine)
        BY <4>3, GoingFacts, FrameRead DEF ArgumentCount, MetaAt
      <4> QED BY <4>2, <4>4 DEF Untouched
    <3> QED BY <3>1, <3>2, <3>3
  <2>2. CASE UNCHANGED vars
    BY <2>2
  <2> QED BY <1>1, <2>1, <2>2 DEF Next, Halted
<1>2. Sound /\ ~LeavesWords /\ ~LeavesWords' /\ [Next]_vars
        => [expected.supported /\ machine'.phase = machine.phase =>
              \A i \in 1..machine.framePointer - 3 - ArgumentCount(machine) :
                 machine'.stack[i] = machine.stack[i]]_vars
  BY <1>1
<1> QED BY <1>2, Soundness, PTL DEF VerifiedSpec, CallersAreUntouched

\* The frame pointers that the chain of frames goes through exist: for each
\* number of steps there is a function, and that for all of them is Callers.
LEMMA CallersStep ==
  /\ Callers[0] = machine.framePointer
  /\ \A j \in 1..MaxStack :
       Callers[j] = IF Callers[j - 1] = 0 THEN 0 ELSE machine.stack[Callers[j - 1]].value
<1> DEFINE Value(f, j) == IF j = 0 THEN machine.framePointer
                          ELSE IF f[j - 1] = 0 THEN 0 ELSE machine.stack[f[j - 1]].value
           Good(f, n) == f = [j \in 0..n |-> Value(f, j)]
           N == {n \in Nat : \E f : Good(f, n)}
<1>1. 0 \in N
  <2> DEFINE f == [j \in 0..0 |-> machine.framePointer]
  <2>1. Good(f, 0)
    OBVIOUS
  <2> QED BY <2>1
<1>2. ASSUME NEW n \in N PROVE n + 1 \in N
  <2>1. PICK f : Good(f, n)
    OBVIOUS
  <2> DEFINE g == [j \in 0..n + 1 |-> IF j = n + 1 THEN Value(f, n + 1) ELSE f[j]]
  <2>2. Good(g, n + 1)
    <3>1. \A j \in 0..n : f[j] = Value(f, j)
      BY <2>1
    <3>2. \A j \in 0..n + 1 : g[j] = Value(g, j)
      BY <3>1
    <3> QED BY <3>2
  <2> HIDE DEF Good
  <2> QED BY <2>2
<1>3. N = Nat
  <2> HIDE DEF N
  <2>1. N \in SUBSET Nat
    BY DEF N
  <2> QED BY <1>1, <1>2, <2>1, SetInduction
<1>4. PICK f : Good(f, MaxStack)
  BY <1>3, StackAssumption
<1>5. Callers = CHOOSE g : Good(g, MaxStack)
  BY Zenon DEF Callers
<1>6. Good(Callers, MaxStack)
  <2> HIDE DEF Good
  <2> QED BY <1>4, <1>5, Zenon
<1>7. \A j \in 0..MaxStack : Callers[j] = Value(Callers, j)
  BY <1>6
<1> QED BY <1>7, StackAssumption

\* There are fewer frames than words of the stack.
LEMMA FrameNumber ==
  ASSUME NEW m, NEW n, NEW F, NEW S, FramesOK(m, n, F, S)
  PROVE  n <= MaxStack
<1>1. /\ n \in Nat \ {0} /\ \A k \in 1..n : F[k] \in Nat /\ 3 <= F[k] /\ F[k] + 4 <= MaxStack
      /\ \A k \in 1..n : \A j \in 1..k - 1 : F[j] + 7 <= F[k]
  <2>1. /\ n \in Nat \ {0} /\ \A k \in 1..n : F[k] \in Nat /\ 3 <= F[k] /\ F[k] + 4 <= MaxStack
        /\ \A k \in 1..n : \A j \in 1..k - 1 : F[j] + 4 <= Base(m, F[k]) /\ Base(m, F[k]) <= F[k] - 3
        /\ \A k \in 1..n : /\ ArgumentsIn(MetaAt(m, F[k])) \in 0..255
                           /\ Base(m, F[k]) = F[k] - 3 - ArgumentsIn(MetaAt(m, F[k]))
    BY FramePlaces
  <2>2. ASSUME NEW k \in 1..n, NEW j \in 1..k - 1 PROVE F[j] + 7 <= F[k]
    <3>1. j \in 1..n /\ F[j] \in Nat /\ F[k] \in Nat
      BY <2>1
    <3>2. Base(m, F[k]) \in Int
      BY <2>1, <3>1
    <3> QED BY <2>1, <3>1, <3>2
  <2> QED BY <2>1, <2>2
<1> DEFINE N == {k \in Nat : k + 1 \in 1..n => k + 1 <= F[k + 1]}
<1>2. 0 \in N
  BY <1>1
<1>3. ASSUME NEW k \in N PROVE k + 1 \in N
  <2> SUFFICES ASSUME (k + 1) + 1 \in 1..n PROVE (k + 1) + 1 <= F[(k + 1) + 1]
    OBVIOUS
  <2>1. k + 1 \in 1..n /\ k + 1 \in 1..((k + 1) + 1) - 1
    BY <1>1
  <2>2. k + 1 <= F[k + 1] /\ F[k + 1] \in Nat /\ F[(k + 1) + 1] \in Nat /\ F[k + 1] + 7 <= F[(k + 1) + 1]
    BY <1>1, <2>1
  <2> QED BY <2>2
<1>4. N = Nat
  <2> HIDE DEF N
  <2>1. N \in SUBSET Nat
    BY DEF N
  <2> QED BY <1>2, <1>3, <2>1, SetInduction
<1>5. n - 1 \in N /\ (n - 1) + 1 = n /\ n \in 1..n
  BY <1>1, <1>4
<1>6. n <= F[n] /\ F[n] \in Nat /\ F[n] + 4 <= MaxStack
  BY <1>1, <1>5
<1> QED BY <1>1, <1>6, StackAssumption

\* The chain of frames goes through all of them.
LEMMA CallersAre ==
  ASSUME NEW n, NEW F, NEW S, Layout(machine, n, F, S)
  PROVE  \A k \in 1..n : F[k] \in ActiveFrames
<1>1. FramesOK(machine, n, F, S) /\ machine.framePointer = F[n]
  BY DEF Layout, Current
<1>2. /\ n \in Nat \ {0} /\ n <= MaxStack /\ MaxStack \in Nat
      /\ \A k \in 1..n : F[k] \in Nat /\ 3 <= F[k]
  BY <1>1, FramePlaces, FrameNumber, StackAssumption
<1>3. \A k \in 2..n : machine.stack[F[k]].value = F[k - 1]
  <2>1. \A k \in 2..n : machine.stack[F[k]] = Raw(F[k - 1])
    BY <1>1 DEF FramesOK, Resumes
  <2>2. \A f : Raw(f).value = f
    BY DEF Raw, Word
  <2> QED BY <2>1, <2>2, Zenon
<1> DEFINE N == {j \in Nat : j <= n - 1 => Callers[j] = F[n - j]}
<1>4. 0 \in N
  BY <1>1, <1>2, CallersStep
<1>5. ASSUME NEW j \in N PROVE j + 1 \in N
  <2> SUFFICES ASSUME j + 1 <= n - 1 PROVE Callers[j + 1] = F[n - (j + 1)]
    OBVIOUS
  <2>1. /\ j + 1 \in 1..MaxStack /\ (j + 1) - 1 = j /\ n - j \in 2..n /\ n - j \in 1..n
        /\ (n - j) - 1 = n - (j + 1)
    BY <1>2
  <2>2. Callers[j] = F[n - j]
    BY <1>2
  <2>3. F[n - j] # 0 /\ machine.stack[F[n - j]].value = F[n - (j + 1)]
    BY <1>2, <1>3, <2>1
  <2>4. Callers[j + 1] = IF Callers[j] = 0 THEN 0 ELSE machine.stack[Callers[j]].value
    BY <2>1, CallersStep
  <2> QED BY <2>2, <2>3, <2>4
<1>6. N = Nat
  <2> HIDE DEF N
  <2>1. N \in SUBSET Nat
    BY DEF N
  <2> QED BY <1>4, <1>5, <2>1, SetInduction
<1> SUFFICES ASSUME NEW k \in 1..n PROVE F[k] \in ActiveFrames
  OBVIOUS
<1>7. n - k \in Nat /\ n - k <= n - 1 /\ n - k \in 0..MaxStack /\ n - (n - k) = k
  BY <1>2
<1>8. Callers[n - k] = F[k]
  <2>1. n - k \in N
    BY <1>6, <1>7
  <2> QED BY <1>7, <2>1
<1>9. F[k] # 0
  BY <1>2
<1> QED BY <1>7, <1>8, <1>9 DEF ActiveFrames

\* For every verified program: a context that points at a frame points at one
\* that is still active, and that frame points back at it.
THEOREM Contexts == VerifiedSpec => []ContextsKnowTheirFrames
<1>1. ASSUME Sound, ~LeavesWords PROVE ContextsKnowTheirFrames
  <2> SUFFICES ASSUME Running, NEW i \in DOMAIN machine.heap,
                      machine.heap[i].class = "Context", machine.heap[i].slots[1].tag = "raw"
               PROVE  LET fp == machine.heap[i].slots[1].value - 1 IN
                      /\ fp \in ActiveFrames
                      /\ machine.stack[fp + 3] = Pointer(i)
                      /\ HasContextIn(machine.stack[fp + 2])
    BY DEF ContextsKnowTheirFrames
  <2>1. PICK n, F, S : Going(machine, n, F, S)
    BY <1>1, SoundGoing
  <2>2. Layout(machine, n, F, S)
    BY <2>1, GoingFacts
  <2>3. PICK k \in 1..n : /\ machine.heap[i].slots[1].value = F[k] + 1
                          /\ machine.stack[F[k] + 3] = Pointer(i)
                          /\ HasContextIn(MetaAt(machine, F[k]))
    BY <2>2 DEF Layout, ContextsOK
  <2>4. F[k] \in ActiveFrames /\ F[k] \in Nat
    BY <2>2, CallersAre, FramePlaces DEF Layout
  <2>5. machine.heap[i].slots[1].value - 1 = F[k]
    BY <2>3, <2>4
  <2> QED BY <2>3, <2>4, <2>5 DEF MetaAt
<1>2. Sound /\ ~LeavesWords => ContextsKnowTheirFrames
  BY <1>1
<1> QED BY <1>2, Soundness, PTL DEF VerifiedSpec

=============================================================================
