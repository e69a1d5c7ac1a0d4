# A verification development for the Lodtalk virtual machine

Lodtalk is a small Smalltalk system: a C++ virtual machine (`src/vm`,
`src/include/Lodtalk`) that parses and compiles Smalltalk source to the SistaV1
bytecode set and interprets it, and a runtime library written in Lodtalk
(`src/runtime`). This directory holds TLA+ models of the parts of the machine
in which something can go wrong that a test would hardly reach, the TLC runs
that check them on small instances, and proofs, checked by TLAPS, of what
matters most for every instance.

- Part 1: the inventory of the system
- Part 2: the modules, and how they correspond to the code
- Part 3: the runs, what they show, and their bounds
- Part 4: fairness
- Part 5: what is proved, from what, and how
- Part 6: what the models found
- Part 7: what is not modelled, and why
- Part 8: the plan

Definitions carry the names of the functions they model; `PROJECT.json` maps
each of them to its lines. A definition whose comment begins with "Faulty
variant" is not part of a model: it is a plausible mistake in the definition
that follows it, and takes its place in a test of the properties.

## 1. Inventory

| Component | State | Operations | Talks to | What is hard | Correct when |
|---|---|---|---|---|---|
| `VMHeap` (`MemoryManager.cpp`) | address, size and capacity of the heap, collection threshold | initialize, allocate | collector | growth by pages, the threshold | the heap is a sequence of objects without holes |
| `GarbageCollector` (`MemoryManager.cpp`) | root arrays, list of `OopRef`s, stack memories, disable count, queued request | allocate, register and unregister roots, disable and enable, safe point, perform collection | every component that holds an Oop | three passes over memory that is being overwritten; weak references; references from native code; collections only at safe points | nothing reachable is freed or changed, nothing dangles, plain Oops survive `WithoutGC` scopes |
| `ClassTable` (`MemoryManager.cpp`) | pages of entries, size | registerClass, getClassFromIndex, addSpecialClass | `SharedMutex`, every object header | concurrent growth and lookup | an object finds its class |
| `SharedMutex` (`Synchronization.hpp`) | two counters, two condition variables | read and write lock and unlock | class table | lost wake-ups, the assertions | exclusion, no wake-up is lost |
| `StackMemory` and `StackPage` (`StackMemory.*`) | 16 pages in a list of used ones and a stack of free ones | allocate a page, free it, overflow, divorce, walk frames | interpreter, collector | the pool runs out in the middle of a call; one activation is a frame, a married or a divorced context | one stack of activations, whatever page its frames are on |
| `Context` (`Method.hpp`) | sender, pc, closure, receiver, slots | marry, widow, divorce | stack memory, reflection in Smalltalk | stale frame pointers | a context names its own frame or none |
| `StackInterpreter` | pc, frame and stack pointers, extension registers, next opcode | fetch, the bytecodes, activation, returns, native methods | all | prefetch of opcodes, safe points inside of bytecodes, integer overflow | executes what was compiled |
| `HashedCollection`, `MethodDictionary`, `IdentityDictionary` (`Collections.hpp`) | table, tally | search, insert, grow | lookup, globals, compiled methods | collisions, growth in the middle of an insertion, nil as a key | a map; associations keep their identity |
| `Assembler` (`MethodBuilder.*`) | instruction stream, literals, positions and sizes | add instructions and labels, compute sizes, generate | compiler, interpreter | the size of a jump depends on the sizes of the instructions it skips | the bytes mean what was assembled |
| Bytecode tables (`SistaV1BytecodeSet.inc`, `BytecodeSets.hpp`) | none | none | assembler, interpreter | two readers of one table | writer and reader agree |
| `Compiler` (`Compiler.cpp`, `AST.*`) | scopes, captured variables | semantic analysis, code generation | assembler, globals | temporaries captured by blocks; inlined control structures | the code computes what the source says |
| Scanner and parser (`Parser.y`, `Scanner.l`) | none that lasts | parse | compiler | nothing that is hard here | - |
| Numbers and the object model (`ObjectModel.*`, `Math.hpp`, `Object.cpp`) | none | tagging, arithmetic, lookup | interpreter | widths, signs of quotients, tags | arithmetic agrees with Smalltalk's |
| `VMContext`, class factories, special objects | the context of a virtual machine | start-up, globals | all | definition of globals from two sides | one value per global |
| Input and output, files, exceptions | none | calls of the operating system | natives | - | - |
| Runtime in Lodtalk (`src/runtime`) | - | - | interpreter | `at:put:` of the global dictionary is the other half of a component in C++ | see globals |

The application runs one interpreter on one thread. The interface is made for
threads (a shared mutex around the class table, stack memories per thread), so
the class table is modelled with several threads, and the heap with one mutator
as the collector has no means to stop others. The build that the repository
configures by default is a debug build: assertions are on, and a failed one ends
the process.

`PROJECT.json` lists the hazards of this code with the lines where they bite and
the properties that would catch them.

## 2. Modules

### Memory: `ObjectGraph`, `GarbageCollector`, `GarbageCollectorProofs`

`ObjectGraph` is what the memory manager promises: a graph of objects named by
identities that never change. A collection keeps exactly what the roots reach
through strong references and turns weak references to what it frees into nil.

`GarbageCollector` is the heap as `MemoryManager.cpp` has it. `heap` maps the
address of an object to its header and slots; the words of memory that hold no
header are not represented one by one, but every address, size and pointer is a
number of words, and moving an object destroys whatever it is moved over.
A program allocates, loads, stores, drops references, creates and destroys
`OopRef`s, opens and closes `WithoutGC` scopes and holds plain Oops inside of
them (`Allocate` to `HoldRaw`). A collection is taken step by step, as the loops
of the code go: `markObject` for an Oop that is to be visited, `ComputeForwarding`
for an object of the first pass, `UpdatePointers` for the second pass,
`MoveObject` for an object of the third. `root` stands for all the places that
`onRootsDo` visits, static ones and `OopRef`s. The native `nil` stands for the
objects outside of the heap, which have a color too.

`id` in an object and `before` are history: they name the object for the
refinement `GraphSpec`, and the code has no such fields.

### Threads: `SharedMutex`, `ClassTable`, `ClassTableProofs`

Every operation of `SharedMutex` runs under a `std::mutex` and is one step; a
thread that waits gives the mutex up, sleeps, and starts the loop over when it
is notified (or without being notified, as condition variables allow).
`ClassTable` gives each thread the calls of `registerClass` and
`getClassFromIndex`, one step for each access to shared memory. A class can be
instantiated as soon as its index is in it, which is before `size` counts its
entry: a lookup has to wait for the writer's lock, so it never sees the table in
between, and `InstancesKnowTheirClass` holds.

### The stack: `CallStack`, `StackMemory`, `StackMemoryProofs`

`CallStack` is one stack of activations with a capacity. `StackMemory` has the
pages, the pool, the contexts, and the calls and returns of the interpreter:
`Call` is `activateMethodFrame` with the overflow that it may cause,
`localReturnValue`, `baseReturnValue` and `makeBaseFrame` are the three ways to
return. A frame is named by its page and its position there; its words are
counted, as the overflow depends on them, and its temporaries and operands are
one value. `deep` is history: it is set when the program has gone deeper than
the pool can hold, the only case in which the code may abort
(`makeBaseFrame` is not implemented).

### Hash tables: `HashedCollection`, `MethodTable`, `MethodDictionary`, `GlobalDictionary` (and proofs)

`HashedCollection` is the search, the insertion and the growth of the tables of
`Collections.hpp`, as operators on a table and its tally. `MethodDictionary`
keeps two parallel arrays (keys and methods) and is shown to implement
`MethodTable`, a map from selectors to methods; `GlobalDictionary` keeps
associations, which have an identity that compiled methods hold on to. Hashes
are constants chosen to collide.

### Code: `Bytecodes`, `Assembler`, `AssemblerProofs`

`Bytecodes` has no state: the instructions, their sizes (`computeMaxSize`,
`computeBetterSize`), the bytes they are encoded to (`encode`), and what the
interpreter makes of these bytes (`Decode`, with `fetchByte` and `fetchSByte`).
The encoder is translated from `MethodBuilder.cpp` and the decoder from
`StackInterpreter.cpp`; the two share nothing but the opcodes.

`Assembler` is `Assembler::generate`: the pass over the maximal sizes, the loop
over better ones, the encoding. A label is an index into the instruction stream.
A step of the model is one iteration of one of the loops, so that the state in
the middle of a pass, with half of the positions new and half of them old, is a
state of the model. An instruction that the code does not implement, and an
operand that would need an extension prefix, end in `abort`, as they do in the
code.

### Programs: `Oops`, `Syntax`, `Classes`, `Image`, `Compiler`, `Interpreter`, `Loader`

These modules take a program from its syntax tree to its answer, along the way
of the code. `Compiler` walks trees by recursion; `Interpreter` does not, and is
proved about in `FramesProofs`.

- `Oops` has the words the machine computes with, by tag and value, in a width
  `WordBits`, and the arithmetic on them: the special messages of the interpreter
  (`SpecialMessageAdd` and so on; a product that leaves the word sends a message, any
  other result that does not fit beside the tag loses its upper bits, as it does in the
  code),
  the native methods of `SmallInteger` and `Float`, the two rounding divisions of
  `Math.hpp`. A float counts quarters.
- `Syntax` has the nodes of `AST.cpp`.
- `Classes` is what `Behavior` knows of a class by walking up its superclasses: the
  lineage in which a selector is looked up, and the number of instance variables.
- `Compiler` is `Compiler.cpp`. `Analyze` is `MethodSemanticAnalysis`: which variable
  a name is, which messages are inlined with which blocks, and which variables a
  block captures. `Generate` is `MethodCompiler`: the place of each variable
  (`BlockPlaces`, `MethodPlaces`, `NewVector`), the code of blocks, assignments,
  cascades and of the control structures that are inlined. An instruction is one
  element of a sequence; jumps and closures count instructions, as `Assembler` has
  shown what bytes make of such distances.
- `Image` has the class hierarchy, the instance variables and the native methods
  that the factories register before any program runs.
- `Interpreter` is `StackInterpreter.cpp` with the parts of `Object.cpp`, the native
  methods of `ScriptContext` and `ASTInterpreter` (scripts are executed from their
  trees, methods from their bytecode). `machine` has the registers, one stack, the
  objects and the method dictionaries. A frame is the words that the code pushes:
  return pc, frame pointer, method, frame data, context, receiver, temporaries and
  operands; nothing but the code of the bytecodes keeps them apart. Each bytecode
  that the compiler emits is an action, and so is each visit of a script. Native
  methods that enter the interpreter again do so by pushing a script on
  `machine.scripts`. What the code does by an assertion, by `abort` or by a fault is
  a status of the machine that nothing leaves.
- `Loader` is what happens to the source before it runs: `compileMethod` for every
  class that a method may be installed in, and the operations of the scripts.

### Verified programs: `Frames`, `FramesProofs`

`Frames` states what the interpreter owes to the code it runs, whoever has generated
it. `expected.depths` says for each method how many operands there are in front of
each instruction that can be reached, and `Verified` is what a verifier of bytecodes
would test with it: an instruction finds the operands that it takes and goes on only
where as many are expected (`VerifiedInstruction`), a method begins with its
temporaries (`VerifiedMethod`), a script sends with as many arguments as it has
pushed (`VerifiedScript`), and a selector is sent with as many arguments as the
methods for it take (`Takes`). The code has no such verifier: `Verified` is the
contract between `Compiler.cpp` and `StackInterpreter.cpp` that neither of them states.
The properties of frames, operands and contexts are stated here, and `FramesProofs`
proves them for every program that fulfils the contract.

### Meaning: `Evaluator`, `Execution`, `SourcePrograms`, `MCInterpreter`

`Evaluator` is the abstract specification of a program: it evaluates the syntax tree
over a store of variables, cells and closures. It has neither frames nor
instructions, its numbers are integers without tags or width, and its division is
the mathematical one. `Execution` states what the compiler and the interpreter owe
to a program that has a meaning, and composes all of the above in `Spec`.
`SourcePrograms` builds the programs of the run: a few dozen templates (variables
captured at several depths, loops, nested blocks, cascades, primitives, instance
variables, scripts that execute scripts, messages that are not understood) filled
with all combinations of messages and small operands.

A program is compared only if it is *supported*: it has a meaning, its scripts
install the methods they define, and it has none of the constructs that the
code is known to translate or compute wrongly. These are named, so that a reader
can see what the properties do not say:

- in `Execution`: an inlined block without statements (`EmptyInlinedBlock`), a block
  whose own argument is captured (`CapturedBlockArgument`), a local beyond its frame
  (`LocalBeyondFrame`), a closure that copies two values (`CopiesTwoValues`), a name
  declared twice (`DeclaresTwice`, an error of the compiler);
- in `Evaluator`: the quotient of a non-negative by a negative number
  (`WrongQuotient`), products with zero, small floats that are zero, results that
  are no small integers (`NoNumber`: the code tests them against the limits of the word
  and loses the bits that do not fit beside the tag, which no property here sees), shifts to the right by a word or more, `ifNil:` on an
  object that is not nil (the code answers nil), loops whose body is no block,
  returns out of blocks (not implemented), messages to super (not
  implemented), the native methods `at:` and `at:put:` (they always fail) and the
  comparisons of `Float` as native methods (they answer floats).

The machine executes the other programs too: `TypeOK` and `FrameDataIsCurrent` are
stated for all of them.

## 3. Runs

| Run | Checks | Instance, and why it is enough |
|---|---|---|
| `gc` | `TypeOK`, `WalkOnObjects`, `NothingReachableCondemned`, `NoDangling`, `AllWhiteBetweenCollections`, `RawOopsStable`, `GraphSpec`, `CollectionEnds` | three objects of two sizes in a heap of six words and pages of three, a static root and an `OopRef`, nested `WithoutGC` scopes up to two deep, requests at any time: cycles, weak references to live and to condemned objects, a heap with a hole before, between and behind live objects, a move that overlaps its source; no object has a slot count word, which is what `gc_big` is for |
| `gc_big` | `RootsForwarded`, violated | objects with a slot count word, which the code has from 255 slots on, from two slots on here |
| `stack` | `TypeOK`, `PoolIntact`, `NoOverrun`, `MarriedToTheirFrames`, `CallStackSpec` | two pages of six words, frames of one and two words and six activations: a page holds two to four frames, overflows at different depths, and the second page that is divorced makes a chain of contexts; temporaries and operands have one value, so that lost ones are seen by the theorem `PagesImplementCallStack` only, which is for any `Values` |
| `classtable` | `TypeOK`, `Exclusive`, `NoLostWakeup`, `InstancesKnowTheirClass` | three threads (a reader and a writer that wait for a third), pages of two entries so that a registration needs a page |
| `mutex_assertions` | `AssertionsHold`, violated | the same |
| `methods` | `TypeOK`, `NeverFull`, `SendsAreUnderstood`, `MethodTableSpec` | three selectors that collide, one chain that wraps around, tables that grow twice, a class and its superclass |
| `globals` | `TypeOK`, `OneValuePerGlobal`, `AssociationsStay` | three globals that collide, defined by the embedding program at start-up and by Smalltalk code |
| `globals_late` | `OneValuePerGlobal`, violated | the embedding program defines globals later too |
| `assembler` | `TypeOK`, `LayoutIsSettled`, `CodeFits`, `ReadsBack`, `BranchesLand`, `GenerateEnds` | branches, loops and blocks, alone and nested, with lengths at and around every distance at which a jump changes size (0, 1, 8, 9, 127, 128, 256), and all operands at the boundaries of the forms of their instructions |
| `assembler_documented` | `JumpsLandAsDocumented`, violated | an if with branches of 6, 120 and 130 bytes |
| `execution` | `TypeOK`, `AnswersAreRight`, `StackIsBalanced`, `FrameDataIsCurrent`, `ScriptsGetTheirFrameBack`, `ContextsKnowTheirFrames`, `SupportedProgramsAreVerified`, `CallersAreUntouched`, `ProgramsFinish` | 3286 programs, about 2300 of them supported; words of eight bits, so that small integers have seven and sums, differences, products, quotients and shifts overflow for some operands (these programs run, and `AnswersAreRight` leaves them out); up to three frames and two nested scripts |
| `execution_assertions` | `VectorsAreArrays`, violated | one program, in which a block captures the argument of another one |

The counters that the code lets grow without end are capped in guards:
`MaxCapacity` (the address space reserved for the heap), `MaxDisable` (nesting
of `WithoutGC`), `MaxSize` (entries of the class table), `MaxAssociations`,
`MaxCapacity` of the method dictionaries, the sets `Ids` and `Acts` (objects and
activations that exist at the same time), `MaxStack` and `MaxHeap` (words of the
stack, the last `StackMargin` of them kept free for one step, and objects of a
program: one that reaches them is "bounded", and no supported one does, by
`ProgramsFinish`), `Fuel` (sends and iterations of the evaluator, after which a
program has no meaning). The assembler needs no bound: it is
checked on a finite set of streams, to the end of each.

`CHECK_DEADLOCK FALSE` stands where a behaviour has an end: the process has
aborted or an assertion has failed (`StackMemory`, `ClassTable`), a table may not
grow any more (`methods`), the method is generated (`Assembler`).

## 4. Fairness

`CollectionEnds` is checked under `FairSpec`: weak fairness of `CollectorStep`.
The collector is sequential code on the thread that has called it; once it is
entered it runs, and nothing in it waits. `GenerateEnds` is checked under weak
fairness of `generate`, for the same reason. `ProgramsFinish` is checked under
`GoesOn`, which is the weak fairness of the steps of the machine: the interpreter
is a loop on one thread that waits for nothing. (It is written with `Running` in
place of `ENABLED`: the two agree, as a machine that runs and has no step would be a
deadlock, which the run looks for.) No other property needs fairness.
`NoLostWakeup` states as an invariant what the liveness of the mutex depends on:
a thread is asleep only while there is another one that is going to wake it.

## 5. Proofs

Eight modules, one or two for each component that is proved about, hold the
theorems and lemmas. Three of them begin with facts about natural numbers (`LeastNatural`,
`SetInduction`): the library's induction
theorems take an operator and cannot be used here, so an induction is stated over the
set of the numbers for which the claim holds. The theorems have the form `Spec => []Inv` (or of an action
property, `Spec => [][A]_vars`), each from an inductive invariant that TLC has
checked as well.

**`GarbageCollectorProofs`** (seven theorems: `TypeCorrect`, `WalksStayOnObjects`,
`MarkingIsComplete`, `NothingDangles`, `CollectionsLeaveAllWhite`,
`RawOopsAreStable`, `HeapImplementsGraph`), for any heap, any objects, any roots,
under the assumption `SmallObjects`: no object has a slot count word. Without it
they are false, see run `gc_big`. The invariant says that the heap is tiled by
objects from 0 to `size`; that between collections every pointer is to an
object; that while marking every child of a black object is black or pending;
that the forwarding pointers computed so far are the addresses of a tiling of
the live objects, each at or below its object, in the same order; that after the
second pass every pointer is the forwarding pointer of a live object; and that in
the third pass the heap below `live` is a prefix of the new tiling and the rest
is the old one. The invariant is needed in this strength because a move may
overlap its own source: what is not destroyed follows from the order of the
destinations only.

`HeapImplementsGraph` is the refinement `Spec => GraphSpec`: under the mapping to
`GraphOf` between collections and to the graph at the start during one, every step is
a step of `ObjectGraph` or changes nothing. `GraphInv` adds to the invariant that
  - no identity is used twice, and until the pointers are updated the heap is a picture
    (`Depicts`) of the graph at the start of the collection;
  - what is black or pending is in *every* set that is closed under the roots and the
    strong references (`OnlyReachable`). With `MarkInv`, which says that the black
    objects are such a set, they are the least one (`MarkedIsReachable`);
  - from the second pass on, the compacted part of the heap, each object at its *place*,
    is a picture of what `ObjectGraph` leaves (`Survivors`). The second pass draws this
    picture at once (`UpdatePicture`), the third one moves the objects to where it has
    them and changes nothing in it (`Compacted` in `SkipStep` and `MoveStep`), and when
    the walk is over the heap is the picture (`EndPicture`).

A picture is a relation between constants, and therefore the lemmas about it
(`OnePicture`, `SamePicture`, `GraphDepicts`) can be used for the heap of this state, of the
next state, and for the heap that is yet to be.

**`ClassTableProofs`** (`TypeCorrect`, `LockIsExclusive`, `NoWakeupIsLost`,
`InstancesFindTheirClass`), for any finite set of threads, any classes, any page
size. The invariant ties the counters of the mutex to the threads that hold it,
a position in a call to the lock that is held there, and the index in a class to
the entries and the page of the table. Behaviours end at a failed assertion,
as the process does.

**`AssemblerProofs`** (`TypeCorrect`, `LayoutSettles`, `EncodingFits`,
`JumpsReachTheirLabels`, `CodeIsReadBack`), for any
instruction streams in which branches go to labels. The argument: in every pass
an instruction moves towards the start by at least as much as those before it
(`Shrunk`), so that both the gap to a label ahead and the span back to a label
behind only get shorter; the size of a branch is monotone in the distance on
either side (`BetterSizeMonotone`); hence the next pass makes nothing larger
(`NextPassIsBetter`), and a pass that does not make the method smaller has not
moved anything (`FixedPoint`). That the encoder writes as many bytes as were
computed (`EncodedSize`) is a lemma about each kind of instruction. Every size
starts at its maximum, and this is where the argument needs it
(`BetterIsAtMostMax`).

The last two theorems add the contents of the code to the invariant: the bytes of
every instruction that has been encoded are in the code at its position (`CodeInv`).
A later instruction does not overwrite them because positions ascend, and the
`Label` with which a stream may end needs none. For each form of instruction one lemma says that the
interpreter takes the bytes for this instruction and no other (`DecodedFixed`,
`DecodedJump`, `DecodedClosure`); it rests on tables of which opcodes belong to which
form (`ShortMembers` and those after it), checked opcode by opcode. The plain
bytecodes are those that `Assembler` has a function for (`SingleBytecodes`).

**`HashedCollectionProofs`, `MethodDictionaryProofs`, `GlobalDictionaryProofs`**
(`MethodDictionariesHaveTheirTypes`, `DictionariesAreNeverFull`,
`DictionariesImplementMethodTable`, `LookupFindsTheNearestMethod`;
`GlobalsHaveTheirTypes`, `GlobalsHaveOneValue`, `SymbolsKeepTheirAssociation`), for any
selectors, any hashes, any hierarchy of classes and tables of any capacity. A table
is *good* when the search for each key that is in it ends at the slot of the key, at
least one slot is free, and the tally counts at least the slots in use. A key is
stored where the search for it ends, so it lies on the path of no other key's search
before that key's slot (`PutTable`, `PutAnswers`). Growth puts the entries back one by
one with a recursive function; by induction over the slots, the new table is good
and has exactly the entries of the old slots that were moved (`GrownTable`).
The refinement maps a pair of arrays to the map from each key to the method
beside it; that a send finds the method of the nearest class goes by induction
over the depth of the class (`ClassInduction`), for which `HierarchyAssumption`
says that the hierarchy has an end. The two theorems about values of globals assume
`~LateGlobals`, that the embedding program defines its globals before Smalltalk
code does; run `globals_late` shows that they are false otherwise. Their invariant
says that the literals of compiled methods are the associations that the
dictionary still has.

**`StackMemoryProofs`** (`StackTypesCorrect`, `PoolStaysIntact`,
`NoFrameOverrunsItsPage`, `ContextsNameTheirFrames`, `PagesImplementCallStack`), for any number of pages, sizes of
pages and frames, activations and contents, under `StackAssumption`: every frame
fits in the reserve, and two of them in a page above it. The invariant is `Good`, a
predicate on the pages, the contexts and a list of pages. It says that
  - the pages in use are this list, from the current page to the oldest one,
    linked in both directions (`Listed`), and the free pages are all others, each
    one once (`FreeList`);
  - the frames of every page leave the reserve (`Sized`), and the head of each page
    but the current one is its last frame (`Headed`);
  - no activation has two frames (`Separate`);
  - a context of a frame that is not the first of its page names that frame (`Wed`),
    and what a context names is its frame (`Faithful`);
  - the sender of the first frame of a page is the last frame of the page before,
    and both are married (`Linked`); for the oldest page, it is a divorced context
    (`Orphaned`), unless this is the page of the terminal frame.

`Linked` and `Orphaned` are needed for the return to another page: they are why the
page that `useNewPageFor` finds through the frame pointer of the sender is the next
one of the list and has nothing above that frame, and why a sender that is divorced
is never taken for a frame. That a page which is divorced is not the current one, and that
there is a previous frame to head the page that overflows, follow from the
assumption on sizes (`OneFrame`: one frame and another one never overflow a page). Each kind
of step has a lemma about `Good` for any pages and contexts (`FramePushed`,
`FramePopped`, `FrameMarried`, `FrameChanged`, `PageTaken`, `PageReturned`,
`PageDivorced`), and each operator of the module one that says what it does
(`PageIsFreed`, `Divorcing`, `Marriage`, `Update`, `Widowing`); the proof that an action
keeps the invariant puts these together. `PoolIntact` then needs an induction along `Back`
and the fact that a list without repetitions is no longer than the pool.

`PagesImplementCallStack` is the refinement `Spec => CallStackSpec`, for any finite set
of activations (the walk over divorced contexts is bounded by their number). The
argument has two halves.
  - *The memory holds a stack* (`Represents`): there is a sequence `s` of activations, the
    number `d` of those that are left to contexts, and for each page the number of
    activations below it (`base`), such that every frame is the activation at its place and
    returns to the one below (`FramesLie`), the first frame of a page knows the
    activation below through its context (`BasesLie`), and the first `d` activations are
    what their contexts say (`ContextsLie`). Each action takes the stack that is held to
    the one that `CallStack` asks for (`CallRefines`, `LocalReturnRefines`,
    `BaseReturnRefines`, `StepRefines`, `MarriageRefines`): a frame that moves to
    another page is put on an empty page whose base is the whole stack (`FramePut`), a page that is
    divorced adds its size to `d` (`RoomLies`, `PageLeft`).
  - *The mapping finds it* (`StackIsFound`): the pages of the list lie one above the other
    (`PagesJoin`), so that the walk of `stackFrames` from the current page back visits
    the frames of the activations above `d`, each once and in order
    (`FramesVisited`), and the walk from sender to sender visits the others
    (`SendersFound`, `DivorcedFound`). Both are recursive functions; the proof gives one that
    satisfies the recursion and shows by induction that there is no other (`Upward`, `Downward`).

That the process aborts only in a program that is deep needs one more invariant
(`Full`): every page in use but the current one has at least `PageDepth` frames, because a page is
only left when it overflows and no frame is larger than the reserve (`FullPage`). When
a page has to be divorced all of them are in use, and the stack is deeper than `Capacity`
(`StackIsDeep`); and a return to a divorced context finds `d > 0` (`AbortRefines`).

**`FramesProofs`** (`StackBalance`, `FrameData`, `ScriptFrames`, `Contexts`,
`CallersStay`), for any classes, natives, word size and stack, and for every program
that is verified. The theorems have the form `VerifiedSpec => []P`, where
`VerifiedSpec` is the machine of `Interpreter`, from its start, without fairness, with
two hypotheses.
  - `Verified`, for the program as it was compiled. That the compiler fulfils it for every
    program that it does not translate wrongly is `SupportedProgramsAreVerified`, which
    the run `execution` checks for each of its programs. (For every program it is
    an induction over syntax trees.)
  - `[]~LeavesWords`: no native method has failed, and no numbered primitive is the
    access to an element (`Object::stAt`, `Object::stAtPut`, which push the receiver,
    fail, and leave it there). A native method that fails leaves its own frame, without a
    method to go on in (`callNativeMethod`), so that what follows has other
    operands than it was generated for: the properties are false there. The same run
    checks that no supported program does either.

The constants are assumed to be as the classes of the system are: superclasses come to
an end (`LineagesAssumption`), a `Context` has seven variables and a `BlockClosure` three
(`ReservedAssumption`), only scripts find the native methods of scripts
(`NativesAssumption`), and the stack has room for the terminal frame and a step
(`StackAssumption`).

The invariant is `Sound`: the program is verified, and as long as the machine runs it is
`Settled`. This says that there are a number `n` of frames, the list `F` of their frame
pointers and the number `S[k]` of scripts that run up to each of them, such that
  - every word that points at an object points at one of the heap; closures have a
    context with a compiled method that can go on at their start pc with the copied
    values as operands (`RunsOn`), and no method that stores into its receiver has one
    of the machine's own classes for receiver (`Fits`), so that nobody else writes the
    variables of contexts and closures (`DataOK`);
  - the first frame is the terminal one; each frame lies above the one it returns to, and
    that one is resumed at an instruction that expects as many operands as there are
    below the arguments, and one value; or it is the frame of a script and has the words
    that the script has pushed, and the value (`FramesOK`, `Resumes`);
  - a context that points at a frame is the one that the frame points back at, and has the
    method and the receiver of the frame (`ContextsOK`, `Married`);
  - the registers are those of the last frame (`Current`), and it has the operands that are
    expected where the machine goes on (`Balanced`).

None of the five properties is inductive alone. The operands after a return depend on
what the caller expects, and this on the words that the callee has left alone; the code
of a block finds its operands only if the closure was made from a context whose
method is a method, and this is why the invariant must say that no program writes
into a context. An instruction either works in its frame (`Keeps`: it writes operands,
temporaries and objects, and every part of the invariant survives, `LayoutKept`), or
pushes a frame (`Called`), or leaves one (`Truncated`, `WidowKeeps`), or marries one
(`MarryKeeps`). A primitive ends in a value that returns from its frame, or in a failure
(`Ends`); a send ends in a frame more, in an answer, or in a message that is not
understood (`SendSteps`); every action of the machine ends in a machine that is as it
should be or has stopped (`StepLands`), or in that of `main` (`Restarts`). The lemmas about
numbers say only that what is computed points at no object (`Result`, `Special`). The
functions that are recursive over instructions and frames (`ScriptDepths`, `Callers`)
are given by a function that satisfies the recursion (`ScriptDepthStep`, `CallersStep`).

`CallersStay` is an action property: `Untouched` holds of each step because what a step
writes is above the base of its frame (`KeepsUntouched`), which `Layout` separates from
the frames below.

Only model-checked:
  - the liveness properties, because the prover has neither fairness nor `ENABLED`;
  - `AnswersAreRight` and `SupportedProgramsAreVerified`, because what the compiler and the
    evaluator compute for every syntax tree is an induction over trees, by recursive
    operators;
  - `TypeOK` of `Execution`, which extends these modules. What `FramesProofs` needs of
    it (registers, places of words, pointers into the heap) is part of `Sound`; the rest is
    the width of small integers.

## 6. What the models found

Each of these is a run that TLC ends with a counterexample, and a finding in
`PROJECT.json`.

- `gc_big`: in objects with a slot count word (255 slots and more) the second
  pass reads the slot count where the forwarding pointer should be.
- `mutex_assertions`: `write_lock` waits for a state that never exists and goes
  on while readers or a writer are in; its assertions fail. The properties of the
  mutex and of the class table hold of the behaviours before that.
- `globals_late`: `setGlobalVariable` makes a second association for a global
  that Smalltalk code has defined; compiled methods keep the first.
- `assembler_documented`: a jump over 128 to 255 bytes is written in one byte
  and read as a negative distance.
- `execution_assertions`: the captured arguments of a block are moved through a
  temporary that is not the vector; the assertion of the interpreter fails.

Others were met on the way and are hazards without a run: pointers held over
the safe point in `activateMethodFrame` and `activateBlockClosure`, the inverted
threshold in `allocateObjectMemory`, the count of copied values in the closure
bytecode, an empty inlined block and the conditional jump of distance 0, a local
beyond its frame, the sign of quotients by negative numbers, the division by zero in
the test of a product, the upper bits that sums, products, quotients and shifts lose,
`Object::stAt`, the comparisons of `Float`, and
`getGlobalValueFromSymbol`. Section 2 lists those that the properties of `Execution`
leave out.

## 7. What is not modelled, and why

- Memory: the mutator is one thread, as nothing stops the others; exhaustion of
  the address space; the depth of the recursion of `markObject`; compiled methods
  and byte objects, whose difference is where their pointers are.
- The stack: several stack memories of one thread; the frame pointer that the
  context of the terminal frame keeps; operands pushed beyond the reserve of a
  page, which the code does not check. `StackMemory` counts the words of a frame
  and `Interpreter` has them on one page without end.
- The interpreter: objects do not move in it (safe points are steps of
  `GarbageCollector`); the opcode that is fetched ahead, which nothing can change
  between the fetch and its use; bytecodes that the compiler does not emit;
  boxed floats, large integers, external pointers, named primitives, and the
  native methods on strings, files and dictionaries.
- The compiler: literal arrays and brace arrays, class variables, the text of
  errors. A message to super ends in `abort`, as it does in the assembler.
- Class table: `setClassAtIndex`, which has no caller; classes that are never
  registered.
- Dictionaries: keys are symbols with constant identity hashes; the value beside
  a nil key, which nothing reads.
- Assembler: the literal table and the method header; the prefixes `ExtendA` and
  `ExtendB`, which the assembler cannot emit (it aborts) and the model counts in
  the sizes only.
- The grammar, input and output, files, exceptions: pure functions or wrappers
  around calls of the operating system.

## 8. The plan

Done: memory, threads, stack, hash tables, assembler, in the order of the damage
that a fault in them does; then numbers, compiler and interpreter, composed and
compared with the meaning of programs. What could follow:

1. `OopRefList`: the doubly linked list of references, their copies and moves,
   and the registration of root arrays.
2. The interpreter on the heap of `GarbageCollector`, with the safe points inside
   of activations.
3. A verifier: that `Compiler` generates verified code for every tree, construct by
   construct, as lemmas about the sequences that `Conditional`, `WhileLoop` and
   `ToDoLoop` put together.
