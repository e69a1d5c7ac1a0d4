------------------------- MODULE StackMemoryProofs -------------------------
(***************************************************************************)
(* Proofs about StackMemory: the types, the pool of pages, that a context  *)
(* never names a frame that is not its own, and that the pages and the     *)
(* contexts implement CallStack.                                           *)
(***************************************************************************)
EXTENDS StackMemory, FiniteSetTheorems, SequenceTheorems, WellFoundedInduction, TLAPS

----------------------------------------------------------------------------
\* Induction, for a set of natural numbers.
LEMMA SetInduction ==
  ASSUME NEW S \in SUBSET Nat, 0 \in S, \A n \in S : n + 1 \in S
  PROVE  S = Nat
<1>1. SUFFICES ASSUME Nat \ S # {} PROVE FALSE
  BY Zenon
<1>2. \A x, y \in Nat : x < y => <<x, y>> \in OpToRel(<, Nat)
  BY DEF OpToRel
<1>3. PICK x \in Nat \ S : \A y \in Nat \ S : ~(<<y, x>> \in OpToRel(<, Nat))
  BY <1>1, NatLessThanWellFounded, WFMin, Zenon
<1>4. x \in Nat /\ x \notin S /\ x # 0
  BY <1>3, Zenon
<1>5. x - 1 \in Nat /\ x - 1 < x /\ (x - 1) + 1 = x
  BY <1>4
<1>6. x - 1 \in S
  BY <1>2, <1>3, <1>4, <1>5, Zenon
<1> QED BY <1>4, <1>5, <1>6, Zenon

----------------------------------------------------------------------------
(***************************************************************************)
(* The words of frames.  WordsStep is what the recursive function of Words *)
(* is at n.                                                                *)
(***************************************************************************)
WordsStep(frames, w, n) == IF n = 0 THEN 0 ELSE w[n - 1] + frames[n].words
IsSum(frames, w, last) == w = [n \in 0..last |-> WordsStep(frames, w, n)]

\* The recursive function exists.
LEMMA SomeSum ==
  ASSUME NEW frames, NEW last \in Nat
  PROVE  \E w : IsSum(frames, w, last)
<1> DEFINE S == {k \in Nat : \E w : IsSum(frames, w, k)}
<1>1. 0 \in S
  <2> DEFINE w == [n \in 0..0 |-> 0]
  <2>1. IsSum(frames, w, 0)
    <3>1. \A n \in 0..0 : WordsStep(frames, w, n) = 0
      BY DEF WordsStep
    <3> QED BY <3>1 DEF IsSum
  <2> QED BY <2>1
<1>2. ASSUME NEW k \in S PROVE k + 1 \in S
  <2>1. PICK w : IsSum(frames, w, k)
    OBVIOUS
  <2> DEFINE v == [n \in 0..(k + 1) |-> IF n <= k THEN w[n] ELSE WordsStep(frames, w, n)]
  <2>2. \A n \in 0..k : w[n] = WordsStep(frames, w, n) /\ v[n] = w[n]
    BY <2>1 DEF IsSum
  <2>3. v[k + 1] = WordsStep(frames, w, k + 1)
    OBVIOUS
  <2>4. v = [n \in 0..(k + 1) |-> v[n]]
    OBVIOUS
  <2> HIDE DEF v
  <2>5. \A n \in 0..(k + 1) : WordsStep(frames, v, n) = WordsStep(frames, w, n)
    <3> TAKE n \in 0..(k + 1)
    <3>1. n # 0 => n - 1 \in 0..k
      OBVIOUS
    <3> QED BY <2>2, <3>1 DEF WordsStep
  <2>6. \A n \in 0..(k + 1) : v[n] = WordsStep(frames, v, n)
    <3> TAKE n \in 0..(k + 1)
    <3>1. n \in 0..k \/ n = k + 1
      OBVIOUS
    <3> QED BY <2>2, <2>3, <2>5, <3>1
  <2>7. IsSum(frames, v, k + 1)
    BY <2>4, <2>6, Zenon DEF IsSum
  <2> QED BY <2>7
<1> HIDE DEF S
<1>3. S = Nat
  <2>1. S \in SUBSET Nat
    BY DEF S
  <2> QED BY <1>1, <1>2, <2>1, SetInduction
<1> QED BY <1>3 DEF S

\* Words is a sum of the words of the frames.
LEMMA WordsIsASum ==
  ASSUME NEW frames, Len(frames) \in Nat
  PROVE  \E w : IsSum(frames, w, Len(frames)) /\ Words(frames) = w[Len(frames)]
<1> DEFINE w == CHOOSE v : IsSum(frames, v, Len(frames))
<1>1. IsSum(frames, w, Len(frames))
  BY SomeSum
<1>2. Words(frames) = w[Len(frames)]
  BY Zenon DEF Words, IsSum, WordsStep
<1> QED BY <1>1, <1>2

HaveSizes(frames) ==
  /\ Len(frames) \in Nat /\ DOMAIN frames = 1..Len(frames)
  /\ \A i \in DOMAIN frames : frames[i].words \in Nat \ {0}

\* The words of some of the frames are the words of as many frames of the same sizes.
LEMMA SameWords ==
  ASSUME NEW f, NEW g, HaveSizes(f), HaveSizes(g), Len(f) <= Len(g),
         \A i \in DOMAIN f : f[i].words = g[i].words
  PROVE  \E w : /\ IsSum(g, w, Len(g)) /\ Words(f) = w[Len(f)] /\ Words(g) = w[Len(g)]
                /\ \A k \in 0..Len(g) : w[k] \in Nat /\ k <= w[k]
                /\ \A k \in 0..Len(g) : k < Len(g) => w[k + 1] = w[k] + g[k + 1].words
<1>1. PICK v : IsSum(f, v, Len(f)) /\ Words(f) = v[Len(f)]
  BY WordsIsASum DEF HaveSizes
<1>2. PICK w : IsSum(g, w, Len(g)) /\ Words(g) = w[Len(g)]
  BY WordsIsASum DEF HaveSizes
<1>3. /\ \A n \in 0..Len(f) : v[n] = WordsStep(f, v, n)
      /\ \A n \in 0..Len(g) : w[n] = WordsStep(g, w, n)
  BY <1>1, <1>2 DEF IsSum
<1>4. Len(f) \in Nat /\ Len(g) \in Nat
  BY DEF HaveSizes
<1>5. \A k \in 0..Len(g) : k < Len(g) => w[k + 1] = w[k] + g[k + 1].words
  BY <1>3, <1>4 DEF WordsStep
<1>6. \A k \in 0..Len(f) : k < Len(f) => v[k + 1] = v[k] + f[k + 1].words
  BY <1>3, <1>4 DEF WordsStep
<1>7. v[0] = 0 /\ w[0] = 0
  BY <1>3, <1>4 DEF WordsStep
<1> DEFINE S == {k \in Nat : k <= Len(g) => /\ w[k] \in Nat /\ k <= w[k]
                                            /\ k <= Len(f) => v[k] = w[k]}
<1>8. 0 \in S
  BY <1>7
<1>9. ASSUME NEW k \in S PROVE k + 1 \in S
  <2> SUFFICES ASSUME k + 1 <= Len(g)
               PROVE  /\ w[k + 1] \in Nat /\ k + 1 <= w[k + 1]
                      /\ k + 1 <= Len(f) => v[k + 1] = w[k + 1]
    OBVIOUS
  <2>1. k \in 0..Len(g) /\ k < Len(g) /\ w[k] \in Nat /\ k <= w[k] /\ (k <= Len(f) => v[k] = w[k])
    BY <1>4
  <2>2. w[k + 1] = w[k] + g[k + 1].words /\ g[k + 1].words \in Nat \ {0}
    BY <1>4, <1>5, <2>1 DEF HaveSizes
  <2>3. ASSUME k + 1 <= Len(f) PROVE v[k + 1] = w[k + 1]
    <3>1. k \in 0..Len(f) /\ k < Len(f) /\ k + 1 \in 1..Len(f)
      BY <1>4, <2>3
    <3>2. v[k + 1] = v[k] + f[k + 1].words /\ f[k + 1].words = g[k + 1].words
      BY <1>6, <3>1 DEF HaveSizes
    <3> QED BY <2>1, <2>2, <3>1, <3>2
  <2>4. w[k + 1] \in Nat /\ k + 1 <= w[k + 1]
    BY <2>1, <2>2
  <2> QED BY <2>3, <2>4
<1> HIDE DEF S
<1>10. S = Nat
  <2>1. S \in SUBSET Nat
    BY DEF S
  <2> QED BY <1>8, <1>9, <2>1, SetInduction
<1>11. /\ \A k \in 0..Len(g) : w[k] \in Nat /\ k <= w[k]
       /\ v[Len(f)] = w[Len(f)]
  BY <1>4, <1>10 DEF S
<1> QED BY <1>1, <1>2, <1>5, <1>11

\* The operations on frames: one is pushed, some are popped, none changes its size.
LEMMA WordsOfFrames ==
  ASSUME NEW f, NEW g, HaveSizes(f), HaveSizes(g), \A i \in DOMAIN f : f[i].words = g[i].words
  PROVE  /\ Words(f) \in Nat /\ Len(f) <= Words(f)
         /\ Len(g) = Len(f) => Words(g) = Words(f)
         /\ Len(g) = Len(f) + 1 => Words(g) = Words(f) + g[Len(g)].words
<1>0. Len(f) \in Nat /\ Len(g) \in Nat
  BY DEF HaveSizes
<1>1. Words(f) \in Nat /\ Len(f) <= Words(f)
  <2>1. \E w : Words(f) = w[Len(f)] /\ \A k \in 0..Len(f) : w[k] \in Nat /\ k <= w[k]
    BY <1>0, SameWords
  <2> QED BY <1>0, <2>1
<1>2. ASSUME Len(g) = Len(f) \/ Len(g) = Len(f) + 1
      PROVE  /\ Len(g) = Len(f) => Words(g) = Words(f)
             /\ Len(g) = Len(f) + 1 => Words(g) = Words(f) + g[Len(g)].words
  <2>1. Len(f) <= Len(g)
    BY <1>0, <1>2
  <2>2. PICK w : /\ Words(f) = w[Len(f)] /\ Words(g) = w[Len(g)]
                 /\ \A k \in 0..Len(g) : k < Len(g) => w[k + 1] = w[k] + g[k + 1].words
    BY <2>1, SameWords
  <2> QED BY <1>0, <1>2, <2>2
<1> QED BY <1>1, <1>2

\* No frames have no words.
LEMMA NoWords ==
  ASSUME NEW f, HaveSizes(f), Len(f) = 0
  PROVE  Words(f) = 0
<1>1. PICK w : IsSum(f, w, Len(f)) /\ Words(f) = w[Len(f)]
  BY WordsIsASum DEF HaveSizes
<1>2. w[0] = WordsStep(f, w, 0)
  BY <1>1 DEF IsSum
<1> QED BY <1>1, <1>2 DEF WordsStep

----------------------------------------------------------------------------
(***************************************************************************)
(* The inductive invariant, as a predicate on pages, contexts, the current *)
(* page and the list of the pages in use, the current one first, so that a *)
(* step can be taken apart.                                                *)
(***************************************************************************)
Senders        == (Pages \X (1..PageWords)) \cup (Acts \cup {Terminal, Nil})
ContextRecords == [sender : Senders, pc : Pcs \cup {EndPc}, data : Values]
PageRecords    == [frames : Seq(Frames), head : Nat, prev : Pages \cup {NoPage},
                   next : Pages \cup {NoPage}]

Typed(ps, cs) ==
  /\ ps \in [Pages -> PageRecords]
  /\ DOMAIN cs \subseteq Acts \cup {Terminal}
  /\ cs \in [DOMAIN cs -> ContextRecords]

Act(ps, p, i) == ps[p].frames[i].act
Size(ps, p)   == Len(ps[p].frames)
Used(ps, p)   == ps[p].frames # << >>

\* The pages in use are a list that is linked in both directions.
Listed(ps, cur, list) ==
  /\ list \in Seq(Pages) /\ list # << >> /\ list[1] = cur
  /\ \A i, j \in DOMAIN list : list[i] = list[j] => i = j
  /\ \A p \in Pages : Used(ps, p) <=> \E i \in DOMAIN list : list[i] = p
  /\ \A i \in DOMAIN list :
       /\ ps[list[i]].prev = IF i = Len(list) THEN NoPage ELSE list[i + 1]
       /\ ps[list[i]].next = IF i = 1 THEN NoPage ELSE list[i - 1]
  /\ \A p \in Pages : ~Used(ps, p) => ps[p].prev = NoPage

Sized(ps) == \A p \in Pages : Words(ps[p].frames) + OverflowWords <= PageWords

\* No two frames are of one activation, and the terminal one is the first of its page.
Separate(ps) ==
  /\ \A p, q \in Pages : \A i \in 1..Size(ps, p), j \in 1..Size(ps, q) :
       Act(ps, p, i) = Act(ps, q, j) => p = q /\ i = j
  /\ \A p \in Pages : \A i \in 1..Size(ps, p) : Act(ps, p, i) = Terminal => i = 1

Headed(ps, cur) == \A p \in Pages : Used(ps, p) /\ p # cur => ps[p].head = Size(ps, p)

\* A context of a frame that is not the first of its page names that frame.
Wed(ps, cs) ==
  \A p \in Pages : \A i \in 1..Size(ps, p) :
    i > 1 /\ Act(ps, p, i) \in DOMAIN cs => cs[Act(ps, p, i)].sender = <<p, i>>

\* What a context names is its frame.
Faithful(ps, cs) ==
  \A a \in DOMAIN cs \ {Terminal} : \A p \in Pages, i \in 1..PageWords :
    cs[a].sender = <<p, i>> => i <= Size(ps, p) /\ Act(ps, p, i) = a

\* The sender of the first frame of a page is the last one of the page before it.
Linked(ps, cs, list) ==
  \A n \in DOMAIN list : n < Len(list) =>
    LET p == list[n]
        q == list[n + 1]
    IN /\ Size(ps, q) >= 2 /\ Act(ps, p, 1) # Terminal /\ Act(ps, p, 1) \in DOMAIN cs
       /\ Act(ps, q, Size(ps, q)) \in DOMAIN cs
       /\ cs[Act(ps, p, 1)].sender = Act(ps, q, Size(ps, q))

OnFrame(ps, a) == \E p \in Pages : \E i \in 1..Size(ps, p) : Act(ps, p, i) = a

\* The sender of the first frame of the oldest page is divorced.
Orphaned(ps, cs, list) ==
  LET p == list[Len(list)]
      c == cs[Act(ps, p, 1)].sender
  IN Act(ps, p, 1) # Terminal =>
       /\ Act(ps, p, 1) \in DOMAIN cs
       /\ c \in Acts /\ c \in DOMAIN cs
       /\ cs[c].sender \in Acts \cup {Terminal}
       /\ ~OnFrame(ps, c)

Good(ps, cs, cur, list) ==
  /\ Typed(ps, cs) /\ Listed(ps, cur, list) /\ Sized(ps) /\ Separate(ps) /\ Headed(ps, cur)
  /\ Wed(ps, cs) /\ Faithful(ps, cs) /\ Linked(ps, cs, list) /\ Orphaned(ps, cs, list)

\* The numbers that the assumption on the sizes gives.
LEMMA FrameSizes ==
  /\ FrameWords \cup {TerminalWords} \subseteq Nat \ {0}
  /\ PageWords \in Nat /\ OverflowWords \in Nat
  /\ \A w \in FrameWords : w <= OverflowWords
  /\ \A v \in FrameWords \cup {TerminalWords}, w \in FrameWords : v + w + OverflowWords <= PageWords
<1>1. /\ PageWords \in Nat /\ OverflowWords \in Nat
      /\ FrameWords \subseteq 1..OverflowWords /\ TerminalWords \in 1..OverflowWords
  BY StackAssumption
<1>2. \A v, w \in FrameWords \cup {TerminalWords} : v + w + OverflowWords <= PageWords
  BY StackAssumption, Zenon
<1> QED BY <1>1, <1>2

\* Frame pointers, contexts and nil are told apart.
LEMMA NamesDiffer ==
  /\ Terminal \notin Acts /\ Nil \notin Acts \cup {Terminal} /\ NoPage \notin Pages
  /\ \A p \in Pages, i \in 1..PageWords : <<p, i>> \notin Acts \cup {Terminal, Nil}
<1>1. /\ Terminal \notin Acts /\ Nil \notin Acts \cup {Terminal} /\ NoPage \notin Pages
  BY StackAssumption, Zenon DEF Pages
<1>2. \A a \in Acts \cup {Terminal, Nil} : a \notin Pages \X (1..PageWords)
  BY StackAssumption, Zenon DEF Pages
<1> QED BY <1>1, <1>2

\* What the types say about the frames of a page.
LEMMA FramesOfPage ==
  ASSUME NEW ps \in [Pages -> PageRecords], NEW p \in Pages
  PROVE  /\ ps[p].frames \in Seq(Frames)
         /\ Size(ps, p) \in Nat /\ DOMAIN ps[p].frames = 1..Size(ps, p)
         /\ \A i \in 1..Size(ps, p) : ps[p].frames[i] \in Frames /\ Act(ps, p, i) \in Acts \cup {Terminal}
         /\ HaveSizes(ps[p].frames)
         /\ Used(ps, p) <=> Size(ps, p) >= 1
         /\ ps[p].head \in Nat
         /\ ps[p].prev \in Pages \cup {NoPage} /\ ps[p].next \in Pages \cup {NoPage}
<1>1. /\ ps[p].frames \in Seq(Frames) /\ ps[p].head \in Nat
      /\ ps[p].prev \in Pages \cup {NoPage} /\ ps[p].next \in Pages \cup {NoPage}
  BY DEF PageRecords
<1>2. \A f \in Frames : f.words \in Nat \ {0} /\ f.act \in Acts \cup {Terminal}
  BY FrameSizes DEF Frames
<1> DEFINE fs == ps[p].frames
<1>3. fs \in Seq(Frames)
  BY <1>1
<1> HIDE DEF fs
<1>4. /\ Len(fs) \in Nat /\ DOMAIN fs = 1..Len(fs) /\ \A i \in 1..Len(fs) : fs[i] \in Frames
      /\ fs # << >> <=> Len(fs) >= 1
  BY <1>3
<1>5. HaveSizes(fs)
  BY <1>2, <1>4 DEF HaveSizes
<1> QED BY <1>1, <1>2, <1>4, <1>5 DEF fs, Size, Used, Act

\* Frames fit into their page, so that a frame pointer names each of them.
LEMMA FramesFit ==
  ASSUME NEW ps \in [Pages -> PageRecords], Sized(ps), NEW p \in Pages
  PROVE  Size(ps, p) <= PageWords
<1>1. HaveSizes(ps[p].frames) /\ Size(ps, p) \in Nat
  BY FramesOfPage
<1>2. Words(ps[p].frames) \in Nat /\ Size(ps, p) <= Words(ps[p].frames)
  BY <1>1, WordsOfFrames DEF Size
<1>3. Words(ps[p].frames) + OverflowWords <= PageWords
  BY DEF Sized
<1> QED BY <1>1, <1>2, <1>3, StackAssumption

\* The pages of the list are in use, and no page is in it twice.
LEMMA ListOfPages ==
  ASSUME NEW ps, NEW cur, NEW list, Listed(ps, cur, list)
  PROVE  /\ Len(list) \in Nat \ {0} /\ DOMAIN list = 1..Len(list)
         /\ cur \in Pages /\ list[1] = cur
         /\ \A i \in 1..Len(list) : list[i] \in Pages /\ Used(ps, list[i])
         /\ \A i, j \in 1..Len(list) : list[i] = list[j] => i = j
         /\ Used(ps, cur)
<1>1. list \in Seq(Pages) /\ list # << >> /\ list[1] = cur
  BY DEF Listed
<1>2. Len(list) \in Nat \ {0} /\ DOMAIN list = 1..Len(list) /\ \A i \in 1..Len(list) : list[i] \in Pages
  BY <1>1
<1>3. 1 \in 1..Len(list)
  BY <1>2
<1>4. /\ \A i \in 1..Len(list) : \E j \in 1..Len(list) : list[j] = list[i]
      /\ \A i \in 1..Len(list) : Used(ps, list[i])
  <2>1. \A p \in Pages : (\E i \in 1..Len(list) : list[i] = p) => Used(ps, p)
    BY <1>2 DEF Listed
  <2> QED BY <1>2, <2>1
<1>5. \A i, j \in 1..Len(list) : list[i] = list[j] => i = j
  BY <1>2 DEF Listed
<1> QED BY <1>1, <1>2, <1>3, <1>4, <1>5

\* A change of frames that leaves the pages in use.
LEMMA ListedKept ==
  ASSUME NEW ps, NEW qs, NEW cur, NEW list, Listed(ps, cur, list),
         \A p \in Pages : /\ qs[p].prev = ps[p].prev /\ qs[p].next = ps[p].next
                          /\ Used(qs, p) <=> Used(ps, p)
  PROVE  Listed(qs, cur, list)
<1>1. \A i \in DOMAIN list : list[i] \in Pages
  BY ListOfPages
<1>2. list \in Seq(Pages) /\ list # << >> /\ list[1] = cur
  BY DEF Listed
<1>3. \A i, j \in DOMAIN list : list[i] = list[j] => i = j
  BY Zenon DEF Listed
<1>4. \A p \in Pages : Used(qs, p) <=> \E i \in DOMAIN list : list[i] = p
  BY Zenon DEF Listed
<1>5. \A i \in DOMAIN list :
       /\ qs[list[i]].prev = IF i = Len(list) THEN NoPage ELSE list[i + 1]
       /\ qs[list[i]].next = IF i = 1 THEN NoPage ELSE list[i - 1]
  <2> TAKE i \in DOMAIN list
  <2>1. qs[list[i]].prev = ps[list[i]].prev /\ qs[list[i]].next = ps[list[i]].next
    BY <1>1
  <2>2. /\ ps[list[i]].prev = IF i = Len(list) THEN NoPage ELSE list[i + 1]
        /\ ps[list[i]].next = IF i = 1 THEN NoPage ELSE list[i - 1]
    BY Zenon DEF Listed
  <2> QED BY <2>1, <2>2, Zenon
<1>6. \A p \in Pages : ~Used(qs, p) => qs[p].prev = NoPage
  BY Zenon DEF Listed
<1> QED BY <1>2, <1>3, <1>4, <1>5, <1>6, Zenon DEF Listed

\* What the invariant says of pages and frames, without its definitions.
LEMMA Facts ==
  ASSUME NEW ps, NEW cs, NEW cur, NEW list, Good(ps, cs, cur, list)
  PROVE  /\ \A p \in Pages : /\ Size(ps, p) \in Nat /\ Size(ps, p) <= PageWords
                             /\ Used(ps, p) <=> Size(ps, p) >= 1
                             /\ \A i \in 1..Size(ps, p) : Act(ps, p, i) \in Acts \cup {Terminal}
         /\ Len(list) \in Nat \ {0} /\ DOMAIN list = 1..Len(list)
         /\ cur \in Pages /\ list[1] = cur /\ Size(ps, cur) >= 1
         /\ \A n \in 1..Len(list) : list[n] \in Pages /\ Size(ps, list[n]) >= 1
         /\ \A m, n \in 1..Len(list) : list[m] = list[n] => m = n
         /\ \A p \in Pages : Size(ps, p) >= 1 => \E n \in 1..Len(list) : list[n] = p
         /\ \A p \in Pages : Size(ps, p) >= 1 /\ Act(ps, p, 1) # Terminal => Act(ps, p, 1) \in DOMAIN cs
<1>1. ps \in [Pages -> PageRecords] /\ Listed(ps, cur, list) /\ Sized(ps)
  BY DEF Good, Typed
<1>2. \A p \in Pages : /\ Size(ps, p) \in Nat /\ Size(ps, p) <= PageWords
                       /\ Used(ps, p) <=> Size(ps, p) >= 1
                       /\ \A i \in 1..Size(ps, p) : Act(ps, p, i) \in Acts \cup {Terminal}
  BY <1>1, FramesOfPage, FramesFit
<1>3. /\ Len(list) \in Nat \ {0} /\ DOMAIN list = 1..Len(list)
      /\ cur \in Pages /\ list[1] = cur
      /\ \A n \in 1..Len(list) : list[n] \in Pages /\ Used(ps, list[n])
      /\ \A m, n \in 1..Len(list) : list[m] = list[n] => m = n
  BY <1>1, ListOfPages
<1>4. \A n \in 1..Len(list) : Size(ps, list[n]) >= 1
  BY <1>2, <1>3
<1>5. Size(ps, cur) >= 1
  <2>1. 1 \in 1..Len(list)
    BY <1>3
  <2> QED BY <2>1, <1>3, <1>4
<1>6. \A p \in Pages : Size(ps, p) >= 1 => \E n \in 1..Len(list) : list[n] = p
  <2>1. \A p \in Pages : Used(ps, p) => \E n \in 1..Len(list) : list[n] = p
    BY <1>1, <1>3, Zenon DEF Listed
  <2> QED BY <2>1, <1>2
<1>7. ASSUME NEW p \in Pages, Size(ps, p) >= 1, Act(ps, p, 1) # Terminal
      PROVE  Act(ps, p, 1) \in DOMAIN cs
  <2>1. PICK n \in 1..Len(list) : list[n] = p
    BY <1>6, <1>7
  <2>2. n < Len(list) \/ n = Len(list)
    <3>1. Len(list) \in Nat
      BY <1>3
    <3> QED BY <3>1
  <2>3. CASE n < Len(list)
    <3>1. n \in DOMAIN list
      BY <1>3
    <3>2. /\ Size(ps, list[n + 1]) >= 2 /\ Act(ps, list[n], 1) # Terminal
          /\ Act(ps, list[n], 1) \in DOMAIN cs
          /\ Act(ps, list[n + 1], Size(ps, list[n + 1])) \in DOMAIN cs
          /\ cs[Act(ps, list[n], 1)].sender = Act(ps, list[n + 1], Size(ps, list[n + 1]))
      BY <2>3, <3>1, Zenon DEF Good, Linked
    <3> QED BY <2>1, <3>2
  <2>4. CASE n = Len(list)
    <3>1. list[Len(list)] = p
      BY <2>1, <2>4
    <3>2. Act(ps, list[Len(list)], 1) # Terminal => Act(ps, list[Len(list)], 1) \in DOMAIN cs
      BY Zenon DEF Good, Orphaned
    <3> QED BY <1>7, <3>1, <3>2
  <2> QED BY <2>2, <2>3, <2>4
<1> QED BY <1>2, <1>3, <1>4, <1>5, <1>6, <1>7

----------------------------------------------------------------------------
(***************************************************************************)
(* What each kind of step does to Good.                                    *)
(***************************************************************************)
\* An activation that is neither on a frame nor on the stack of divorced contexts.
Idle(ps, cs, a) ==
  a \in Acts /\ ~OnFrame(ps, a) /\ (a \in DOMAIN cs => cs[a].sender = Nil)

SameElsewhere(ps, qs, p) == \A q \in Pages \ {p} : qs[q] = ps[q]

SameLinks(ps, qs) == \A p \in Pages : qs[p].prev = ps[p].prev /\ qs[p].next = ps[p].next

\* A frame is pushed on the current page; a context that its activation had is replaced.
LEMMA FramePushed ==
  ASSUME NEW ps, NEW cs, NEW cur, NEW list, Good(ps, cs, cur, list),
         NEW a, Idle(ps, cs, a),
         NEW qs, NEW ds, Typed(qs, ds), Sized(qs), SameElsewhere(ps, qs, cur), SameLinks(ps, qs),
         Size(qs, cur) = Size(ps, cur) + 1,
         \A i \in 1..Size(ps, cur) : Act(qs, cur, i) = Act(ps, cur, i),
         Act(qs, cur, Size(qs, cur)) = a,
         DOMAIN ds = DOMAIN cs \ {a}, \A b \in DOMAIN ds : ds[b].sender = cs[b].sender
  PROVE  Good(qs, ds, cur, list)
<1> USE DEF SameElsewhere
<1>0. /\ \A p \in Pages : Size(ps, p) \in Nat /\ Size(qs, p) \in Nat
      /\ \A p \in Pages : Used(ps, p) <=> Size(ps, p) >= 1
      /\ \A p \in Pages : Used(qs, p) <=> Size(qs, p) >= 1
      /\ Len(list) \in Nat \ {0} /\ DOMAIN list = 1..Len(list)
      /\ cur \in Pages /\ list[1] = cur /\ Size(ps, cur) >= 1
      /\ \A n \in 1..Len(list) : list[n] \in Pages /\ Size(ps, list[n]) >= 1
      /\ \A m, n \in 1..Len(list) : list[m] = list[n] => m = n
  <2>1. \A p \in Pages : Size(qs, p) \in Nat /\ (Used(qs, p) <=> Size(qs, p) >= 1)
    BY FramesOfPage DEF Typed
  <2> QED BY <2>1, Facts
<1>1. \A p \in Pages \ {cur} : Size(qs, p) = Size(ps, p) /\ \A i : Act(qs, p, i) = Act(ps, p, i)
  BY DEF Size, Act
<1>2. \A p \in Pages : \A i \in 1..Size(qs, p) :
        \/ p = cur /\ i = Size(qs, cur) /\ Act(qs, p, i) = a
        \/ i \in 1..Size(ps, p) /\ Act(qs, p, i) = Act(ps, p, i)
  BY <1>0, <1>1
<1>3. \A p \in Pages : \A i \in 1..Size(ps, p) :
        i \in 1..Size(qs, p) /\ Act(qs, p, i) = Act(ps, p, i) /\ Act(ps, p, i) # a
  <2>1. \A p \in Pages : \A i \in 1..Size(ps, p) : Act(ps, p, i) # a
    BY DEF Idle, OnFrame
  <2> QED BY <1>0, <1>1, <2>1
<1>4. a # Terminal /\ (a \in DOMAIN cs => cs[a].sender = Nil)
  BY NamesDiffer DEF Idle
<1>5. Listed(qs, cur, list)
  <2>1. \A p \in Pages : Used(qs, p) <=> Used(ps, p)
    BY <1>0, <1>1
  <2> QED BY <2>1, ListedKept DEF Good, SameLinks
<1>6. Separate(qs)
  <2>1. /\ \A p, q \in Pages : \A i \in 1..Size(ps, p), j \in 1..Size(ps, q) :
            Act(ps, p, i) = Act(ps, q, j) => p = q /\ i = j
        /\ \A p \in Pages : \A i \in 1..Size(ps, p) : Act(ps, p, i) = Terminal => i = 1
    BY Zenon DEF Good, Separate
  <2>2. ASSUME NEW p \in Pages, NEW q \in Pages, NEW i \in 1..Size(qs, p), NEW j \in 1..Size(qs, q),
               Act(qs, p, i) = Act(qs, q, j)
        PROVE  p = q /\ i = j
    BY <1>2, <1>3, <2>1, <2>2
  <2>3. ASSUME NEW p \in Pages, NEW i \in 1..Size(qs, p), Act(qs, p, i) = Terminal PROVE i = 1
    BY <1>2, <1>4, <2>1, <2>3
  <2> QED BY <2>2, <2>3 DEF Separate
<1>7. Headed(qs, cur)
  <2>1. \A p \in Pages : Used(ps, p) /\ p # cur => ps[p].head = Size(ps, p)
    BY Zenon DEF Good, Headed
  <2> QED BY <1>0, <1>1, <2>1 DEF Headed
<1>8. Wed(qs, ds)
  <2>1. \A p \in Pages : \A i \in 1..Size(ps, p) :
          i > 1 /\ Act(ps, p, i) \in DOMAIN cs => cs[Act(ps, p, i)].sender = <<p, i>>
    BY Zenon DEF Good, Wed
  <2>2. ASSUME NEW p \in Pages, NEW i \in 1..Size(qs, p), i > 1, Act(qs, p, i) \in DOMAIN ds
        PROVE  ds[Act(qs, p, i)].sender = <<p, i>>
    <3>1. i \in 1..Size(ps, p) /\ Act(qs, p, i) = Act(ps, p, i)
      BY <1>2, <2>2
    <3> QED BY <2>1, <2>2, <3>1
  <2> QED BY <2>2 DEF Wed
<1>9. Faithful(qs, ds)
  <2>1. \A b \in DOMAIN cs \ {Terminal} : \A p \in Pages, i \in 1..PageWords :
          cs[b].sender = <<p, i>> => i <= Size(ps, p) /\ Act(ps, p, i) = b
    BY Zenon DEF Good, Faithful
  <2>2. ASSUME NEW b \in DOMAIN ds \ {Terminal}, NEW p \in Pages, NEW i \in 1..PageWords,
               ds[b].sender = <<p, i>>
        PROVE  i <= Size(qs, p) /\ Act(qs, p, i) = b
    <3>1. i <= Size(ps, p) /\ Act(ps, p, i) = b
      BY <2>1, <2>2
    <3>2. i \in 1..Size(ps, p)
      BY <1>0, <3>1, FrameSizes
    <3> QED BY <1>0, <1>3, <3>1, <3>2
  <2> QED BY <2>2 DEF Faithful
<1>10. Linked(qs, ds, list)
  <2>1. ASSUME NEW n \in DOMAIN list, n < Len(list)
        PROVE  LET p == list[n]
                   q == list[n + 1]
               IN /\ Size(qs, q) >= 2 /\ Act(qs, p, 1) # Terminal /\ Act(qs, p, 1) \in DOMAIN ds
                  /\ Act(qs, q, Size(qs, q)) \in DOMAIN ds
                  /\ ds[Act(qs, p, 1)].sender = Act(qs, q, Size(qs, q))
    <3> DEFINE p == list[n]
               q == list[n + 1]
    <3>1. /\ Size(ps, q) >= 2 /\ Act(ps, p, 1) # Terminal /\ Act(ps, p, 1) \in DOMAIN cs
          /\ Act(ps, q, Size(ps, q)) \in DOMAIN cs
          /\ cs[Act(ps, p, 1)].sender = Act(ps, q, Size(ps, q))
      BY <2>1, Zenon DEF Good, Linked
    <3>2. n + 1 \in 1..Len(list) /\ 1 \in 1..Len(list) /\ n \in 1..Len(list) /\ n + 1 # 1
      BY <1>0, <2>1
    <3>3. p \in Pages /\ q \in Pages /\ q # cur /\ Size(ps, p) >= 1
      BY <1>0, <3>2
    <3> HIDE DEF p, q
    <3>4. Size(qs, q) = Size(ps, q) /\ Act(qs, q, Size(qs, q)) = Act(ps, q, Size(ps, q))
      BY <1>1, <3>3
    <3>5. 1 \in 1..Size(ps, p) /\ Size(ps, q) \in 1..Size(ps, q)
      BY <1>0, <3>1, <3>3
    <3>6. Act(qs, p, 1) = Act(ps, p, 1) /\ Act(ps, p, 1) # a /\ Act(ps, q, Size(ps, q)) # a
      BY <1>3, <3>3, <3>5
    <3> QED BY <3>1, <3>4, <3>6 DEF p, q
  <2> QED BY <2>1, Zenon DEF Linked
<1>11. Orphaned(qs, ds, list)
  <2> DEFINE p == list[Len(list)]
             c == cs[Act(ps, p, 1)].sender
  <2>1. p \in Pages /\ Size(ps, p) >= 1
    BY <1>0
  <2> HIDE DEF p
  <2>2. Act(qs, p, 1) = Act(ps, p, 1) /\ Act(ps, p, 1) # a
    BY <1>0, <1>3, <2>1
  <2> SUFFICES ASSUME Act(qs, p, 1) # Terminal
               PROVE  /\ Act(qs, p, 1) \in DOMAIN ds
                      /\ ds[Act(qs, p, 1)].sender \in Acts /\ ds[Act(qs, p, 1)].sender \in DOMAIN ds
                      /\ ds[ds[Act(qs, p, 1)].sender].sender \in Acts \cup {Terminal}
                      /\ ~OnFrame(qs, ds[Act(qs, p, 1)].sender)
    BY Zenon DEF Orphaned, p
  <2>3. /\ Act(ps, p, 1) \in DOMAIN cs /\ c \in Acts /\ c \in DOMAIN cs
        /\ cs[c].sender \in Acts \cup {Terminal} /\ ~OnFrame(ps, c)
    BY <2>2, Zenon DEF Good, Orphaned, p
  <2> HIDE DEF c
  <2>4. c # a
    BY <1>4, <2>3, NamesDiffer
  <2>5. ~OnFrame(qs, c)
    BY <1>2, <2>3, <2>4 DEF OnFrame
  <2>6. Act(qs, p, 1) \in DOMAIN ds /\ ds[Act(qs, p, 1)].sender = c
    BY <2>2, <2>3 DEF c
  <2>7. c \in DOMAIN ds /\ ds[c].sender = cs[c].sender
    BY <2>3, <2>4
  <2> QED BY <2>3, <2>5, <2>6, <2>7
<1> QED BY <1>5, <1>6, <1>7, <1>8, <1>9, <1>10, <1>11 DEF Good

\* The last frame is popped from the current page and its context is widowed.
LEMMA FramePopped ==
  ASSUME NEW ps, NEW cs, NEW cur, NEW list, Good(ps, cs, cur, list),
         NEW qs, NEW ds, Typed(qs, ds), Sized(qs), SameElsewhere(ps, qs, cur), SameLinks(ps, qs),
         Size(ps, cur) > 1, Size(qs, cur) = Size(ps, cur) - 1,
         \A i \in 1..Size(qs, cur) : Act(qs, cur, i) = Act(ps, cur, i),
         NEW a, a = Act(ps, cur, Size(ps, cur)),
         DOMAIN ds = DOMAIN cs, \A b \in DOMAIN ds \ {a} : ds[b].sender = cs[b].sender,
         a \in DOMAIN ds => ds[a].sender = Nil
  PROVE  Good(qs, ds, cur, list)
<1> USE DEF SameElsewhere
<1>0. /\ \A p \in Pages : Size(ps, p) \in Nat /\ Size(qs, p) \in Nat
      /\ \A p \in Pages : Used(ps, p) <=> Size(ps, p) >= 1
      /\ \A p \in Pages : Used(qs, p) <=> Size(qs, p) >= 1
      /\ Len(list) \in Nat \ {0} /\ DOMAIN list = 1..Len(list)
      /\ cur \in Pages /\ list[1] = cur
      /\ \A n \in 1..Len(list) : list[n] \in Pages /\ Size(ps, list[n]) >= 1
      /\ \A m, n \in 1..Len(list) : list[m] = list[n] => m = n
  <2>1. \A p \in Pages : Size(qs, p) \in Nat /\ (Used(qs, p) <=> Size(qs, p) >= 1)
    BY FramesOfPage DEF Typed
  <2> QED BY <2>1, Facts
<1>1. \A p \in Pages \ {cur} : Size(qs, p) = Size(ps, p) /\ \A i : Act(qs, p, i) = Act(ps, p, i)
  BY DEF Size, Act
<1>2. /\ \A p, q \in Pages : \A i \in 1..Size(ps, p), j \in 1..Size(ps, q) :
            Act(ps, p, i) = Act(ps, q, j) => p = q /\ i = j
      /\ \A p \in Pages : \A i \in 1..Size(ps, p) : Act(ps, p, i) = Terminal => i = 1
  BY Zenon DEF Good, Separate
<1>3. Size(ps, cur) \in 1..Size(ps, cur) /\ a # Terminal /\ OnFrame(ps, a)
  <2>1. Size(ps, cur) \in 1..Size(ps, cur)
    BY <1>0
  <2>2. a # Terminal
    BY <1>0, <1>2, <2>1
  <2> QED BY <1>0, <2>1, <2>2 DEF OnFrame
<1>4. \A p \in Pages : \A i \in 1..Size(qs, p) :
        i \in 1..Size(ps, p) /\ Act(qs, p, i) = Act(ps, p, i) /\ Act(ps, p, i) # a
  <2> TAKE p \in Pages
  <2> TAKE i \in 1..Size(qs, p)
  <2>1. i \in 1..Size(ps, p) /\ Act(qs, p, i) = Act(ps, p, i)
    BY <1>0, <1>1
  <2>2. ~(p = cur /\ i = Size(ps, cur))
    BY <1>0
  <2>3. Act(ps, p, i) # a
    BY <1>0, <1>2, <1>3, <2>1, <2>2
  <2> QED BY <2>1, <2>3
<1>5. \A p \in Pages : \A i \in 1..Size(ps, p) : Act(ps, p, i) # a =>
        i \in 1..Size(qs, p) /\ Act(qs, p, i) = Act(ps, p, i)
  <2> TAKE p \in Pages
  <2> TAKE i \in 1..Size(ps, p)
  <2>1. Act(ps, p, i) # a => ~(p = cur /\ i = Size(ps, cur))
    BY <1>0
  <2> QED BY <1>0, <1>1, <2>1
<1>6. Listed(qs, cur, list)
  <2>1. \A p \in Pages : Used(qs, p) <=> Used(ps, p)
    BY <1>0, <1>1
  <2> QED BY <2>1, ListedKept DEF Good, SameLinks
<1>7. Separate(qs)
  <2>1. ASSUME NEW p \in Pages, NEW q \in Pages, NEW i \in 1..Size(qs, p), NEW j \in 1..Size(qs, q),
               Act(qs, p, i) = Act(qs, q, j)
        PROVE  p = q /\ i = j
    BY <1>2, <1>4, <2>1
  <2>2. ASSUME NEW p \in Pages, NEW i \in 1..Size(qs, p), Act(qs, p, i) = Terminal PROVE i = 1
    BY <1>2, <1>4, <2>2
  <2> QED BY <2>1, <2>2 DEF Separate
<1>8. Headed(qs, cur)
  <2>1. \A p \in Pages : Used(ps, p) /\ p # cur => ps[p].head = Size(ps, p)
    BY Zenon DEF Good, Headed
  <2> QED BY <1>0, <1>1, <2>1 DEF Headed
<1>9. Wed(qs, ds)
  <2>1. \A p \in Pages : \A i \in 1..Size(ps, p) :
          i > 1 /\ Act(ps, p, i) \in DOMAIN cs => cs[Act(ps, p, i)].sender = <<p, i>>
    BY Zenon DEF Good, Wed
  <2>2. ASSUME NEW p \in Pages, NEW i \in 1..Size(qs, p), i > 1, Act(qs, p, i) \in DOMAIN ds
        PROVE  ds[Act(qs, p, i)].sender = <<p, i>>
    BY <1>4, <2>1, <2>2
  <2> QED BY <2>2 DEF Wed
<1>10. Faithful(qs, ds)
  <2>1. \A b \in DOMAIN cs \ {Terminal} : \A p \in Pages, i \in 1..PageWords :
          cs[b].sender = <<p, i>> => i <= Size(ps, p) /\ Act(ps, p, i) = b
    BY Zenon DEF Good, Faithful
  <2>2. ASSUME NEW b \in DOMAIN ds \ {Terminal}, NEW p \in Pages, NEW i \in 1..PageWords,
               ds[b].sender = <<p, i>>
        PROVE  i <= Size(qs, p) /\ Act(qs, p, i) = b
    <3>1. b # a
      BY <2>2, NamesDiffer
    <3>2. i <= Size(ps, p) /\ Act(ps, p, i) = b
      BY <2>1, <2>2, <3>1
    <3>3. i \in 1..Size(ps, p)
      BY <1>0, <3>2, FrameSizes
    <3>4. i \in 1..Size(qs, p) /\ Act(qs, p, i) = b
      BY <1>5, <3>1, <3>2, <3>3
    <3> QED BY <3>4
  <2> QED BY <2>2 DEF Faithful
<1>11. Linked(qs, ds, list)
  <2>1. ASSUME NEW n \in DOMAIN list, n < Len(list)
        PROVE  LET p == list[n]
                   q == list[n + 1]
               IN /\ Size(qs, q) >= 2 /\ Act(qs, p, 1) # Terminal /\ Act(qs, p, 1) \in DOMAIN ds
                  /\ Act(qs, q, Size(qs, q)) \in DOMAIN ds
                  /\ ds[Act(qs, p, 1)].sender = Act(qs, q, Size(qs, q))
    <3> DEFINE p == list[n]
               q == list[n + 1]
    <3>1. /\ Size(ps, q) >= 2 /\ Act(ps, p, 1) # Terminal /\ Act(ps, p, 1) \in DOMAIN cs
          /\ Act(ps, q, Size(ps, q)) \in DOMAIN cs
          /\ cs[Act(ps, p, 1)].sender = Act(ps, q, Size(ps, q))
      BY <2>1, Zenon DEF Good, Linked
    <3>2. n + 1 \in 1..Len(list) /\ 1 \in 1..Len(list) /\ n \in 1..Len(list) /\ n + 1 # 1
      BY <1>0, <2>1
    <3>3. p \in Pages /\ q \in Pages /\ q # cur /\ Size(ps, p) >= 1
      BY <1>0, <3>2
    <3> HIDE DEF p, q
    <3>4. Size(qs, q) = Size(ps, q) /\ Act(qs, q, Size(qs, q)) = Act(ps, q, Size(ps, q))
      BY <1>1, <3>3
    <3>5. 1 \in 1..Size(qs, p) /\ Size(qs, q) \in 1..Size(qs, q)
      BY <1>0, <1>1, <3>1, <3>3, <3>4
    <3>6. Act(qs, p, 1) = Act(ps, p, 1) /\ Act(ps, p, 1) # a /\ Act(ps, q, Size(ps, q)) # a
      BY <1>4, <3>3, <3>4, <3>5
    <3> QED BY <3>1, <3>4, <3>6 DEF p, q
  <2> QED BY <2>1, Zenon DEF Linked
<1>12. Orphaned(qs, ds, list)
  <2> DEFINE p == list[Len(list)]
             c == cs[Act(ps, p, 1)].sender
  <2>1. p \in Pages /\ Size(ps, p) >= 1
    BY <1>0
  <2> HIDE DEF p
  <2>2. 1 \in 1..Size(qs, p)
    BY <1>0, <1>1, <2>1
  <2>3. Act(qs, p, 1) = Act(ps, p, 1) /\ Act(ps, p, 1) # a
    BY <1>4, <2>1, <2>2
  <2> SUFFICES ASSUME Act(qs, p, 1) # Terminal
               PROVE  /\ Act(qs, p, 1) \in DOMAIN ds
                      /\ ds[Act(qs, p, 1)].sender \in Acts /\ ds[Act(qs, p, 1)].sender \in DOMAIN ds
                      /\ ds[ds[Act(qs, p, 1)].sender].sender \in Acts \cup {Terminal}
                      /\ ~OnFrame(qs, ds[Act(qs, p, 1)].sender)
    BY Zenon DEF Orphaned, p
  <2>4. /\ Act(ps, p, 1) \in DOMAIN cs /\ c \in Acts /\ c \in DOMAIN cs
        /\ cs[c].sender \in Acts \cup {Terminal} /\ ~OnFrame(ps, c)
    BY <2>3, Zenon DEF Good, Orphaned, p
  <2>5. Act(qs, p, 1) \in DOMAIN ds /\ ds[Act(qs, p, 1)].sender = c
    BY <2>3, <2>4
  <2> HIDE DEF c
  <2>6. c # a
    BY <1>3, <2>4
  <2>7. ~OnFrame(qs, c)
    BY <1>4, <2>4 DEF OnFrame
  <2>8. c \in DOMAIN ds /\ ds[c].sender = cs[c].sender
    BY <2>4, <2>6
  <2> QED BY <2>4, <2>5, <2>7, <2>8
<1> QED BY <1>6, <1>7, <1>8, <1>9, <1>10, <1>11, <1>12 DEF Good

\* The frame i of page p is married, unless it is; contexts may change but for their senders.
LEMMA FrameMarried ==
  ASSUME NEW ps, NEW cs, NEW cur, NEW list, Good(ps, cs, cur, list),
         NEW p \in Pages, NEW i \in 1..Size(ps, p), NEW ds, Typed(ps, ds),
         DOMAIN ds = DOMAIN cs \cup {Act(ps, p, i)},
         \A b \in DOMAIN cs : ds[b].sender = cs[b].sender,
         Act(ps, p, i) \notin DOMAIN cs => ds[Act(ps, p, i)].sender = <<p, i>>
  PROVE  /\ Good(ps, ds, cur, list)
         /\ \A a : Idle(ps, cs, a) => Idle(ps, ds, a)
<1> DEFINE s == Act(ps, p, i)
<1>0. /\ \A q \in Pages : Size(ps, q) \in Nat /\ Size(ps, q) <= PageWords
      /\ Len(list) \in Nat \ {0} /\ DOMAIN list = 1..Len(list)
      /\ \A n \in 1..Len(list) : list[n] \in Pages /\ Size(ps, list[n]) >= 1
  BY Facts
<1>1. OnFrame(ps, s)
  BY DEF OnFrame
<1>2. \A q, r \in Pages : \A j \in 1..Size(ps, q), k \in 1..Size(ps, r) :
            Act(ps, q, j) = Act(ps, r, k) => q = r /\ j = k
  BY Zenon DEF Good, Separate
<1> HIDE DEF s
<1>3. /\ DOMAIN ds = DOMAIN cs \cup {s}
      /\ s \notin DOMAIN cs => ds[s].sender = <<p, i>>
      /\ \A q \in Pages : \A j \in 1..Size(ps, q) : Act(ps, q, j) = s => q = p /\ j = i
      /\ Act(ps, p, i) = s
  BY <1>2 DEF s
<1>4. Wed(ps, ds)
  <2>1. \A q \in Pages : \A j \in 1..Size(ps, q) :
          j > 1 /\ Act(ps, q, j) \in DOMAIN cs => cs[Act(ps, q, j)].sender = <<q, j>>
    BY Zenon DEF Good, Wed
  <2>2. ASSUME NEW q \in Pages, NEW j \in 1..Size(ps, q), j > 1, Act(ps, q, j) \in DOMAIN ds
        PROVE  ds[Act(ps, q, j)].sender = <<q, j>>
    <3>1. CASE Act(ps, q, j) \in DOMAIN cs
      BY <2>1, <2>2, <3>1
    <3>2. CASE Act(ps, q, j) \notin DOMAIN cs
      <4>1. Act(ps, q, j) = s
        BY <1>3, <2>2, <3>2
      <4> QED BY <1>3, <3>2, <4>1
    <3> QED BY <3>1, <3>2
  <2> QED BY <2>2 DEF Wed
<1>5. Faithful(ps, ds)
  <2>1. \A b \in DOMAIN cs \ {Terminal} : \A q \in Pages, j \in 1..PageWords :
          cs[b].sender = <<q, j>> => j <= Size(ps, q) /\ Act(ps, q, j) = b
    BY Zenon DEF Good, Faithful
  <2>2. ASSUME NEW b \in DOMAIN ds \ {Terminal}, NEW q \in Pages, NEW j \in 1..PageWords,
               ds[b].sender = <<q, j>>
        PROVE  j <= Size(ps, q) /\ Act(ps, q, j) = b
    <3>1. CASE b \in DOMAIN cs
      BY <2>1, <2>2, <3>1
    <3>2. CASE b \notin DOMAIN cs
      <4>1. b = s /\ <<q, j>> = <<p, i>>
        BY <1>3, <2>2, <3>2
      <4> QED BY <1>0, <1>3, <4>1
    <3> QED BY <3>1, <3>2
  <2> QED BY <2>2 DEF Faithful
<1>6. Linked(ps, ds, list)
  <2>1. ASSUME NEW n \in DOMAIN list, n < Len(list)
        PROVE  LET q == list[n]
                   r == list[n + 1]
               IN /\ Size(ps, r) >= 2 /\ Act(ps, q, 1) # Terminal /\ Act(ps, q, 1) \in DOMAIN ds
                  /\ Act(ps, r, Size(ps, r)) \in DOMAIN ds
                  /\ ds[Act(ps, q, 1)].sender = Act(ps, r, Size(ps, r))
    <3> DEFINE q == list[n]
               r == list[n + 1]
    <3>1. /\ Size(ps, r) >= 2 /\ Act(ps, q, 1) # Terminal /\ Act(ps, q, 1) \in DOMAIN cs
          /\ Act(ps, r, Size(ps, r)) \in DOMAIN cs
          /\ cs[Act(ps, q, 1)].sender = Act(ps, r, Size(ps, r))
      BY <2>1, Zenon DEF Good, Linked
    <3> HIDE DEF q, r
    <3> QED BY <1>3, <3>1 DEF q, r
  <2> QED BY <2>1, Zenon DEF Linked
<1>7. Orphaned(ps, ds, list)
  <2> DEFINE q == list[Len(list)]
             c == cs[Act(ps, q, 1)].sender
  <2> HIDE DEF q
  <2> SUFFICES ASSUME Act(ps, q, 1) # Terminal
               PROVE  /\ Act(ps, q, 1) \in DOMAIN ds
                      /\ ds[Act(ps, q, 1)].sender \in Acts /\ ds[Act(ps, q, 1)].sender \in DOMAIN ds
                      /\ ds[ds[Act(ps, q, 1)].sender].sender \in Acts \cup {Terminal}
                      /\ ~OnFrame(ps, ds[Act(ps, q, 1)].sender)
    BY Zenon DEF Orphaned, q
  <2>1. /\ Act(ps, q, 1) \in DOMAIN cs /\ c \in Acts /\ c \in DOMAIN cs
        /\ cs[c].sender \in Acts \cup {Terminal} /\ ~OnFrame(ps, c)
    BY Zenon DEF Good, Orphaned, q
  <2>2. ds[Act(ps, q, 1)].sender = c
    BY <2>1
  <2> HIDE DEF c
  <2> QED BY <1>3, <2>1, <2>2
<1>8. \A a : Idle(ps, cs, a) => Idle(ps, ds, a)
  <2> SUFFICES ASSUME NEW a, Idle(ps, cs, a) PROVE Idle(ps, ds, a)
    OBVIOUS
  <2>1. a \in Acts /\ ~OnFrame(ps, a) /\ (a \in DOMAIN cs => cs[a].sender = Nil)
    BY DEF Idle
  <2>2. a # s
    BY <1>1, <2>1
  <2> QED BY <1>3, <2>1, <2>2 DEF Idle
<1> QED BY <1>4, <1>5, <1>6, <1>7, <1>8, Zenon DEF Good

\* The contents of a frame change, but neither its activation nor its size.
LEMMA FrameChanged ==
  ASSUME NEW ps, NEW cs, NEW cur, NEW list, Good(ps, cs, cur, list),
         NEW qs, Typed(qs, cs), Sized(qs),
         \A p \in Pages : /\ qs[p].prev = ps[p].prev /\ qs[p].next = ps[p].next
                          /\ qs[p].head = ps[p].head /\ Size(qs, p) = Size(ps, p)
                          /\ \A i \in 1..Size(ps, p) : Act(qs, p, i) = Act(ps, p, i)
  PROVE  Good(qs, cs, cur, list)
<1>0. /\ \A p \in Pages : Size(ps, p) \in Nat /\ Size(ps, p) <= PageWords
      /\ \A p \in Pages : Used(qs, p) <=> Used(ps, p)
      /\ Len(list) \in Nat \ {0} /\ DOMAIN list = 1..Len(list)
      /\ \A n \in 1..Len(list) : list[n] \in Pages /\ Size(ps, list[n]) >= 1
  <2>1. \A p \in Pages : Size(qs, p) \in Nat /\ (Used(qs, p) <=> Size(qs, p) >= 1)
    BY FramesOfPage DEF Typed
  <2> QED BY <2>1, Facts
<1>1. Listed(qs, cur, list)
  BY <1>0, ListedKept DEF Good
<1>2. Separate(qs)
  <2>1. /\ \A p, q \in Pages : \A i \in 1..Size(ps, p), j \in 1..Size(ps, q) :
            Act(ps, p, i) = Act(ps, q, j) => p = q /\ i = j
        /\ \A p \in Pages : \A i \in 1..Size(ps, p) : Act(ps, p, i) = Terminal => i = 1
    BY Zenon DEF Good, Separate
  <2> QED BY <2>1 DEF Separate
<1>3. Headed(qs, cur)
  BY <1>0 DEF Good, Headed
<1>4. Wed(qs, cs)
  BY DEF Good, Wed
<1>5. Faithful(qs, cs)
  <2>1. ASSUME NEW b \in DOMAIN cs \ {Terminal}, NEW p \in Pages, NEW i \in 1..PageWords,
               cs[b].sender = <<p, i>>
        PROVE  i <= Size(qs, p) /\ Act(qs, p, i) = b
    <3>1. i <= Size(ps, p) /\ Act(ps, p, i) = b
      BY <2>1, Zenon DEF Good, Faithful
    <3>2. i \in 1..Size(ps, p)
      BY <1>0, <3>1, FrameSizes
    <3> QED BY <3>1, <3>2
  <2> QED BY <2>1 DEF Faithful
<1>6. Linked(qs, cs, list)
  <2>1. ASSUME NEW n \in DOMAIN list, n < Len(list)
        PROVE  LET q == list[n]
                   r == list[n + 1]
               IN /\ Size(qs, r) >= 2 /\ Act(qs, q, 1) # Terminal /\ Act(qs, q, 1) \in DOMAIN cs
                  /\ Act(qs, r, Size(qs, r)) \in DOMAIN cs
                  /\ cs[Act(qs, q, 1)].sender = Act(qs, r, Size(qs, r))
    <3> DEFINE q == list[n]
               r == list[n + 1]
    <3>1. /\ Size(ps, r) >= 2 /\ Act(ps, q, 1) # Terminal /\ Act(ps, q, 1) \in DOMAIN cs
          /\ Act(ps, r, Size(ps, r)) \in DOMAIN cs
          /\ cs[Act(ps, q, 1)].sender = Act(ps, r, Size(ps, r))
      BY <2>1, Zenon DEF Good, Linked
    <3>2. n + 1 \in 1..Len(list) /\ n \in 1..Len(list)
      BY <1>0, <2>1
    <3>3. q \in Pages /\ r \in Pages /\ Size(ps, q) >= 1
      BY <1>0, <3>2
    <3> HIDE DEF q, r
    <3>4. 1 \in 1..Size(ps, q) /\ Size(ps, r) \in 1..Size(ps, r)
      BY <1>0, <3>1, <3>3
    <3>5. /\ Act(qs, q, 1) = Act(ps, q, 1) /\ Size(qs, r) = Size(ps, r)
          /\ Act(qs, r, Size(qs, r)) = Act(ps, r, Size(ps, r))
      BY <3>3, <3>4
    <3> QED BY <3>1, <3>5 DEF q, r
  <2> QED BY <2>1, Zenon DEF Linked
<1>7. Orphaned(qs, cs, list)
  <2> DEFINE q == list[Len(list)]
             c == cs[Act(ps, q, 1)].sender
  <2>1. q \in Pages /\ 1 \in 1..Size(ps, q)
    BY <1>0
  <2> HIDE DEF q
  <2>2. Act(qs, q, 1) = Act(ps, q, 1)
    BY <2>1
  <2> SUFFICES ASSUME Act(qs, q, 1) # Terminal
               PROVE  /\ Act(qs, q, 1) \in DOMAIN cs
                      /\ cs[Act(qs, q, 1)].sender \in Acts /\ cs[Act(qs, q, 1)].sender \in DOMAIN cs
                      /\ cs[cs[Act(qs, q, 1)].sender].sender \in Acts \cup {Terminal}
                      /\ ~OnFrame(qs, cs[Act(qs, q, 1)].sender)
    BY Zenon DEF Orphaned, q
  <2>3. /\ Act(ps, q, 1) \in DOMAIN cs /\ c \in Acts /\ c \in DOMAIN cs
        /\ cs[c].sender \in Acts \cup {Terminal} /\ ~OnFrame(ps, c)
    BY <2>2, Zenon DEF Good, Orphaned, q
  <2> HIDE DEF c
  <2>4. ~OnFrame(qs, c)
    BY <2>3 DEF OnFrame
  <2> QED BY <2>2, <2>3, <2>4 DEF c
<1> QED BY <1>1, <1>2, <1>3, <1>4, <1>5, <1>6, <1>7 DEF Good

\* A frame is put on a free page, which becomes the current one, and gets married
\* with the last frame of the page before as its sender.
FollowedBy(ps, qs, cur, x) ==
  \A p \in Pages \ {x} :
    /\ qs[p].frames = ps[p].frames /\ qs[p].prev = ps[p].prev
    /\ qs[p].head = IF p = cur THEN Size(ps, cur) ELSE ps[p].head
    /\ qs[p].next = IF p = cur THEN x ELSE ps[p].next

\* A new page for a new frame is put in front of the list, and the invariant holds.
LEMMA PageTaken ==
  ASSUME NEW ps, NEW cs, NEW cur, NEW list, Good(ps, cs, cur, list),
         NEW x \in Pages, Size(ps, x) = 0,
         NEW s, s = Act(ps, cur, Size(ps, cur)), Size(ps, cur) >= 2, s \in DOMAIN cs,
         NEW a, Idle(ps, cs, a),
         NEW qs, NEW ds, Typed(qs, ds), Sized(qs),
         FollowedBy(ps, qs, cur, x),
         Size(qs, x) = 1, Act(qs, x, 1) = a, qs[x].prev = cur, qs[x].next = NoPage,
         DOMAIN ds = DOMAIN cs \cup {a}, ds[a].sender = s,
         \A b \in DOMAIN cs \ {a} : ds[b].sender = cs[b].sender
  PROVE  Good(qs, ds, x, <<x>> \o list)
<1> USE DEF FollowedBy
<1> DEFINE new == <<x>> \o list
<1>0. /\ \A p \in Pages : Size(ps, p) \in Nat /\ Size(qs, p) \in Nat /\ Size(ps, p) <= PageWords
      /\ \A p \in Pages : Used(ps, p) <=> Size(ps, p) >= 1
      /\ \A p \in Pages : Used(qs, p) <=> Size(qs, p) >= 1
  <2>1. \A p \in Pages : Size(qs, p) \in Nat /\ (Used(qs, p) <=> Size(qs, p) >= 1)
    BY FramesOfPage DEF Typed
  <2> QED BY <2>1, Facts
<1>l. /\ Len(list) \in Nat \ {0} /\ DOMAIN list = 1..Len(list)
      /\ cur \in Pages /\ list[1] = cur
      /\ \A n \in 1..Len(list) : list[n] \in Pages /\ Size(ps, list[n]) >= 1
      /\ \A m, n \in 1..Len(list) : list[m] = list[n] => m = n
  BY Facts
<1>n. /\ new \in Seq(Pages) /\ Len(new) = Len(list) + 1 /\ DOMAIN new = 1..(Len(list) + 1)
      /\ new[1] = x /\ \A n \in 1..Len(list) : new[n + 1] = list[n]
  <2>1. list \in Seq(Pages)
    BY DEF Good, Listed
  <2> QED BY <2>1
<1> HIDE DEF new
<1>1. \A p \in Pages \ {x} : Size(qs, p) = Size(ps, p) /\ \A i : Act(qs, p, i) = Act(ps, p, i)
  BY DEF Size, Act
<1>2. \A p \in Pages : \A i \in 1..Size(qs, p) :
        \/ p = x /\ i = 1 /\ Act(qs, p, i) = a
        \/ p # x /\ i \in 1..Size(ps, p) /\ Act(qs, p, i) = Act(ps, p, i)
  BY <1>0, <1>1
<1>3. \A p \in Pages : \A i \in 1..Size(ps, p) :
        p # x /\ i \in 1..Size(qs, p) /\ Act(qs, p, i) = Act(ps, p, i) /\ Act(ps, p, i) # a
  <2>1. \A p \in Pages : \A i \in 1..Size(ps, p) : Act(ps, p, i) # a
    BY DEF Idle, OnFrame
  <2> QED BY <1>0, <1>1, <2>1
<1>4. a \in Acts /\ a # Terminal /\ (a \in DOMAIN cs => cs[a].sender = Nil)
  BY NamesDiffer DEF Idle
<1>5. x # cur /\ \A n \in 1..Len(list) : list[n] # x
  BY <1>l
<1>6. Listed(qs, x, new)
  <2>1. new # << >> /\ new[1] = x
    BY <1>l, <1>n
  <2>2. \A n \in DOMAIN new : n = 1 \/ (n - 1 \in 1..Len(list) /\ new[n] = list[n - 1])
    <3> TAKE n \in DOMAIN new
    <3>1. n = 1 \/ (n - 1 \in 1..Len(list) /\ (n - 1) + 1 = n)
      BY <1>l, <1>n
    <3>2. n - 1 \in 1..Len(list) => new[(n - 1) + 1] = list[n - 1]
      BY <1>n
    <3> QED BY <3>1, <3>2
  <2>3. ASSUME NEW m \in DOMAIN new, NEW n \in DOMAIN new, new[m] = new[n] PROVE m = n
    <3>1. m = 1 <=> n = 1
      BY <1>5, <1>n, <2>2, <2>3
    <3>2. CASE m = 1
      BY <3>1, <3>2
    <3>3. CASE m # 1
      <4>1. m - 1 = n - 1
        BY <1>l, <2>2, <2>3, <3>1, <3>3
      <4>2. m \in Nat /\ n \in Nat
        BY <1>l, <1>n
      <4> QED BY <4>1, <4>2
    <3> QED BY <3>2, <3>3
  <2>4. ASSUME NEW p \in Pages PROVE Used(qs, p) <=> \E n \in DOMAIN new : new[n] = p
    <3>1. CASE p = x
      <4>1. 1 \in DOMAIN new
        BY <1>l, <1>n
      <4> QED BY <3>1, <4>1, <1>0, <1>n
    <3>2. CASE p # x
      <4>1. Used(qs, p) <=> \E n \in 1..Len(list) : list[n] = p
        <5>1. Used(ps, p) <=> \E n \in 1..Len(list) : list[n] = p
          <6>1. Used(ps, p) <=> \E n \in DOMAIN list : list[n] = p
            BY Zenon DEF Good, Listed
          <6>2. DOMAIN list = 1..Len(list)
            BY <1>l
          <6> QED BY <6>1, <6>2
        <5>2. Size(qs, p) = Size(ps, p)
          BY <1>1, <3>2
        <5>3. (Used(ps, p) <=> Size(ps, p) >= 1) /\ (Used(qs, p) <=> Size(qs, p) >= 1)
          BY <1>0
        <5> QED BY <5>1, <5>2, <5>3
      <4>2. (\E n \in DOMAIN new : new[n] = p) => \E n \in 1..Len(list) : list[n] = p
        <5> SUFFICES ASSUME NEW n \in DOMAIN new, new[n] = p
                     PROVE  \E k \in 1..Len(list) : list[k] = p
          OBVIOUS
        <5>1. n # 1
          BY <1>n, <3>2
        <5>2. n - 1 \in 1..Len(list) /\ list[n - 1] = p
          BY <2>2, <5>1
        <5> QED BY <5>2
      <4>3. \A n \in 1..Len(list) : n + 1 \in DOMAIN new /\ new[n + 1] = list[n]
        BY <1>l, <1>n
      <4> QED BY <4>1, <4>2, <4>3
    <3> QED BY <3>1, <3>2
  <2>5. ASSUME NEW n \in DOMAIN new
        PROVE  /\ qs[new[n]].prev = IF n = Len(new) THEN NoPage ELSE new[n + 1]
               /\ qs[new[n]].next = IF n = 1 THEN NoPage ELSE new[n - 1]
    <3>1. CASE n = 1
      <4>1. 1 \in 1..Len(list) /\ 1 # Len(new)
        BY <1>l, <1>n
      <4>2. new[1 + 1] = cur
        BY <4>1, <1>l, <1>n
      <4> QED BY <3>1, <4>1, <4>2, <1>n
    <3>2. CASE n # 1
      <4> DEFINE m == n - 1
      <4>1. m \in 1..Len(list) /\ new[n] = list[m] /\ n = m + 1
        BY <2>2, <3>2, <1>n, <1>l
      <4> HIDE DEF m
      <4>2. /\ ps[list[m]].prev = IF m = Len(list) THEN NoPage ELSE list[m + 1]
            /\ ps[list[m]].next = IF m = 1 THEN NoPage ELSE list[m - 1]
        BY <4>1, <1>l, Zenon DEF Good, Listed
      <4>3. /\ qs[list[m]].prev = ps[list[m]].prev
            /\ qs[list[m]].next = IF list[m] = cur THEN x ELSE ps[list[m]].next
        BY <4>1, <1>5, <1>l
      <4>4. m = Len(list) <=> n = Len(new)
        BY <4>1, <1>n, <1>l
      <4>5. m # Len(list) => new[n + 1] = list[m + 1]
        <5> SUFFICES ASSUME m # Len(list) PROVE new[n + 1] = list[m + 1]
          OBVIOUS
        <5> DEFINE k == m + 1
        <5>0. Len(list) \in Nat
          BY <1>l
        <5>1. k \in 1..Len(list) /\ n = k
          BY <4>1, <5>0
        <5> HIDE DEF k
        <5>2. new[k + 1] = list[k]
          BY <5>1, <1>n
        <5> QED BY <5>1, <5>2 DEF k
      <4>6. list[m] = cur <=> m = 1
        BY <4>1, <1>l
      <4>7. m = 1 => new[n - 1] = x
        BY <4>1, <1>n
      <4>8. m # 1 => new[n - 1] = list[m - 1]
        <5>1. m # 1 => m - 1 \in 1..Len(list) /\ n - 1 = (m - 1) + 1
          BY <4>1, <1>l
        <5> QED BY <5>1, <1>n
      <4> QED BY <3>2, <4>1, <4>2, <4>3, <4>4, <4>5, <4>6, <4>7, <4>8
    <3> QED BY <3>1, <3>2
  <2>6. \A p \in Pages : ~Used(qs, p) => qs[p].prev = NoPage
    <3>1. \A p \in Pages : ~Used(ps, p) => ps[p].prev = NoPage
      BY Zenon DEF Good, Listed
    <3> QED BY <3>1, <1>0, <1>1
  <2> QED BY <1>n, <2>1, <2>3, <2>4, <2>5, <2>6, Zenon DEF Listed
<1>7. Separate(qs)
  <2>1. /\ \A p, q \in Pages : \A i \in 1..Size(ps, p), j \in 1..Size(ps, q) :
            Act(ps, p, i) = Act(ps, q, j) => p = q /\ i = j
        /\ \A p \in Pages : \A i \in 1..Size(ps, p) : Act(ps, p, i) = Terminal => i = 1
    BY Zenon DEF Good, Separate
  <2>2. ASSUME NEW p \in Pages, NEW q \in Pages, NEW i \in 1..Size(qs, p), NEW j \in 1..Size(qs, q),
               Act(qs, p, i) = Act(qs, q, j)
        PROVE  p = q /\ i = j
    BY <1>2, <1>3, <2>1, <2>2
  <2>3. ASSUME NEW p \in Pages, NEW i \in 1..Size(qs, p), Act(qs, p, i) = Terminal PROVE i = 1
    BY <1>2, <1>4, <2>1, <2>3
  <2> QED BY <2>2, <2>3 DEF Separate
<1>8. Headed(qs, x)
  <2>1. \A p \in Pages : Used(ps, p) /\ p # cur => ps[p].head = Size(ps, p)
    BY Zenon DEF Good, Headed
  <2> QED BY <1>0, <1>1, <2>1 DEF Headed
<1>9. Wed(qs, ds)
  <2>1. \A p \in Pages : \A i \in 1..Size(ps, p) :
          i > 1 /\ Act(ps, p, i) \in DOMAIN cs => cs[Act(ps, p, i)].sender = <<p, i>>
    BY Zenon DEF Good, Wed
  <2>2. ASSUME NEW p \in Pages, NEW i \in 1..Size(qs, p), i > 1, Act(qs, p, i) \in DOMAIN ds
        PROVE  ds[Act(qs, p, i)].sender = <<p, i>>
    <3>1. i \in 1..Size(ps, p) /\ Act(qs, p, i) = Act(ps, p, i)
      BY <1>2, <2>2
    <3>2. Act(ps, p, i) # a
      BY <1>3, <3>1
    <3> QED BY <2>1, <2>2, <3>1, <3>2
  <2> QED BY <2>2 DEF Wed
<1>10. Faithful(qs, ds)
  <2>1. \A b \in DOMAIN cs \ {Terminal} : \A p \in Pages, i \in 1..PageWords :
          cs[b].sender = <<p, i>> => i <= Size(ps, p) /\ Act(ps, p, i) = b
    BY Zenon DEF Good, Faithful
  <2>2. ASSUME NEW b \in DOMAIN ds \ {Terminal}, NEW p \in Pages, NEW i \in 1..PageWords,
               ds[b].sender = <<p, i>>
        PROVE  i <= Size(qs, p) /\ Act(qs, p, i) = b
    <3>1. s \in Acts \cup {Terminal}
      <4>1. \A i_1 \in 1..Size(ps, cur) : Act(ps, cur, i_1) \in Acts \cup {Terminal}
        BY <1>l, Facts
      <4>2. Size(ps, cur) \in 1..Size(ps, cur)
        BY <1>0, <1>l
      <4> QED BY <4>1, <4>2
    <3>2. b # a
      <4>1. <<p, i>> # s
        BY <3>1, NamesDiffer
      <4> QED BY <2>2, <4>1
    <3>3. i <= Size(ps, p) /\ Act(ps, p, i) = b
      BY <2>1, <2>2, <3>2
    <3>4. i \in 1..Size(ps, p)
      BY <1>0, <1>l, <3>3, FrameSizes
    <3> QED BY <1>3, <3>3, <3>4
  <2> QED BY <2>2 DEF Faithful
<1>11. Linked(qs, ds, new)
  <2>1. ASSUME NEW n \in DOMAIN new, n < Len(new)
        PROVE  LET p == new[n]
                   q == new[n + 1]
               IN /\ Size(qs, q) >= 2 /\ Act(qs, p, 1) # Terminal /\ Act(qs, p, 1) \in DOMAIN ds
                  /\ Act(qs, q, Size(qs, q)) \in DOMAIN ds
                  /\ ds[Act(qs, p, 1)].sender = Act(qs, q, Size(qs, q))
    <3> DEFINE p == new[n]
               q == new[n + 1]
    <3>1. CASE n = 1
      <4>1. p = x /\ q = cur
        <5>1. 1 \in 1..Len(list)
          BY <1>l
        <5> QED BY <5>1, <3>1, <1>n, <1>l
      <4>2. Size(qs, cur) = Size(ps, cur) /\ Act(qs, cur, Size(qs, cur)) = s
        BY <1>1, <1>5, <1>l
      <4> QED BY <4>1, <4>2, <1>4
    <3>2. CASE n # 1
      <4> DEFINE m == n - 1
      <4>1. m \in 1..Len(list) /\ n = m + 1 /\ m < Len(list) /\ m + 1 \in 1..Len(list)
        BY <2>1, <3>2, <1>n, <1>l
      <4> HIDE DEF m
      <4>2. p = list[m] /\ q = list[m + 1]
        BY <4>1, <1>n
      <4>3. p \in Pages /\ q \in Pages /\ p # x /\ q # x /\ Size(ps, p) >= 1
        BY <4>1, <4>2, <1>5, <1>l
      <4>4. /\ Size(ps, list[m + 1]) >= 2 /\ Act(ps, list[m], 1) # Terminal
            /\ Act(ps, list[m], 1) \in DOMAIN cs
            /\ Act(ps, list[m + 1], Size(ps, list[m + 1])) \in DOMAIN cs
            /\ cs[Act(ps, list[m], 1)].sender = Act(ps, list[m + 1], Size(ps, list[m + 1]))
        BY <4>1, <1>l, Zenon DEF Good, Linked
      <4> HIDE DEF p, q
      <4>5. 1 \in 1..Size(ps, p) /\ Size(ps, q) \in 1..Size(ps, q)
        BY <1>0, <4>2, <4>3, <4>4
      <4>6. /\ Act(qs, p, 1) = Act(ps, p, 1) /\ Act(ps, p, 1) # a
            /\ Size(qs, q) = Size(ps, q) /\ Act(qs, q, Size(qs, q)) = Act(ps, q, Size(ps, q))
        BY <1>1, <1>3, <4>3, <4>5
      <4> QED BY <4>2, <4>4, <4>6 DEF p, q
    <3> QED BY <3>1, <3>2
  <2> QED BY <2>1, Zenon DEF Linked
<1>12. Orphaned(qs, ds, new)
  <2> DEFINE p == new[Len(new)]
             c == cs[Act(ps, p, 1)].sender
  <2>1. p = list[Len(list)] /\ p \in Pages /\ p # x /\ Size(ps, p) >= 1
    <3>1. Len(list) \in 1..Len(list)
      BY <1>l
    <3> QED BY <3>1, <1>n, <1>l, <1>5
  <2> HIDE DEF p
  <2>2. Act(qs, p, 1) = Act(ps, p, 1) /\ Act(ps, p, 1) # a
    <3>1. 1 \in 1..Size(ps, p)
      BY <1>0, <2>1
    <3> QED BY <3>1, <1>3, <2>1
  <2> SUFFICES ASSUME Act(qs, p, 1) # Terminal
               PROVE  /\ Act(qs, p, 1) \in DOMAIN ds
                      /\ ds[Act(qs, p, 1)].sender \in Acts /\ ds[Act(qs, p, 1)].sender \in DOMAIN ds
                      /\ ds[ds[Act(qs, p, 1)].sender].sender \in Acts \cup {Terminal}
                      /\ ~OnFrame(qs, ds[Act(qs, p, 1)].sender)
    BY Zenon DEF Orphaned, p
  <2>3. /\ Act(ps, list[Len(list)], 1) # Terminal =>
             /\ Act(ps, list[Len(list)], 1) \in DOMAIN cs
             /\ cs[Act(ps, list[Len(list)], 1)].sender \in Acts
             /\ cs[Act(ps, list[Len(list)], 1)].sender \in DOMAIN cs
             /\ cs[cs[Act(ps, list[Len(list)], 1)].sender].sender \in Acts \cup {Terminal}
             /\ ~OnFrame(ps, cs[Act(ps, list[Len(list)], 1)].sender)
    BY Zenon DEF Good, Orphaned
  <2>4. /\ Act(ps, p, 1) \in DOMAIN cs /\ c \in Acts /\ c \in DOMAIN cs
        /\ cs[c].sender \in Acts \cup {Terminal} /\ ~OnFrame(ps, c)
    BY <2>1, <2>2, <2>3
  <2>5. Act(qs, p, 1) \in DOMAIN ds /\ ds[Act(qs, p, 1)].sender = c
    BY <2>2, <2>4
  <2> HIDE DEF c
  <2>6. c # a
    BY <1>4, <2>4, NamesDiffer
  <2>7. ~OnFrame(qs, c)
    BY <1>2, <2>4, <2>6 DEF OnFrame
  <2>8. c \in DOMAIN ds /\ ds[c].sender = cs[c].sender
    BY <2>4, <2>6
  <2> QED BY <2>4, <2>5, <2>7, <2>8
<1> QED BY <1>6, <1>7, <1>8, <1>9, <1>10, <1>11, <1>12 DEF Good, new

\* Page x leaves the list.
Removed(ps, qs, x) ==
  /\ Size(qs, x) = 0 /\ qs[x].prev = NoPage
  /\ \A p \in Pages \ {x} :
       /\ qs[p].frames = ps[p].frames /\ qs[p].head = ps[p].head
       /\ qs[p].prev = IF ps[p].prev = x THEN ps[x].prev ELSE ps[p].prev
       /\ qs[p].next = IF ps[p].next = x THEN ps[x].next ELSE ps[p].next

OnPage(ps, x, a) == \E i \in 1..Size(ps, x) : Act(ps, x, i) = a

\* The contexts of the frames of page x no longer name a frame, and the others stay.
Separated(ps, cs, ds, x) ==
  /\ \A a \in DOMAIN cs : ~OnPage(ps, x, a) => a \in DOMAIN ds /\ ds[a].sender = cs[a].sender
  /\ \A a \in DOMAIN ds : ~OnPage(ps, x, a) => a \in DOMAIN cs
  /\ \A a \in DOMAIN ds \ {Terminal} : OnPage(ps, x, a) => ds[a].sender \in Acts \cup {Terminal, Nil}

LinkedTo(ps, cs, p, q) ==
  /\ Size(ps, q) >= 2 /\ Act(ps, p, 1) # Terminal /\ Act(ps, p, 1) \in DOMAIN cs
  /\ Act(ps, q, Size(ps, q)) \in DOMAIN cs
  /\ cs[Act(ps, p, 1)].sender = Act(ps, q, Size(ps, q))

Orphan(ps, cs, p) ==
  Act(ps, p, 1) # Terminal =>
    /\ Act(ps, p, 1) \in DOMAIN cs
    /\ cs[Act(ps, p, 1)].sender \in Acts /\ cs[Act(ps, p, 1)].sender \in DOMAIN cs
    /\ cs[cs[Act(ps, p, 1)].sender].sender \in Acts \cup {Terminal}
    /\ ~OnFrame(ps, cs[Act(ps, p, 1)].sender)

\* The links of a list, page by page.
LEMMA LinksAndOrphans ==
  ASSUME NEW ps, NEW cs, NEW list, Len(list) \in Nat, DOMAIN list = 1..Len(list)
  PROVE  /\ Linked(ps, cs, list) <=>
              \A n \in 1..Len(list) : n < Len(list) => LinkedTo(ps, cs, list[n], list[n + 1])
         /\ Orphaned(ps, cs, list) <=> Orphan(ps, cs, list[Len(list)])
<1>1. Linked(ps, cs, list) <=>
              \A n \in DOMAIN list : n < Len(list) => LinkedTo(ps, cs, list[n], list[n + 1])
  BY Zenon DEF Linked, LinkedTo
<1>2. Orphaned(ps, cs, list) <=> Orphan(ps, cs, list[Len(list)])
  BY Zenon DEF Orphaned, Orphan
<1> QED BY <1>1, <1>2

\* Without a page whose contexts are separated the other pages keep what they have.
LEMMA PageRemoved ==
  ASSUME NEW ps, NEW cs, NEW cur, NEW list, Good(ps, cs, cur, list), NEW x \in Pages,
         NEW qs, NEW ds, Typed(qs, ds), Removed(ps, qs, x), Separated(ps, cs, ds, x)
  PROVE  /\ Sized(ps) => Sized(qs)
         /\ Separate(qs) /\ Wed(qs, ds) /\ Faithful(qs, ds)
         /\ \A p, q \in Pages \ {x} : Size(ps, p) >= 1 /\ LinkedTo(ps, cs, p, q) => LinkedTo(qs, ds, p, q)
         /\ \A p \in Pages \ {x} : Size(ps, p) >= 1 /\ Orphan(ps, cs, p) => Orphan(qs, ds, p)
         /\ \A p \in Pages \ {x} : Used(qs, p) <=> Used(ps, p)
         /\ ~Used(qs, x)
<1>0. /\ \A p \in Pages : Size(ps, p) \in Nat /\ Size(qs, p) \in Nat /\ Size(ps, p) <= PageWords
      /\ \A p \in Pages : Used(ps, p) <=> Size(ps, p) >= 1
      /\ \A p \in Pages : Used(qs, p) <=> Size(qs, p) >= 1
  <2>1. \A p \in Pages : Size(qs, p) \in Nat /\ (Used(qs, p) <=> Size(qs, p) >= 1)
    BY FramesOfPage DEF Typed
  <2> QED BY <2>1, Facts
<1>1. /\ \A p \in Pages \ {x} : Size(qs, p) = Size(ps, p) /\ \A i : Act(qs, p, i) = Act(ps, p, i)
      /\ Size(qs, x) = 0
  BY DEF Size, Act, Removed
<1>2. /\ \A p, q \in Pages : \A i \in 1..Size(ps, p), j \in 1..Size(ps, q) :
            Act(ps, p, i) = Act(ps, q, j) => p = q /\ i = j
      /\ \A p \in Pages : \A i \in 1..Size(ps, p) : Act(ps, p, i) = Terminal => i = 1
  BY Zenon DEF Good, Separate
<1>3. \A p \in Pages : \A i \in 1..Size(qs, p) :
        p # x /\ i \in 1..Size(ps, p) /\ Act(qs, p, i) = Act(ps, p, i)
  BY <1>0, <1>1
<1>4. \A p \in Pages \ {x} : \A i \in 1..Size(ps, p) : ~OnPage(ps, x, Act(ps, p, i))
  BY <1>2 DEF OnPage
<1>5. /\ \A a \in DOMAIN cs : ~OnPage(ps, x, a) => a \in DOMAIN ds /\ ds[a].sender = cs[a].sender
      /\ \A a \in DOMAIN ds : ~OnPage(ps, x, a) => a \in DOMAIN cs
      /\ \A a \in DOMAIN ds \ {Terminal} : OnPage(ps, x, a) => ds[a].sender \in Acts \cup {Terminal, Nil}
  BY Zenon DEF Separated
<1>6. Sized(ps) => Sized(qs)
  <2>1. HaveSizes(qs[x].frames) /\ Len(qs[x].frames) = 0
    BY <1>1, FramesOfPage DEF Typed, Size
  <2>2. Words(qs[x].frames) = 0
    BY <2>1, NoWords
  <2>3. \A p \in Pages \ {x} : qs[p].frames = ps[p].frames
    BY DEF Removed
  <2>4. ASSUME Sized(ps), NEW p \in Pages PROVE Words(qs[p].frames) + OverflowWords <= PageWords
    <3>1. CASE p = x
      <4>1. \E w \in FrameWords \cup {TerminalWords} : w + OverflowWords <= PageWords
        BY FrameSizes, StackAssumption
      <4> QED BY <3>1, <2>2, FrameSizes, <4>1
    <3>2. CASE p # x
      BY <2>3, <2>4, <3>2 DEF Sized
    <3> QED BY <3>1, <3>2
  <2> QED BY <2>4 DEF Sized
<1>7. Separate(qs)
  <2>1. ASSUME NEW p \in Pages, NEW q \in Pages, NEW i \in 1..Size(qs, p), NEW j \in 1..Size(qs, q),
               Act(qs, p, i) = Act(qs, q, j)
        PROVE  p = q /\ i = j
    BY <1>2, <1>3, <2>1
  <2>2. ASSUME NEW p \in Pages, NEW i \in 1..Size(qs, p), Act(qs, p, i) = Terminal PROVE i = 1
    BY <1>2, <1>3, <2>2
  <2> QED BY <2>1, <2>2 DEF Separate
<1>8. Wed(qs, ds)
  <2>1. \A p \in Pages : \A i \in 1..Size(ps, p) :
          i > 1 /\ Act(ps, p, i) \in DOMAIN cs => cs[Act(ps, p, i)].sender = <<p, i>>
    BY Zenon DEF Good, Wed
  <2>2. ASSUME NEW p \in Pages, NEW i \in 1..Size(qs, p), i > 1, Act(qs, p, i) \in DOMAIN ds
        PROVE  ds[Act(qs, p, i)].sender = <<p, i>>
    <3>1. p # x /\ i \in 1..Size(ps, p) /\ Act(qs, p, i) = Act(ps, p, i)
      BY <1>3
    <3>2. ~OnPage(ps, x, Act(ps, p, i))
      BY <1>4, <3>1
    <3>3. Act(ps, p, i) \in DOMAIN cs /\ ds[Act(ps, p, i)].sender = cs[Act(ps, p, i)].sender
      BY <1>5, <2>2, <3>1, <3>2
    <3> QED BY <2>1, <2>2, <3>1, <3>3
  <2> QED BY <2>2 DEF Wed
<1>9. Faithful(qs, ds)
  <2>1. \A b \in DOMAIN cs \ {Terminal} : \A p \in Pages, i \in 1..PageWords :
          cs[b].sender = <<p, i>> => i <= Size(ps, p) /\ Act(ps, p, i) = b
    BY Zenon DEF Good, Faithful
  <2>2. ASSUME NEW b \in DOMAIN ds \ {Terminal}, NEW p \in Pages, NEW i \in 1..PageWords,
               ds[b].sender = <<p, i>>
        PROVE  i <= Size(qs, p) /\ Act(qs, p, i) = b
    <3>1. ~OnPage(ps, x, b)
      <4>1. <<p, i>> \notin Acts \cup {Terminal, Nil}
        BY NamesDiffer
      <4> QED BY <1>5, <2>2, <4>1
    <3>2. i <= Size(ps, p) /\ Act(ps, p, i) = b
      <4>1. b \in DOMAIN cs /\ cs[b].sender = <<p, i>>
        BY <1>5, <2>2, <3>1
      <4> QED BY <2>1, <4>1
    <3>3. i \in 1..Size(ps, p)
      BY <1>0, <3>2, FrameSizes
    <3>4. p # x
      BY <3>1, <3>2, <3>3 DEF OnPage
    <3> QED BY <1>1, <3>2, <3>4
  <2> QED BY <2>2 DEF Faithful
<1>10. ASSUME NEW p \in Pages \ {x}, NEW q \in Pages \ {x}, Size(ps, p) >= 1, LinkedTo(ps, cs, p, q)
       PROVE  LinkedTo(qs, ds, p, q)
  <2>1. /\ Size(ps, q) >= 2 /\ Act(ps, p, 1) # Terminal /\ Act(ps, p, 1) \in DOMAIN cs
        /\ Act(ps, q, Size(ps, q)) \in DOMAIN cs
        /\ cs[Act(ps, p, 1)].sender = Act(ps, q, Size(ps, q))
    BY <1>10, Zenon DEF LinkedTo
  <2>2. 1 \in 1..Size(ps, p) /\ Size(ps, q) \in 1..Size(ps, q)
    BY <1>0, <1>10, <2>1
  <2>3. ~OnPage(ps, x, Act(ps, p, 1)) /\ ~OnPage(ps, x, Act(ps, q, Size(ps, q)))
    BY <1>4, <2>2
  <2>4. /\ Act(ps, p, 1) \in DOMAIN ds /\ ds[Act(ps, p, 1)].sender = cs[Act(ps, p, 1)].sender
        /\ Act(ps, q, Size(ps, q)) \in DOMAIN ds
    BY <1>5, <2>1, <2>3
  <2>5. /\ Act(qs, p, 1) = Act(ps, p, 1) /\ Size(qs, q) = Size(ps, q)
        /\ Act(qs, q, Size(qs, q)) = Act(ps, q, Size(ps, q))
    BY <1>1
  <2> QED BY <2>1, <2>4, <2>5 DEF LinkedTo
<1>11. ASSUME NEW p \in Pages \ {x}, Size(ps, p) >= 1, Orphan(ps, cs, p) PROVE Orphan(qs, ds, p)
  <2> DEFINE c == cs[Act(ps, p, 1)].sender
  <2>1. Act(qs, p, 1) = Act(ps, p, 1)
    BY <1>1
  <2> SUFFICES ASSUME Act(qs, p, 1) # Terminal
               PROVE  /\ Act(qs, p, 1) \in DOMAIN ds
                      /\ ds[Act(qs, p, 1)].sender \in Acts /\ ds[Act(qs, p, 1)].sender \in DOMAIN ds
                      /\ ds[ds[Act(qs, p, 1)].sender].sender \in Acts \cup {Terminal}
                      /\ ~OnFrame(qs, ds[Act(qs, p, 1)].sender)
    BY Zenon DEF Orphan
  <2>2. /\ Act(ps, p, 1) \in DOMAIN cs /\ c \in Acts /\ c \in DOMAIN cs
        /\ cs[c].sender \in Acts \cup {Terminal} /\ ~OnFrame(ps, c)
    BY <1>11, <2>1, Zenon DEF Orphan
  <2>3. ~OnPage(ps, x, Act(ps, p, 1))
    <3>1. 1 \in 1..Size(ps, p)
      BY <1>0, <1>11
    <3> QED BY <1>4, <3>1
  <2>4. Act(ps, p, 1) \in DOMAIN ds /\ ds[Act(ps, p, 1)].sender = c
    BY <1>5, <2>2, <2>3
  <2> HIDE DEF c
  <2>5. ~OnPage(ps, x, c)
    BY <2>2 DEF OnPage, OnFrame
  <2>6. c \in DOMAIN ds /\ ds[c].sender = cs[c].sender
    BY <1>5, <2>2, <2>5
  <2>7. ~OnFrame(qs, c)
    BY <1>3, <2>2 DEF OnFrame
  <2> QED BY <2>1, <2>2, <2>4, <2>6, <2>7
<1>12. (\A p \in Pages \ {x} : Used(qs, p) <=> Used(ps, p)) /\ ~Used(qs, x)
  BY <1>0, <1>1
<1> QED BY <1>6, <1>7, <1>8, <1>9, <1>10, <1>11, <1>12

\* The current page is left for the one before it.
LEMMA PageReturned ==
  ASSUME NEW ps, NEW cs, NEW cur, NEW list, Good(ps, cs, cur, list), Len(list) >= 2,
         NEW qs, NEW ds, Typed(qs, ds), Removed(ps, qs, cur), Separated(ps, cs, ds, cur)
  PROVE  Good(qs, ds, list[2], Tail(list))
<1> DEFINE new == Tail(list)
<1>l. /\ Len(list) \in Nat \ {0, 1} /\ DOMAIN list = 1..Len(list)
      /\ cur \in Pages /\ list[1] = cur
      /\ \A n \in 1..Len(list) : list[n] \in Pages /\ Size(ps, list[n]) >= 1
      /\ \A m, n \in 1..Len(list) : list[m] = list[n] => m = n
  BY Facts
<1>n. /\ new \in Seq(Pages) /\ Len(new) = Len(list) - 1 /\ DOMAIN new = 1..(Len(list) - 1)
      /\ \A n \in 1..(Len(list) - 1) : new[n] = list[n + 1]
  <2>1. list \in Seq(Pages)
    BY DEF Good, Listed
  <2> QED BY <2>1, <1>l
<1> HIDE DEF new
<1>0. Len(list) \in Nat /\ Len(list) >= 2
  BY <1>l
<1>1. \A n \in DOMAIN new : n + 1 \in 1..Len(list) /\ n + 1 >= 2 /\ n \in Nat /\ new[n] = list[n + 1]
  <2> TAKE n \in DOMAIN new
  <2>1. n \in 1..(Len(list) - 1)
    BY <1>n
  <2> QED BY <1>0, <1>n, <2>1
<1>2. \A n \in 2..Len(list) : n - 1 \in DOMAIN new /\ new[n - 1] = list[n] /\ list[n] # cur
  <2> TAKE n \in 2..Len(list)
  <2> DEFINE m == n - 1
  <2>1. m \in 1..(Len(list) - 1) /\ m + 1 = n /\ n \in 1..Len(list) /\ 1 \in 1..Len(list) /\ n # 1
    BY <1>0
  <2> HIDE DEF m
  <2>2. new[m] = list[n] /\ m \in DOMAIN new
    BY <1>n, <2>1
  <2>3. list[n] # list[1]
    BY <1>l, <2>1
  <2> QED BY <1>l, <2>2, <2>3 DEF m
<1>3. \A n \in DOMAIN new : new[n] \in Pages \ {cur} /\ Size(ps, new[n]) >= 1
  <2> TAKE n \in DOMAIN new
  <2>1. n + 1 \in 2..Len(list) /\ n + 1 \in 1..Len(list) /\ new[n] = list[n + 1]
    BY <1>0, <1>1
  <2> QED BY <1>l, <1>2, <2>1
<1>4. new[1] = list[2] /\ 1 \in DOMAIN new /\ new[Len(new)] = list[Len(list)] /\ Len(new) \in DOMAIN new
  <2>1. 1 \in 1..(Len(list) - 1) /\ Len(list) - 1 \in 1..(Len(list) - 1) /\ (Len(list) - 1) + 1 = Len(list)
    BY <1>0
  <2>2. new[1] = list[1 + 1] /\ new[Len(list) - 1] = list[(Len(list) - 1) + 1]
    BY <1>n, <2>1
  <2> QED BY <1>n, <2>1, <2>2
<1>5. /\ Sized(qs) /\ Separate(qs) /\ Wed(qs, ds) /\ Faithful(qs, ds)
      /\ \A p, q \in Pages \ {cur} : Size(ps, p) >= 1 /\ LinkedTo(ps, cs, p, q) => LinkedTo(qs, ds, p, q)
      /\ \A p \in Pages \ {cur} : Size(ps, p) >= 1 /\ Orphan(ps, cs, p) => Orphan(qs, ds, p)
      /\ \A p \in Pages \ {cur} : Used(qs, p) <=> Used(ps, p)
      /\ ~Used(qs, cur)
  <2>1. Sized(ps)
    BY DEF Good
  <2> QED BY <1>l, <2>1, PageRemoved
<1>6. /\ qs[cur].prev = NoPage
      /\ \A p \in Pages \ {cur} :
           /\ qs[p].frames = ps[p].frames /\ qs[p].head = ps[p].head
           /\ qs[p].prev = IF ps[p].prev = cur THEN ps[cur].prev ELSE ps[p].prev
           /\ qs[p].next = IF ps[p].next = cur THEN ps[cur].next ELSE ps[p].next
  BY Zenon DEF Removed
<1>7. \A n \in 1..Len(list) :
         /\ ps[list[n]].prev = IF n = Len(list) THEN NoPage ELSE list[n + 1]
         /\ ps[list[n]].next = IF n = 1 THEN NoPage ELSE list[n - 1]
  <2>1. \A n \in DOMAIN list :
         /\ ps[list[n]].prev = IF n = Len(list) THEN NoPage ELSE list[n + 1]
         /\ ps[list[n]].next = IF n = 1 THEN NoPage ELSE list[n - 1]
    BY Zenon DEF Good, Listed
  <2>2. DOMAIN list = 1..Len(list)
    BY <1>l
  <2> QED BY <2>1, <2>2, Zenon
<1>8. Listed(qs, list[2], new)
  <2>1. new # << >>
    BY <1>0, <1>n
  <2>2. ASSUME NEW m \in DOMAIN new, NEW n \in DOMAIN new, new[m] = new[n] PROVE m = n
    <3>1. m + 1 = n + 1
      BY <1>l, <1>1, <2>2
    <3> QED BY <3>1, <1>1
  <2>3. ASSUME NEW p \in Pages PROVE Used(qs, p) <=> \E n \in DOMAIN new : new[n] = p
    <3>1. CASE p = cur
      BY <3>1, <1>3, <1>5
    <3>2. CASE p # cur
      <4>1. Used(ps, p) <=> \E n \in DOMAIN list : list[n] = p
        BY Zenon DEF Good, Listed
      <4>2. Used(qs, p) <=> Used(ps, p)
        BY <1>5, <3>2
      <4>3. (\E n \in DOMAIN new : new[n] = p) => \E n \in DOMAIN list : list[n] = p
        BY <1>1, <1>l
      <4>4. ASSUME NEW n \in DOMAIN list, list[n] = p PROVE \E k \in DOMAIN new : new[k] = p
        <5>1. n # 1
          BY <1>l, <3>2, <4>4
        <5>2. n \in 2..Len(list)
          BY <1>l, <5>1
        <5> QED BY <1>2, <4>4, <5>2
      <4> QED BY <4>1, <4>2, <4>3, <4>4
    <3> QED BY <3>1, <3>2
  <2>4. ASSUME NEW n \in DOMAIN new
        PROVE  /\ qs[new[n]].prev = IF n = Len(new) THEN NoPage ELSE new[n + 1]
               /\ qs[new[n]].next = IF n = 1 THEN NoPage ELSE new[n - 1]
    <3> DEFINE m == n + 1
    <3>1. m \in 1..Len(list) /\ m >= 2 /\ new[n] = list[m] /\ n \in Nat /\ new[n] \in Pages \ {cur}
      BY <1>1, <1>3
    <3>2. /\ ps[new[n]].prev = IF m = Len(list) THEN NoPage ELSE list[m + 1]
          /\ ps[new[n]].next = list[m - 1]
      BY <1>7, <3>1
    <3>3. m = Len(list) <=> n = Len(new)
      BY <1>0, <1>n, <3>1
    <3>4. n # Len(new) => list[m + 1] = new[n + 1] /\ list[m + 1] # cur
      <4> SUFFICES ASSUME n # Len(new) PROVE list[m + 1] = new[n + 1] /\ list[m + 1] # cur
        OBVIOUS
      <4> DEFINE k == m + 1
      <4>1. k \in 2..Len(list) /\ k - 1 = n + 1
        BY <1>0, <3>1, <3>3
      <4> HIDE DEF k
      <4> QED BY <1>2, <4>1 DEF k
    <3>5. qs[new[n]].prev = ps[new[n]].prev
      <4>1. ps[new[n]].prev # cur
        BY <3>2, <3>3, <3>4, <1>l, NamesDiffer
      <4> QED BY <1>6, <3>1, <4>1
    <3>6. CASE n = 1
      <4>1. ps[new[n]].next = cur
        BY <1>l, <3>2, <3>6
      <4>2. ps[cur].next = NoPage
        <5>1. 1 \in 1..Len(list)
          BY <1>0
        <5>2. ps[list[1]].next = NoPage
          BY <5>1, <1>7
        <5>3. list[1] = cur
          BY <1>l
        <5> QED BY <5>2, <5>3
      <4> QED BY <1>6, <3>1, <3>2, <3>3, <3>4, <3>5, <3>6, <4>1, <4>2
    <3>7. CASE n # 1
      <4> DEFINE k == m - 1
      <4>1. k \in 2..Len(list) /\ k - 1 = n - 1
        BY <1>0, <1>n, <3>1, <3>7
      <4> HIDE DEF k
      <4>2. list[k] = new[n - 1] /\ list[k] # cur
        BY <1>2, <4>1
      <4>3. qs[new[n]].next = new[n - 1]
        BY <1>6, <3>1, <3>2, <4>2 DEF k
      <4> QED BY <3>2, <3>3, <3>4, <3>5, <3>7, <4>3
    <3> QED BY <3>6, <3>7
  <2>5. \A p \in Pages : ~Used(qs, p) => qs[p].prev = NoPage
    <3>1. \A p \in Pages : ~Used(ps, p) => ps[p].prev = NoPage
      BY Zenon DEF Good, Listed
    <3>2. cur # NoPage
      BY <1>l, NamesDiffer
    <3> QED BY <3>1, <3>2, <1>5, <1>6
  <2> QED BY <1>n, <1>4, <2>1, <2>2, <2>3, <2>4, <2>5, Zenon DEF Listed
<1>9. Headed(qs, list[2])
  <2>1. \A p \in Pages : Used(ps, p) /\ p # cur => ps[p].head = Size(ps, p)
    BY Zenon DEF Good, Headed
  <2>2. \A p \in Pages \ {cur} : Size(qs, p) = Size(ps, p)
    BY <1>6 DEF Size
  <2> QED BY <1>5, <1>6, <2>1, <2>2 DEF Headed
<1>10. Linked(qs, ds, new) /\ Orphaned(qs, ds, new)
  <2>1. /\ \A n \in 1..Len(list) : n < Len(list) => LinkedTo(ps, cs, list[n], list[n + 1])
        /\ Orphan(ps, cs, list[Len(list)])
    BY <1>l, LinksAndOrphans DEF Good
  <2>2. ASSUME NEW n \in 1..Len(new), n < Len(new) PROVE LinkedTo(qs, ds, new[n], new[n + 1])
    <3>1. n \in DOMAIN new /\ n + 1 \in DOMAIN new
      BY <1>0, <1>n, <2>2
    <3>2. new[n] = list[n + 1] /\ new[n + 1] = list[(n + 1) + 1] /\ n + 1 \in 1..Len(list)
      BY <1>1, <3>1
    <3>3. n + 1 < Len(list)
      BY <1>0, <1>n, <2>2
    <3>4. LinkedTo(ps, cs, new[n], new[n + 1])
      BY <2>1, <3>2, <3>3
    <3> QED BY <1>3, <1>5, <3>1, <3>4
  <2>3. Orphan(qs, ds, new[Len(new)])
    BY <1>3, <1>4, <1>5, <2>1
  <2>4. Len(new) \in Nat /\ DOMAIN new = 1..Len(new)
    BY <1>0, <1>n
  <2> QED BY <2>2, <2>3, <2>4, LinksAndOrphans
<1> QED BY <1>5, <1>8, <1>9, <1>10 DEF Good, new

\* The page at the end of the list is left to the contexts of its frames: the
\* sender of the page before is now one of these.
LEMMA PageDivorced ==
  ASSUME NEW ps, NEW cs, NEW cur, NEW list, Good(ps, cs, cur, list), Len(list) >= 2,
         NEW x, x = list[Len(list)],
         NEW qs, NEW ds, Typed(qs, ds), Removed(ps, qs, x), Separated(ps, cs, ds, x),
         \A i \in 2..Size(ps, x) : /\ Act(ps, x, i) \in DOMAIN ds
                                   /\ ds[Act(ps, x, i)].sender = Act(ps, x, i - 1)
  PROVE  Good(qs, ds, cur, SubSeq(list, 1, Len(list) - 1))
<1> DEFINE new == SubSeq(list, 1, Len(list) - 1)
<1>l. /\ Len(list) \in Nat \ {0, 1} /\ DOMAIN list = 1..Len(list)
      /\ cur \in Pages /\ list[1] = cur
      /\ \A n \in 1..Len(list) : list[n] \in Pages /\ Size(ps, list[n]) >= 1
      /\ \A m, n \in 1..Len(list) : list[m] = list[n] => m = n
      /\ \A p \in Pages : /\ Size(ps, p) \in Nat
                          /\ \A i \in 1..Size(ps, p) : Act(ps, p, i) \in Acts \cup {Terminal}
  BY Facts
<1>n. /\ new \in Seq(Pages) /\ Len(new) = Len(list) - 1 /\ DOMAIN new = 1..(Len(list) - 1)
      /\ \A n \in 1..(Len(list) - 1) : new[n] = list[n]
  <2>1. list \in Seq(Pages)
    BY DEF Good, Listed
  <2> QED BY <2>1, <1>l
<1> HIDE DEF new
<1>0. Len(list) \in Nat /\ Len(list) >= 2 /\ Len(list) \in 1..Len(list) /\ x \in Pages
  BY <1>l
<1>1. \A n \in DOMAIN new : /\ n \in 1..Len(list) /\ n < Len(list) /\ new[n] = list[n]
                            /\ new[n] \in Pages \ {x} /\ Size(ps, new[n]) >= 1
  <2> TAKE n \in DOMAIN new
  <2>1. n \in 1..(Len(list) - 1)
    BY <1>n
  <2>2. n \in 1..Len(list) /\ n < Len(list) /\ new[n] = list[n]
    BY <1>0, <1>n, <2>1
  <2>3. list[n] # list[Len(list)]
    BY <1>l, <1>0, <2>2
  <2> QED BY <1>l, <2>2, <2>3
<1>2. \A n \in 1..Len(list) : n < Len(list) => n \in DOMAIN new
  BY <1>0, <1>n
<1>3. /\ Sized(qs) /\ Separate(qs) /\ Wed(qs, ds) /\ Faithful(qs, ds)
      /\ \A p, q \in Pages \ {x} : Size(ps, p) >= 1 /\ LinkedTo(ps, cs, p, q) => LinkedTo(qs, ds, p, q)
      /\ \A p \in Pages \ {x} : Used(qs, p) <=> Used(ps, p)
      /\ ~Used(qs, x)
  <2>1. Sized(ps)
    BY DEF Good
  <2> QED BY <1>0, <2>1, PageRemoved
<1>4. /\ qs[x].prev = NoPage
      /\ \A p \in Pages \ {x} :
           /\ qs[p].frames = ps[p].frames /\ qs[p].head = ps[p].head
           /\ qs[p].prev = IF ps[p].prev = x THEN ps[x].prev ELSE ps[p].prev
           /\ qs[p].next = IF ps[p].next = x THEN ps[x].next ELSE ps[p].next
  BY Zenon DEF Removed
<1>5. \A n \in 1..Len(list) :
         /\ ps[list[n]].prev = IF n = Len(list) THEN NoPage ELSE list[n + 1]
         /\ ps[list[n]].next = IF n = 1 THEN NoPage ELSE list[n - 1]
  <2>1. \A n \in DOMAIN list :
         /\ ps[list[n]].prev = IF n = Len(list) THEN NoPage ELSE list[n + 1]
         /\ ps[list[n]].next = IF n = 1 THEN NoPage ELSE list[n - 1]
    BY Zenon DEF Good, Listed
  <2>2. DOMAIN list = 1..Len(list)
    BY <1>l
  <2> QED BY <2>1, <2>2, Zenon
<1>6. new[1] = cur /\ cur # x
  <2>1. 1 \in 1..Len(list) /\ 1 < Len(list)
    BY <1>0
  <2> QED BY <1>1, <1>2, <1>l, <2>1
<1>7. Listed(qs, cur, new)
  <2>1. new # << >>
    BY <1>0, <1>n
  <2>2. ASSUME NEW m \in DOMAIN new, NEW n \in DOMAIN new, new[m] = new[n] PROVE m = n
    BY <1>l, <1>1, <2>2
  <2>3. ASSUME NEW p \in Pages PROVE Used(qs, p) <=> \E n \in DOMAIN new : new[n] = p
    <3>1. CASE p = x
      BY <3>1, <1>1, <1>3
    <3>2. CASE p # x
      <4>1. Used(ps, p) <=> \E n \in DOMAIN list : list[n] = p
        BY Zenon DEF Good, Listed
      <4>2. Used(qs, p) <=> Used(ps, p)
        BY <1>3, <3>2
      <4>3. (\E n \in DOMAIN new : new[n] = p) => \E n \in DOMAIN list : list[n] = p
        BY <1>1, <1>l
      <4>4. ASSUME NEW n \in DOMAIN list, list[n] = p PROVE \E k \in DOMAIN new : new[k] = p
        <5>1. n # Len(list)
          BY <3>2, <4>4
        <5>2. n \in 1..Len(list) /\ n < Len(list)
          BY <1>0, <1>l, <5>1
        <5> QED BY <1>1, <1>2, <4>4, <5>2
      <4> QED BY <4>1, <4>2, <4>3, <4>4
    <3> QED BY <3>1, <3>2
  <2>4. ASSUME NEW n \in DOMAIN new
        PROVE  /\ qs[new[n]].prev = IF n = Len(new) THEN NoPage ELSE new[n + 1]
               /\ qs[new[n]].next = IF n = 1 THEN NoPage ELSE new[n - 1]
    <3>1. /\ n \in 1..Len(list) /\ n < Len(list) /\ new[n] = list[n]
          /\ new[n] \in Pages \ {x} /\ n \in Nat
      BY <1>0, <1>1
    <3>2. /\ ps[new[n]].prev = list[n + 1]
          /\ ps[new[n]].next = IF n = 1 THEN NoPage ELSE list[n - 1]
      BY <1>5, <3>1
    <3>3. qs[new[n]].next = IF n = 1 THEN NoPage ELSE new[n - 1]
      <4>1. CASE n = 1
        BY <1>0, <1>4, <3>1, <3>2, <4>1, NamesDiffer
      <4>2. CASE n # 1
        <5> DEFINE k == n - 1
        <5>1. k \in 1..Len(list) /\ k < Len(list)
          BY <1>0, <3>1, <4>2
        <5> HIDE DEF k
        <5>2. list[k] # x /\ new[k] = list[k]
          BY <1>1, <1>2, <5>1
        <5> QED BY <1>4, <3>1, <3>2, <4>2, <5>2 DEF k
      <4> QED BY <4>1, <4>2
    <3>4. qs[new[n]].prev = IF n = Len(new) THEN NoPage ELSE new[n + 1]
      <4>1. CASE n = Len(new)
        <5>1. n + 1 = Len(list)
          BY <1>0, <1>n, <4>1
        <5>2. ps[x].prev = NoPage
          BY <1>0, <1>5
        <5> QED BY <1>4, <3>1, <3>2, <4>1, <5>1, <5>2
      <4>2. CASE n # Len(new)
        <5> DEFINE k == n + 1
        <5>1. k \in 1..Len(list) /\ k < Len(list)
          BY <1>0, <1>n, <3>1, <4>2
        <5> HIDE DEF k
        <5>2. list[k] # x /\ new[k] = list[k]
          BY <1>1, <1>2, <5>1
        <5> QED BY <1>4, <3>1, <3>2, <4>2, <5>2 DEF k
      <4> QED BY <4>1, <4>2
    <3> QED BY <3>3, <3>4
  <2>5. \A p \in Pages : ~Used(qs, p) => qs[p].prev = NoPage
    <3>1. \A p \in Pages : ~Used(ps, p) => ps[p].prev = NoPage
      BY Zenon DEF Good, Listed
    <3>2. x # NoPage
      BY <1>0, NamesDiffer
    <3> QED BY <3>1, <3>2, <1>3, <1>4
  <2> QED BY <1>n, <1>6, <2>1, <2>2, <2>3, <2>4, <2>5, Zenon DEF Listed
<1>8. Headed(qs, cur)
  <2>1. \A p \in Pages : Used(ps, p) /\ p # cur => ps[p].head = Size(ps, p)
    BY Zenon DEF Good, Headed
  <2>2. \A p \in Pages \ {x} : Size(qs, p) = Size(ps, p)
    BY <1>4 DEF Size
  <2> QED BY <1>3, <1>4, <2>1, <2>2 DEF Headed
<1>9. Linked(qs, ds, new) /\ Orphaned(qs, ds, new)
  <2>1. \A n \in 1..Len(list) : n < Len(list) => LinkedTo(ps, cs, list[n], list[n + 1])
    BY <1>l, LinksAndOrphans DEF Good
  <2>2. ASSUME NEW n \in 1..Len(new), n < Len(new) PROVE LinkedTo(qs, ds, new[n], new[n + 1])
    <3>1. n \in DOMAIN new /\ n + 1 \in DOMAIN new
      BY <1>0, <1>n, <2>2
    <3>2. /\ new[n] = list[n] /\ new[n + 1] = list[n + 1] /\ n \in 1..Len(list) /\ n < Len(list)
          /\ new[n] \in Pages \ {x} /\ new[n + 1] \in Pages \ {x} /\ Size(ps, new[n]) >= 1
      BY <1>1, <3>1
    <3>3. LinkedTo(ps, cs, new[n], new[n + 1])
      BY <2>1, <3>2
    <3> QED BY <1>3, <3>2, <3>3
  <2>3. Orphan(qs, ds, new[Len(new)])
    <3> DEFINE k == Len(list) - 1
               p == list[k]
               c == Act(ps, x, Size(ps, x))
    <3>1. k \in 1..Len(list) /\ k < Len(list) /\ k + 1 = Len(list) /\ k = Len(new)
      BY <1>0, <1>n
    <3> HIDE DEF k
    <3>2. k \in DOMAIN new /\ new[k] = p /\ p \in Pages \ {x} /\ Size(ps, p) >= 1
      BY <1>1, <1>2, <3>1
    <3>3. LinkedTo(ps, cs, p, x)
      BY <2>1, <3>1
    <3> HIDE DEF p
    <3>4. /\ Size(ps, x) >= 2 /\ Act(ps, p, 1) # Terminal /\ Act(ps, p, 1) \in DOMAIN cs
          /\ cs[Act(ps, p, 1)].sender = c
      BY <3>3, Zenon DEF LinkedTo
    <3>5. /\ \A q, r \in Pages : \A i \in 1..Size(ps, q), j \in 1..Size(ps, r) :
                Act(ps, q, i) = Act(ps, r, j) => q = r /\ i = j
          /\ \A q \in Pages : \A i \in 1..Size(ps, q) : Act(ps, q, i) = Terminal => i = 1
      BY Zenon DEF Good, Separate
    <3>6. /\ Size(ps, x) \in 2..Size(ps, x) /\ Size(ps, x) \in 1..Size(ps, x) /\ Size(ps, x) # 1
          /\ Size(ps, x) - 1 \in 1..Size(ps, x) /\ Size(ps, p) \in Nat /\ 1 \in 1..Size(ps, p)
      BY <1>l, <1>0, <3>2, <3>4
    <3>7. c \in Acts /\ c \in DOMAIN ds /\ ds[c].sender \in Acts \cup {Terminal}
      <4>1. Act(ps, x, Size(ps, x) - 1) \in Acts \cup {Terminal}
        BY <1>l, <1>0, <3>6
      <4>2. c \in Acts \cup {Terminal} /\ c # Terminal
        BY <1>l, <1>0, <3>5, <3>6
      <4> QED BY <3>6, <4>1, <4>2
    <3>8. ~OnFrame(qs, c)
      <4>1. \A q \in Pages \ {x} : Size(qs, q) = Size(ps, q) /\ \A i : Act(qs, q, i) = Act(ps, q, i)
        BY <1>4 DEF Size, Act
      <4>2. Size(qs, x) = 0
        BY Zenon DEF Removed
      <4>3. ASSUME NEW q \in Pages, NEW i \in 1..Size(qs, q), Act(qs, q, i) = c PROVE FALSE
        <5>1. q # x
          BY <4>2
        <5>2. i \in 1..Size(ps, q) /\ Act(ps, q, i) = c
          BY <4>1, <4>3, <5>1
        <5> QED BY <1>0, <3>5, <3>6, <5>1, <5>2
      <4> QED BY <4>3 DEF OnFrame
    <3>9. /\ Act(qs, p, 1) = Act(ps, p, 1)
          /\ Act(ps, p, 1) \in DOMAIN ds /\ ds[Act(ps, p, 1)].sender = cs[Act(ps, p, 1)].sender
      <4>1. Act(qs, p, 1) = Act(ps, p, 1)
        BY <1>4, <3>2 DEF Act
      <4>2. ~OnPage(ps, x, Act(ps, p, 1))
        BY <1>0, <3>2, <3>5, <3>6 DEF OnPage
      <4> QED BY <3>4, <4>1, <4>2 DEF Separated
    <3> HIDE DEF c
    <3>10. Orphan(qs, ds, p)
      BY <3>4, <3>7, <3>8, <3>9 DEF Orphan
    <3> QED BY <3>1, <3>2, <3>10
  <2>4. Len(new) \in Nat /\ DOMAIN new = 1..Len(new)
    BY <1>0, <1>n
  <2> QED BY <2>2, <2>3, <2>4, LinksAndOrphans
<1> QED BY <1>3, <1>7, <1>8, <1>9 DEF Good, new

----------------------------------------------------------------------------
(***************************************************************************)
(* What the operators of StackMemory do.                                   *)
(***************************************************************************)
ContextTable(cs) == DOMAIN cs \subseteq Acts \cup {Terminal} /\ cs \in [DOMAIN cs -> ContextRecords]

WithFrames(ps, c, fs) == [ps EXCEPT ![c].frames = fs]

\* The pages qs are the pages ps, but c has the frames fs.
NewFrames(ps, qs, c, fs) ==
  /\ qs \in [Pages -> PageRecords] /\ SameElsewhere(ps, qs, c) /\ SameLinks(ps, qs)
  /\ qs[c].frames = fs /\ qs[c].head = ps[c].head

\* An update of the frames of a page, field by field.
LEMMA FramesReplaced ==
  ASSUME NEW ps \in [Pages -> PageRecords], NEW c \in Pages, NEW fs \in Seq(Frames),
         NEW qs, qs = WithFrames(ps, c, fs)
  PROVE  NewFrames(ps, qs, c, fs)
<1> DEFINE page == [ps[c] EXCEPT !.frames = fs]
<1>1. /\ page \in PageRecords /\ page.frames = fs /\ page.head = ps[c].head
      /\ page.prev = ps[c].prev /\ page.next = ps[c].next
  <2>1. ps[c] \in PageRecords
    OBVIOUS
  <2> QED BY <2>1 DEF PageRecords
<1>2. qs = [ps EXCEPT ![c] = page]
  BY DEF WithFrames
<1> HIDE DEF page
<1>3. qs[c] = page /\ \A p \in Pages \ {c} : qs[p] = ps[p]
  BY <1>2
<1>4. qs \in [Pages -> PageRecords]
  BY <1>1, <1>2
<1> QED BY <1>1, <1>3, <1>4 DEF SameElsewhere, SameLinks, NewFrames

\* A page that is freed leaves the list.
LEMMA PageIsFreed ==
  ASSUME NEW ps \in [Pages -> PageRecords], NEW x \in Pages
  PROVE  freed(ps, x) \in [Pages -> PageRecords] /\ Removed(ps, freed(ps, x), x)
<1> DEFINE Unlinked(q) == [ps[q] EXCEPT !.next = IF @ = x THEN ps[x].next ELSE @,
                                        !.prev = IF @ = x THEN ps[x].prev ELSE @]
<1>1. freed(ps, x) = [q \in Pages |-> IF q = x THEN FreePage ELSE Unlinked(q)]
  BY DEF freed
<1>2. ASSUME NEW q \in Pages
      PROVE  /\ Unlinked(q) \in PageRecords
             /\ Unlinked(q).frames = ps[q].frames /\ Unlinked(q).head = ps[q].head
             /\ Unlinked(q).prev = IF ps[q].prev = x THEN ps[x].prev ELSE ps[q].prev
             /\ Unlinked(q).next = IF ps[q].next = x THEN ps[x].next ELSE ps[q].next
  <2>1. ps[q] \in PageRecords /\ ps[x] \in PageRecords
    OBVIOUS
  <2> QED BY <2>1 DEF PageRecords
<1>3. FreePage \in PageRecords /\ FreePage.frames = << >> /\ FreePage.prev = NoPage
  BY DEF FreePage, Page, PageRecords
<1> HIDE DEF Unlinked
<1>4. freed(ps, x) \in [Pages -> PageRecords]
  BY <1>1, <1>2, <1>3
<1>5. freed(ps, x)[x] = FreePage /\ \A q \in Pages \ {x} : freed(ps, x)[q] = Unlinked(q)
  BY <1>1
<1>6. Size(freed(ps, x), x) = 0
  BY <1>3, <1>5 DEF Size
<1> QED BY <1>2, <1>3, <1>4, <1>5, <1>6 DEF Removed

\* A context with fields of the right types is a context.
LEMMA ContextType ==
  ASSUME NEW sender \in Senders, NEW retpc \in Pcs \cup {EndPc}, NEW data \in Values
  PROVE  /\ Context(sender, retpc, data) \in ContextRecords
         /\ Context(sender, retpc, data).sender = sender
BY DEF Context, ContextRecords

\* ensureFrameIsMarried and ensureHasUpdatedMarriedSpouse, of any pages.
Married(ps, cs, p, i) ==
  LET a == Act(ps, p, i)
  IN IF a \in DOMAIN cs THEN cs
     ELSE [b \in DOMAIN cs \cup {a} |-> IF b = a THEN Context(<<p, i>>, NoPc, Fresh) ELSE cs[b]]

Updated(ps, cs, p, i) == [Married(ps, cs, p, i) EXCEPT ![Act(ps, p, i)].data = ps[p].frames[i].data]

\* The contexts ds are the contexts cs, but a, which had none, has one with frame pointer fp.
Wedding(ds, cs, a, fp) ==
  /\ ContextTable(ds) /\ DOMAIN ds = DOMAIN cs \cup {a}
  /\ \A b \in DOMAIN cs : ds[b].sender = cs[b].sender /\ (b # a => ds[b] = cs[b])
  /\ a \notin DOMAIN cs => ds[a].sender = fp

\* A frame without a context gets one.
LEMMA Marriage ==
  ASSUME NEW ps, NEW cs, ContextTable(cs), NEW p \in Pages, NEW i \in 1..PageWords,
         Act(ps, p, i) \in Acts \cup {Terminal}
  PROVE  Wedding(Married(ps, cs, p, i), cs, Act(ps, p, i), <<p, i>>)
<1> DEFINE a == Act(ps, p, i)
           c == Context(<<p, i>>, NoPc, Fresh)
           ds == Married(ps, cs, p, i)
<1>1. c \in ContextRecords /\ c.sender = <<p, i>>
  <2>1. <<p, i>> \in Senders /\ NoPc \in Pcs \cup {EndPc} /\ Fresh \in Values
    BY StackAssumption DEF Senders, NoPc, EndPc, Fresh
  <2> QED BY <2>1, ContextType
<1>2. ds = IF a \in DOMAIN cs THEN cs ELSE [b \in DOMAIN cs \cup {a} |-> IF b = a THEN c ELSE cs[b]]
  BY DEF Married
<1>3. a \in Acts \cup {Terminal}
  OBVIOUS
<1> SUFFICES Wedding(ds, cs, a, <<p, i>>)
  OBVIOUS
<1> HIDE DEF a, c, ds
<1>4. CASE a \in DOMAIN cs
  <2>1. ds = cs /\ DOMAIN cs \cup {a} = DOMAIN cs
    BY <1>2, <1>4
  <2> QED BY <1>4, <2>1 DEF Wedding
<1>5. CASE a \notin DOMAIN cs
  <2>1. ds = [b \in DOMAIN cs \cup {a} |-> IF b = a THEN c ELSE cs[b]]
    BY <1>2, <1>5
  <2>2. \A b \in DOMAIN cs : cs[b] \in ContextRecords
    BY DEF ContextTable
  <2>3. ds \in [DOMAIN cs \cup {a} -> ContextRecords] /\ DOMAIN ds = DOMAIN cs \cup {a}
    BY <1>1, <2>1, <2>2
  <2>4. ds[a] = c /\ \A b \in DOMAIN cs : ds[b] = cs[b]
    BY <1>5, <2>1
  <2>5. ContextTable(ds)
    BY <1>3, <2>3 DEF ContextTable
  <2> QED BY <1>1, <2>3, <2>4, <2>5 DEF Wedding
<1> QED BY <1>4, <1>5

\* A frame gets a context with the data of the frame.
LEMMA Update ==
  ASSUME NEW ps, NEW cs, ContextTable(cs), NEW p \in Pages, NEW i \in 1..PageWords,
         ps[p].frames[i] \in Frames
  PROVE  Wedding(Updated(ps, cs, p, i), cs, Act(ps, p, i), <<p, i>>)
<1>1. PICK a, es, ds, d : /\ a = Act(ps, p, i) /\ es = Married(ps, cs, p, i)
                          /\ ds = Updated(ps, cs, p, i) /\ d = ps[p].frames[i].data
  OBVIOUS
<1>2. a \in Acts \cup {Terminal} /\ d \in Values
  BY <1>1 DEF Act, Frames
<1>3. Wedding(es, cs, a, <<p, i>>)
  BY <1>1, <1>2, Marriage
<1>4. ds = [es EXCEPT ![a].data = d]
  BY <1>1 DEF Updated
<1> DEFINE c == [es[a] EXCEPT !.data = d]
<1>5. /\ ContextTable(es) /\ DOMAIN es = DOMAIN cs \cup {a} /\ es \in [DOMAIN es -> ContextRecords]
      /\ a \in DOMAIN es
  BY <1>3 DEF Wedding, ContextTable
<1>6. c \in ContextRecords /\ c.sender = es[a].sender
  <2>1. es[a] \in ContextRecords
    BY <1>5
  <2> QED BY <1>2, <2>1 DEF ContextRecords
<1>7. ds = [es EXCEPT ![a] = c]
  BY <1>4
<1> HIDE DEF c
<1>8. ds \in [DOMAIN es -> ContextRecords] /\ DOMAIN ds = DOMAIN es /\ ds[a] = c
      /\ \A b \in DOMAIN es \ {a} : ds[b] = es[b]
  BY <1>5, <1>6, <1>7
<1>9. \A b \in DOMAIN es : ds[b].sender = es[b].sender
  BY <1>6, <1>8
<1>10. ContextTable(ds)
  BY <1>5, <1>8 DEF ContextTable
<1>11. Wedding(ds, cs, a, <<p, i>>)
  BY <1>3, <1>5, <1>8, <1>9, <1>10 DEF Wedding
<1> QED BY <1>1, <1>11

\* A widowed context has no sender, and the others stay.
LEMMA Widowing ==
  ASSUME NEW cs, ContextTable(cs), NEW a, NEW ds, ds = widowContext(cs, a)
  PROVE  /\ ContextTable(ds) /\ DOMAIN ds = DOMAIN cs
         /\ \A b \in DOMAIN ds \ {a} : ds[b] = cs[b]
         /\ a \in DOMAIN ds => ds[a].sender = Nil
<1> DEFINE c == Context(Nil, NoPc, Fresh)
<1>1. c \in ContextRecords /\ c.sender = Nil
  <2>1. Nil \in Senders /\ NoPc \in Pcs \cup {EndPc} /\ Fresh \in Values
    BY StackAssumption DEF Senders, NoPc, EndPc, Fresh
  <2> QED BY <2>1, ContextType
<1>2. ds = IF a \in DOMAIN cs THEN [cs EXCEPT ![a] = c] ELSE cs
  BY DEF widowContext
<1> HIDE DEF c
<1> QED BY <1>1, <1>2 DEF ContextTable

\* What the frames of page x, the next one of which is y, leave to the contexts ds.
LeftTo(ps, cs, ds, x, y) ==
  /\ \A i \in 1..Size(ps, x) :
       /\ Act(ps, x, i) \in DOMAIN ds
       /\ ds[Act(ps, x, i)].data = ps[x].frames[i].data
       /\ i = Size(ps, x) => ds[Act(ps, x, i)].pc = ps[y].frames[1].ret
       /\ i # Size(ps, x) => ds[Act(ps, x, i)].pc = ps[x].frames[i + 1].ret
       /\ i # 1 => ds[Act(ps, x, i)].sender = Act(ps, x, i - 1)
  /\ Act(ps, x, 1) \in DOMAIN cs => ds[Act(ps, x, 1)].sender = cs[Act(ps, x, 1)].sender
  /\ Act(ps, x, 1) \notin DOMAIN cs => ds[Act(ps, x, 1)].sender \notin Acts \cup {Terminal, Nil}
  /\ \A b \in DOMAIN cs : OnPage(ps, x, b) \/ (b \in DOMAIN ds /\ ds[b] = cs[b])
  /\ \A b \in DOMAIN ds : OnPage(ps, x, b) \/ b \in DOMAIN cs

\* The frames of the page at the end of the list are divorced.
LEMMA Divorcing ==
  ASSUME NEW cur, NEW list, Good(pages, contexts, cur, list), Len(list) >= 2,
         NEW x, x = list[Len(list)], NEW ds, ds = divorceAllFrames(x)
  PROVE  /\ ContextTable(ds) /\ Separated(pages, contexts, ds, x)
         /\ \A i \in 2..Size(pages, x) : /\ Act(pages, x, i) \in DOMAIN ds
                                         /\ ds[Act(pages, x, i)].sender = Act(pages, x, i - 1)
         /\ LeftTo(pages, contexts, ds, x, list[Len(list) - 1])
<1> DEFINE fs     == pages[x].frames
           head   == pages[x].head
           nextPc == pages[pages[x].next].frames[1].ret
           At(a)  == CHOOSE i \in 1..head : fs[i].act = a
           base   == ensureFrameIsMarried(contexts, x, 1)[fs[1].act]
           Divorced(i) == Context(IF i = 1 THEN base.sender ELSE fs[i - 1].act,
                                  IF i = head THEN nextPc ELSE fs[i + 1].ret,
                                  fs[i].data)
           spouses == {fs[i].act : i \in 1..head}
<1>1. ds = [a \in DOMAIN contexts \cup spouses |->
              IF a \in spouses THEN Divorced(At(a)) ELSE contexts[a]]
  <2>1. divorceAllFrames(x) = [a \in DOMAIN contexts \cup spouses |->
                                 IF a \in spouses THEN Divorced(At(a)) ELSE contexts[a]]
    BY Zenon DEF divorceAllFrames
  <2> HIDE DEF At, Divorced, spouses
  <2> QED BY <2>1
<1>l. /\ Len(list) \in Nat \ {0, 1} /\ DOMAIN list = 1..Len(list) /\ list[1] = cur
      /\ \A n \in 1..Len(list) : list[n] \in Pages /\ Size(pages, list[n]) >= 1
      /\ \A m, n \in 1..Len(list) : list[m] = list[n] => m = n
      /\ \A p \in Pages : Size(pages, p) \in Nat /\ Size(pages, p) <= PageWords
      /\ \A p \in Pages : Used(pages, p) <=> Size(pages, p) >= 1
      /\ \A p \in Pages : Size(pages, p) >= 1 /\ Act(pages, p, 1) # Terminal => Act(pages, p, 1) \in DOMAIN contexts
  BY Facts
<1>x. /\ x \in Pages /\ x # cur /\ Size(pages, x) \in Nat \ {0} /\ Size(pages, x) <= PageWords
      /\ pages[x].next \in Pages /\ Size(pages, pages[x].next) >= 1
      /\ pages[x].next = list[Len(list) - 1]
  <2>1. Len(list) \in 1..Len(list) /\ 1 \in 1..Len(list) /\ Len(list) # 1 /\ Len(list) - 1 \in 1..Len(list)
    BY <1>l
  <2>2. pages[list[Len(list)]].next = list[Len(list) - 1]
    <3>1. Len(list) \in DOMAIN list
      BY <1>l, <2>1
    <3>2. pages[list[Len(list)]].next = IF Len(list) = 1 THEN NoPage ELSE list[Len(list) - 1]
      BY <3>1, Zenon DEF Good, Listed
    <3> QED BY <2>1, <3>2
  <2> QED BY <1>l, <2>1, <2>2
<1>f. \A p \in Pages : \A i \in 1..Size(pages, p) : pages[p].frames[i] \in Frames
  BY FramesOfPage DEF Good, Typed
<1>h. head = Size(pages, x)
  BY <1>l, <1>x DEF Good, Headed
<1>a. \A i \in 1..head : fs[i] \in Frames /\ fs[i].act \in Acts \cup {Terminal}
                         /\ fs[i].ret \in Pcs \cup {EndPc} /\ fs[i].data \in Values
  <2>1. \A i \in 1..head : fs[i] \in Frames
    BY <1>f, <1>h, <1>x
  <2> QED BY <2>1 DEF Frames
<1>p. nextPc \in Pcs \cup {EndPc}
  <2>1. 1 \in 1..Size(pages, pages[x].next)
    BY <1>l, <1>x
  <2>2. pages[pages[x].next].frames[1] \in Frames
    BY <1>f, <1>x, <2>1
  <2> QED BY <2>2 DEF Frames
<1>u. /\ \A i, j \in 1..head : fs[i].act = fs[j].act => i = j
      /\ \A i \in 1..head : fs[i].act = Terminal => i = 1
  <2>1. /\ \A p, q \in Pages : \A i \in 1..Size(pages, p), j \in 1..Size(pages, q) :
                Act(pages, p, i) = Act(pages, q, j) => p = q /\ i = j
        /\ \A p \in Pages : \A i \in 1..Size(pages, p) : Act(pages, p, i) = Terminal => i = 1
    BY Zenon DEF Good, Separate
  <2> QED BY <1>h, <1>x, <2>1 DEF Act
<1>c. ContextTable(contexts)
  BY DEF Good, Typed, ContextTable
<1>b. /\ base.sender \in Senders /\ (fs[1].act # Terminal => base.sender \in Acts)
      /\ fs[1].act \in DOMAIN contexts => base.sender = contexts[fs[1].act].sender
      /\ fs[1].act \notin DOMAIN contexts => base.sender \notin Acts \cup {Terminal, Nil}
  <2>1. 1 \in 1..PageWords /\ 1 \in 1..head
    BY <1>h, <1>x, FrameSizes
  <2>2. fs[1].act = Act(pages, x, 1) /\ fs[1].act \in Acts \cup {Terminal}
    BY <1>a, <2>1 DEF Act
  <2>3. base = Married(pages, contexts, x, 1)[fs[1].act]
    BY DEF ensureFrameIsMarried, marryFrame, With, FramePointer, Married, Act
  <2>4. PICK es : es = Married(pages, contexts, x, 1)
    OBVIOUS
  <2>5. Wedding(es, contexts, fs[1].act, <<x, 1>>)
    <3>1. x \in Pages
      BY <1>x
    <3> QED BY <1>c, <2>1, <2>2, <2>4, <3>1, Marriage
  <2>6. base = es[fs[1].act]
    BY <2>3, <2>4
  <2> HIDE DEF fs, base
  <2>8. base \in ContextRecords
    BY <2>5, <2>6 DEF Wedding, ContextTable
  <2>9. Orphan(pages, contexts, x)
    BY <1>l, LinksAndOrphans DEF Good
  <2>10. ASSUME fs[1].act # Terminal PROVE base.sender \in Acts
    <3>1. fs[1].act \in DOMAIN contexts /\ contexts[fs[1].act].sender \in Acts
      BY <2>2, <2>9, <2>10, Zenon DEF Orphan
    <3> QED BY <2>5, <2>6, <3>1 DEF Wedding
  <2>7. base.sender \in Senders
    BY <2>8 DEF ContextRecords
  <2>11. fs[1].act \in DOMAIN contexts => base.sender = contexts[fs[1].act].sender
    BY <2>5, <2>6 DEF Wedding
  <2>12. fs[1].act \notin DOMAIN contexts => base.sender \notin Acts \cup {Terminal, Nil}
    <3>1. x \in Pages
      BY <1>x
    <3>2. <<x, 1>> \notin Acts \cup {Terminal, Nil}
      BY <2>1, <3>1, NamesDiffer
    <3> QED BY <2>5, <2>6, <3>2 DEF Wedding
  <2> QED BY <2>7, <2>10, <2>11, <2>12
<1> HIDE DEF fs, head, nextPc, base
<1>hn. head \in Nat \ {0}
  BY <1>h, <1>x
<1>d. ASSUME NEW i \in 1..head
      PROVE  /\ At(fs[i].act) = i /\ Divorced(i) \in ContextRecords
             /\ i # 1 => Divorced(i).sender = fs[i - 1].act /\ fs[i - 1].act \in Acts \cup {Terminal}
             /\ i = 1 => Divorced(i).sender = base.sender
             /\ Divorced(i).pc = (IF i = head THEN nextPc ELSE fs[i + 1].ret)
             /\ Divorced(i).data = fs[i].data
  <2>1. At(fs[i].act) = i
    <3>1. At(fs[i].act) \in 1..head /\ fs[At(fs[i].act)].act = fs[i].act
      OBVIOUS
    <3> HIDE DEF At
    <3> QED BY <1>u, <3>1
  <2>2. i # 1 => i - 1 \in 1..head
    BY <1>hn
  <2>3. i # head => i + 1 \in 1..head
    BY <1>hn
  <2>4. i # 1 => fs[i - 1].act \in Acts \cup {Terminal}
    BY <1>a, <2>2
  <2>5. (IF i = 1 THEN base.sender ELSE fs[i - 1].act) \in Senders
    BY <1>b, <2>4 DEF Senders
  <2>6. (IF i = head THEN nextPc ELSE fs[i + 1].ret) \in Pcs \cup {EndPc}
    BY <1>a, <1>p, <2>3
  <2>7. fs[i].data \in Values
    BY <1>a
  <2>8. /\ Divorced(i) \in ContextRecords
        /\ Divorced(i).sender = IF i = 1 THEN base.sender ELSE fs[i - 1].act
    BY <2>5, <2>6, <2>7, ContextType
  <2>9. /\ Divorced(i).pc = (IF i = head THEN nextPc ELSE fs[i + 1].ret)
        /\ Divorced(i).data = fs[i].data
    BY DEF Context
  <2> QED BY <2>1, <2>4, <2>8, <2>9
<1> HIDE DEF At, Divorced
<1>2. \A i \in 1..head : fs[i].act \in spouses /\ ds[fs[i].act] = Divorced(i)
  BY <1>1, <1>d
<1>3. \A a \in spouses : \E i \in 1..head : a = fs[i].act
  OBVIOUS
<1>4. DOMAIN ds = DOMAIN contexts \cup spouses /\ \A a \in DOMAIN contexts \ spouses : ds[a] = contexts[a]
  BY <1>1
<1> HIDE DEF spouses
<1>5. ContextTable(ds)
  <2>1. spouses \subseteq Acts \cup {Terminal}
    BY <1>3, <1>a
  <2>2. DOMAIN ds \subseteq Acts \cup {Terminal}
    BY <1>4, <1>c, <2>1 DEF ContextTable
  <2>3. \A a \in DOMAIN ds : ds[a] \in ContextRecords
    <3> TAKE a \in DOMAIN ds
    <3>1. CASE a \in spouses
      BY <1>2, <1>3, <1>d, <3>1
    <3>2. CASE a \notin spouses
      <4>1. a \in DOMAIN contexts /\ ds[a] = contexts[a]
        BY <1>4, <3>2
      <4>2. contexts[a] \in ContextRecords
        BY <1>c, <4>1 DEF ContextTable
      <4> QED BY <4>1, <4>2
    <3> QED BY <3>1, <3>2
  <2>4. ds = [a \in DOMAIN ds |-> ds[a]]
    BY <1>1
  <2>5. ds \in [DOMAIN ds -> ContextRecords]
    BY <2>3, <2>4
  <2> QED BY <2>2, <2>5 DEF ContextTable
<1>6. \A a : OnPage(pages, x, a) <=> a \in spouses
  <2> TAKE a
  <2>1. OnPage(pages, x, a) <=> \E i \in 1..head : fs[i].act = a
    BY <1>h DEF OnPage, Act, fs
  <2> QED BY <1>2, <1>3, <2>1
<1>7. Separated(pages, contexts, ds, x)
  <2>1. ASSUME NEW a \in DOMAIN ds \ {Terminal}, OnPage(pages, x, a)
        PROVE  ds[a].sender \in Acts \cup {Terminal, Nil}
    <3>1. PICK i \in 1..head : a = fs[i].act
      BY <1>3, <1>6, <2>1
    <3>2. ds[a] = Divorced(i)
      BY <1>2, <3>1
    <3>3. CASE i = 1
      BY <1>b, <1>d, <3>1, <3>2, <3>3
    <3>4. CASE i # 1
      BY <1>d, <3>2, <3>4
    <3> QED BY <3>3, <3>4
  <2> QED BY <1>4, <1>6, <2>1 DEF Separated
<1>8. ASSUME NEW i \in 2..Size(pages, x)
      PROVE  Act(pages, x, i) \in DOMAIN ds /\ ds[Act(pages, x, i)].sender = Act(pages, x, i - 1)
  <2>1. i \in 1..head /\ i # 1
    BY <1>h, <1>hn
  <2>2. fs[i].act = Act(pages, x, i) /\ fs[i - 1].act = Act(pages, x, i - 1)
    BY DEF Act, fs
  <2> QED BY <1>2, <1>4, <1>d, <2>1, <2>2
<1>9. LeftTo(pages, contexts, ds, x, list[Len(list) - 1])
  <2>0. PICK y : y = list[Len(list) - 1]
    OBVIOUS
  <2>1. nextPc = pages[y].frames[1].ret
    BY <1>x, <2>0 DEF nextPc
  <2>2. ASSUME NEW i \in 1..Size(pages, x)
        PROVE  /\ Act(pages, x, i) \in DOMAIN ds
               /\ ds[Act(pages, x, i)].data = pages[x].frames[i].data
               /\ i = Size(pages, x) => ds[Act(pages, x, i)].pc = pages[y].frames[1].ret
               /\ i # Size(pages, x) => ds[Act(pages, x, i)].pc = pages[x].frames[i + 1].ret
               /\ i # 1 => ds[Act(pages, x, i)].sender = Act(pages, x, i - 1)
    <3>1. i \in 1..head /\ fs[i].act = Act(pages, x, i) /\ \A j : fs[j] = pages[x].frames[j]
      BY <1>h DEF Act, fs
    <3>2. Act(pages, x, i) \in DOMAIN ds /\ ds[Act(pages, x, i)] = Divorced(i)
      BY <1>2, <1>4, <3>1
    <3>3. fs[i - 1].act = Act(pages, x, i - 1)
      BY DEF Act, fs
    <3> QED BY <1>d, <1>h, <2>1, <3>1, <3>2, <3>3
  <2>3. /\ Act(pages, x, 1) \in DOMAIN contexts => ds[Act(pages, x, 1)].sender = contexts[Act(pages, x, 1)].sender
        /\ Act(pages, x, 1) \notin DOMAIN contexts => ds[Act(pages, x, 1)].sender \notin Acts \cup {Terminal, Nil}
    <3>1. 1 \in 1..head /\ fs[1].act = Act(pages, x, 1)
      BY <1>hn DEF Act, fs
    <3>2. ds[Act(pages, x, 1)].sender = base.sender
      BY <1>2, <1>d, <3>1
    <3> QED BY <1>b, <3>1, <3>2
  <2>4. /\ \A b \in DOMAIN contexts : OnPage(pages, x, b) \/ (b \in DOMAIN ds /\ ds[b] = contexts[b])
        /\ \A b \in DOMAIN ds : OnPage(pages, x, b) \/ b \in DOMAIN contexts
    BY <1>4, <1>6
  <2> QED BY <2>0, <2>2, <2>3, <2>4 DEF LeftTo
<1> QED BY <1>5, <1>7, <1>8, <1>9

\* A context more leaves the others alone.
LEMMA ContextAdded ==
  ASSUME NEW cs, ContextTable(cs), NEW a \in Acts, NEW c \in ContextRecords,
         NEW ds, ds = [b \in DOMAIN cs \cup {a} |-> IF b = a THEN c ELSE cs[b]]
  PROVE  /\ ContextTable(ds) /\ DOMAIN ds = DOMAIN cs \cup {a} /\ ds[a] = c
         /\ \A b \in DOMAIN cs \ {a} : ds[b] = cs[b]
<1>1. \A b \in DOMAIN cs : cs[b] \in ContextRecords
  BY DEF ContextTable
<1>2. ds \in [DOMAIN cs \cup {a} -> ContextRecords] /\ DOMAIN ds = DOMAIN cs \cup {a}
  BY <1>1
<1>3. ds[a] = c /\ \A b \in DOMAIN cs \ {a} : ds[b] = cs[b]
  OBVIOUS
<1>4. DOMAIN ds \subseteq Acts \cup {Terminal}
  BY <1>2 DEF ContextTable
<1> QED BY <1>2, <1>3, <1>4 DEF ContextTable

\* Page n gets new contents, and page c is linked to it.
LinkedPages(ps, c, h, n, page) == [ps EXCEPT ![c].head = h, ![c].next = n, ![n] = page]

AreLinked(ps, qs, c, h, n, page) ==
  /\ qs \in [Pages -> PageRecords] /\ qs[n] = page
  /\ qs[c].frames = ps[c].frames /\ qs[c].prev = ps[c].prev /\ qs[c].head = h /\ qs[c].next = n
  /\ \A p \in Pages \ {c, n} : qs[p] = ps[p]

\* An update that links a page to another one, field by field.
LEMMA PagesLinked ==
  ASSUME NEW ps \in [Pages -> PageRecords], NEW c \in Pages, NEW n \in Pages, c # n,
         NEW h \in Nat, NEW page \in PageRecords,
         NEW qs, qs = LinkedPages(ps, c, h, n, page)
  PROVE  AreLinked(ps, qs, c, h, n, page)
<1> DEFINE r == [ps[c] EXCEPT !.head = h, !.next = n]
<1>1. /\ r \in PageRecords /\ r.frames = ps[c].frames /\ r.prev = ps[c].prev
      /\ r.head = h /\ r.next = n
  <2>1. ps[c] \in PageRecords
    OBVIOUS
  <2> QED BY <2>1 DEF PageRecords
<1>2. qs = [[ps EXCEPT ![c] = r] EXCEPT ![n] = page]
  BY DEF LinkedPages
<1> HIDE DEF r
<1>3. qs[n] = page /\ qs[c] = r /\ \A p \in Pages \ {c, n} : qs[p] = ps[p]
  BY <1>2
<1>4. qs \in [Pages -> PageRecords]
  BY <1>1, <1>2
<1> QED BY <1>1, <1>3, <1>4 DEF AreLinked

----------------------------------------------------------------------------
(***************************************************************************)
(* Calls that overflow.                                                    *)
(***************************************************************************)
FreeList(free, ps) ==
  /\ free \in Seq(Pages)
  /\ \A i, j \in DOMAIN free : free[i] = free[j] => i = j
  /\ \A p \in Pages : Used(ps, p) <=> \A i \in DOMAIN free : free[i] # p

\* A frame and the first one of a page always fit.
LEMMA OneFrame ==
  ASSUME NEW fs \in Seq(Frames), NEW frame \in Frames, frame.words \in FrameWords,
         Len(fs) <= 1
  PROVE  /\ ~Overflows(Append(fs, frame))
         /\ Words(<<frame>>) + OverflowWords <= PageWords
<1> DEFINE gs == Append(fs, frame)
           one == <<frame>>
<1>1. /\ \A f \in Frames : f.words \in Nat \ {0} /\ f.words \in FrameWords \cup {TerminalWords}
  BY FrameSizes DEF Frames
<1>2. /\ Len(fs) \in {0, 1} /\ DOMAIN fs = 1..Len(fs) /\ \A i \in DOMAIN fs : fs[i] \in Frames
      /\ Len(gs) = Len(fs) + 1 /\ DOMAIN gs = 1..Len(gs)
      /\ gs[Len(gs)] = frame /\ \A i \in DOMAIN fs : gs[i] = fs[i]
  <2>1. Len(fs) \in Nat /\ DOMAIN fs = 1..Len(fs) /\ \A i \in 1..Len(fs) : fs[i] \in Frames
    OBVIOUS
  <2>2. Len(fs) \in {0, 1}
    BY <2>1
  <2>3. Len(gs) = Len(fs) + 1 /\ DOMAIN gs = 1..Len(gs)
    BY <2>1
  <2>4. gs[Len(gs)] = frame /\ \A i \in 1..Len(fs) : gs[i] = fs[i]
    BY <2>1
  <2> HIDE DEF gs
  <2> QED BY <2>1, <2>2, <2>3, <2>4
<1>3. Len(one) = 1 /\ DOMAIN one = 1..1 /\ one[1] = frame
  OBVIOUS
<1>4. PICK none : Len(none) = 0 /\ DOMAIN none = {} /\ none = << >>
  OBVIOUS
<1> HIDE DEF gs, one
<1>5. HaveSizes(fs) /\ HaveSizes(gs)
  <2>1. HaveSizes(fs)
    BY <1>1, <1>2 DEF HaveSizes
  <2>2. \A i \in DOMAIN gs : gs[i] \in Frames
    <3> TAKE i \in DOMAIN gs
    <3>1. i \in DOMAIN fs \/ i = Len(gs)
      BY <1>2
    <3> QED BY <1>2, <3>1
  <2>3. Len(gs) \in Nat
    BY <1>2
  <2> QED BY <1>1, <1>2, <2>1, <2>2, <2>3 DEF HaveSizes
<1>6. \A i \in DOMAIN fs : fs[i].words = gs[i].words
  BY <1>2
<1>7. HaveSizes(one) /\ HaveSizes(none) /\ Words(none) = 0
  <2>1. HaveSizes(one)
    BY <1>1, <1>3 DEF HaveSizes
  <2>2. HaveSizes(none)
    BY <1>4 DEF HaveSizes
  <2> QED BY <1>4, <2>1, <2>2, NoWords
<1>8. Words(one) = frame.words
  <2>1. \A i \in DOMAIN none : none[i].words = one[i].words
    BY <1>4
  <2>2. Len(one) = Len(none) + 1
    BY <1>3, <1>4
  <2>3. Words(one) = Words(none) + one[Len(one)].words
    BY <1>7, <2>1, <2>2, WordsOfFrames
  <2> QED BY <1>1, <1>3, <1>7, <2>3
<1>9. Words(gs) = Words(fs) + frame.words
  BY <1>2, <1>5, <1>6, WordsOfFrames
<1>10. Words(fs) = 0 \/ \E v \in FrameWords \cup {TerminalWords} : Words(fs) = v
  <2>1. CASE Len(fs) = 0
    BY <1>5, <2>1, NoWords
  <2>2. CASE Len(fs) = 1
    <3>1. 1 \in DOMAIN fs /\ fs[1] \in Frames
      BY <1>2, <2>2
    <3>2. Words(fs) = Words(none) + fs[Len(fs)].words
      <4>1. \A i \in DOMAIN none : none[i].words = fs[i].words
        BY <1>4
      <4>2. Len(fs) = Len(none) + 1
        BY <2>2, <1>4
      <4> QED BY <1>5, <1>7, <4>1, <4>2, WordsOfFrames
    <3> QED BY <1>1, <1>7, <2>2, <3>1, <3>2
  <2> QED BY <1>2, <2>1, <2>2
<1>11. /\ PageWords \in Nat /\ OverflowWords \in Nat /\ frame.words \in Nat
       /\ \A v \in FrameWords \cup {TerminalWords} : v \in Nat /\ v + frame.words + OverflowWords <= PageWords
       /\ TerminalWords \in Nat
  BY <1>1, FrameSizes
<1>12. PICK w \in Nat : w = frame.words
  BY <1>11
<1>13. PageWords \in Nat /\ OverflowWords \in Nat /\ TerminalWords \in Nat /\ TerminalWords + w + OverflowWords <= PageWords
  BY <1>11, <1>12
<1>14. PICK u \in Nat : u = Words(fs) /\ u + w + OverflowWords <= PageWords
  <2>1. CASE Words(fs) = 0
    <3>1. 0 + w + OverflowWords <= PageWords
      BY <1>13
    <3> QED BY <2>1, <3>1
  <2>2. CASE \E v \in FrameWords \cup {TerminalWords} : Words(fs) = v
    BY <1>11, <1>12, <2>2
  <2> QED BY <1>10, <2>1, <2>2
<1>15. ~Overflows(gs)
  <2>1. Words(gs) = u + w
    BY <1>9, <1>12, <1>14
  <2> QED BY <1>13, <1>14, <2>1 DEF Overflows
<1>16. Words(one) + OverflowWords <= PageWords
  <2>1. Words(one) = w
    BY <1>8, <1>12
  <2>2. w + OverflowWords <= PageWords
    BY <1>13
  <2> QED BY <2>1, <2>2
<1> QED BY <1>15, <1>16 DEF gs, one

\* The pages, contexts and free pages after the room for a frame has been made.
Left == IF freePages = << >> THEN freed(pages, LeastUsed) ELSE pages
Kept == IF freePages = << >> THEN divorceAllFrames(LeastUsed) ELSE contexts
Pool == IF freePages = << >> THEN <<LeastUsed>> ELSE freePages

\* The page that is used least is the last one of the list.
LEMMA LeastUsedIsLast ==
  ASSUME NEW cur, NEW list, Good(pages, contexts, cur, list)
  PROVE  LeastUsed = list[Len(list)]
<1>1. /\ Len(list) \in Nat \ {0} /\ DOMAIN list = 1..Len(list)
      /\ \A n \in 1..Len(list) : list[n] \in Pages /\ Size(pages, list[n]) >= 1
      /\ \A p \in Pages : Used(pages, p) <=> Size(pages, p) >= 1
      /\ \A p \in Pages : Size(pages, p) >= 1 => \E n \in 1..Len(list) : list[n] = p
  BY Facts
<1>2. \A n \in 1..Len(list) : pages[list[n]].prev = IF n = Len(list) THEN NoPage ELSE list[n + 1]
  <2>1. \A n \in DOMAIN list : pages[list[n]].prev = IF n = Len(list) THEN NoPage ELSE list[n + 1]
    BY Zenon DEF Good, Listed
  <2>2. DOMAIN list = 1..Len(list)
    BY <1>1
  <2> QED BY <2>1, <2>2, Zenon
<1> DEFINE x == list[Len(list)]
<1>3. x \in Pages /\ inUse(x) /\ pages[x].prev = NoPage
  <2>1. Len(list) \in 1..Len(list)
    BY <1>1
  <2>2. x \in Pages /\ Used(pages, x)
    BY <1>1, <2>1
  <2>3. pages[x].prev = NoPage
    BY <1>2, <2>1
  <2> QED BY <2>2, <2>3 DEF inUse, Used
<1>4. ASSUME NEW p \in Pages, inUse(p), pages[p].prev = NoPage PROVE p = x
  <2>1. PICK n \in 1..Len(list) : list[n] = p
    BY <1>1, <1>4 DEF inUse, Used
  <2>2. ASSUME n # Len(list) PROVE FALSE
    <3>0. Len(list) \in Nat
      BY <1>1
    <3>1. n + 1 \in 1..Len(list)
      BY <2>2, <3>0
    <3>2. list[n + 1] \in Pages
      BY <1>1, <3>1
    <3> QED BY <1>2, <1>4, <2>1, <2>2, <3>2, NamesDiffer
  <2> QED BY <2>1, <2>2
<1> HIDE DEF x
<1>5. LeastUsed \in Pages /\ inUse(LeastUsed) /\ pages[LeastUsed].prev = NoPage
  BY <1>3, Zenon DEF LeastUsed
<1> QED BY <1>4, <1>5 DEF x

\* When no page is free, the frames of the last one are divorced, and it is free.
LEMMA RoomIsMade ==
  ASSUME NEW list, currentPage \in Pages, Good(pages, contexts, currentPage, list), FreeList(freePages, pages),
         NEW a, Idle(pages, contexts, a)
  PROVE  /\ \E l : Good(Left, Kept, currentPage, l)
         /\ Idle(Left, Kept, a)
         /\ FreeList(Pool, Left) /\ Pool # << >>
         /\ Left[currentPage].frames = pages[currentPage].frames
<1>1. CASE freePages # << >>
  <2>1. Left = pages /\ Kept = contexts /\ Pool = freePages
    BY <1>1 DEF Left, Kept, Pool
  <2> QED BY <1>1, <2>1
<1>2. CASE freePages = << >>
  <2> DEFINE x == list[Len(list)]
  <2>1. /\ Len(list) \in Nat \ {0} /\ DOMAIN list = 1..Len(list) /\ list[1] = currentPage
        /\ \A n \in 1..Len(list) : list[n] \in Pages /\ Size(pages, list[n]) >= 1
        /\ \A m, n \in 1..Len(list) : list[m] = list[n] => m = n
        /\ \A p \in Pages : Used(pages, p) <=> Size(pages, p) >= 1
        /\ \A p \in Pages : Size(pages, p) >= 1 => \E n \in 1..Len(list) : list[n] = p
    BY Facts
  <2>2. \A p \in Pages : Used(pages, p)
    <3>1. DOMAIN freePages = {}
      BY <1>2
    <3> QED BY <3>1 DEF FreeList
  <2>3. Len(list) >= 2
    <3>1. \E p \in Pages : p # currentPage
      <4>1. 1 \in Pages /\ 2 \in Pages
        BY StackAssumption DEF Pages
      <4> QED BY <4>1
    <3>2. PICK n \in 1..Len(list) : list[n] # list[1]
      BY <2>1, <2>2, <3>1
    <3>3. n # 1 /\ Len(list) \in Nat
      BY <2>1, <3>2
    <3> QED BY <3>3
  <2>4. LeastUsed = x
    BY LeastUsedIsLast
  <2>5. x \in Pages /\ x # currentPage
    <3>1. Len(list) \in 1..Len(list) /\ 1 \in 1..Len(list) /\ Len(list) # 1
      BY <2>1, <2>3
    <3> QED BY <2>1, <3>1
  <2> HIDE DEF x
  <2>6. PICK L, K : L = Left /\ K = Kept
    OBVIOUS
  <2>7. L = freed(pages, x) /\ K = divorceAllFrames(x) /\ Pool = <<x>>
    BY <1>2, <2>4, <2>6 DEF Left, Kept, Pool
  <2>8. L \in [Pages -> PageRecords] /\ Removed(pages, L, x)
    BY <2>5, <2>7, PageIsFreed DEF Good, Typed
  <2>9. /\ ContextTable(K) /\ Separated(pages, contexts, K, x)
        /\ \A i \in 2..Size(pages, x) : /\ Act(pages, x, i) \in DOMAIN K
                                        /\ K[Act(pages, x, i)].sender = Act(pages, x, i - 1)
    <3>1. x = list[Len(list)]
      BY DEF x
    <3> QED BY <2>3, <2>7, <3>1, Divorcing
  <2>10. Typed(L, K)
    BY <2>8, <2>9 DEF Typed, ContextTable
  <2>11. \E l : Good(L, K, currentPage, l)
    <3>1. x = list[Len(list)]
      BY DEF x
    <3> QED BY <2>3, <2>8, <2>9, <2>10, <3>1, PageDivorced
  <2>12. \A p \in Pages \ {x} : L[p].frames = pages[p].frames
    BY <2>8 DEF Removed
  <2>13. Idle(L, K, a)
    <3>1. a \in Acts /\ ~OnFrame(pages, a) /\ (a \in DOMAIN contexts => contexts[a].sender = Nil)
      BY DEF Idle
    <3>2. ~OnPage(pages, x, a)
      BY <2>5, <3>1 DEF OnFrame, OnPage
    <3>3. a \in DOMAIN K => K[a].sender = Nil
      BY <2>9, <3>1, <3>2 DEF Separated
    <3>4. ~OnFrame(L, a)
      <4>1. Size(L, x) = 0
        BY <2>8 DEF Removed
      <4>2. \A p \in Pages \ {x} : Size(L, p) = Size(pages, p) /\ \A i : Act(L, p, i) = Act(pages, p, i)
        BY <2>12 DEF Size, Act
      <4> QED BY <3>1, <4>1, <4>2 DEF OnFrame
    <3> QED BY <3>1, <3>3, <3>4 DEF Idle
  <2>14. FreeList(<<x>>, L)
    <3>1. \A p \in Pages \ {x} : Used(L, p)
      BY <2>2, <2>12 DEF Used
    <3>2. ~Used(L, x)
      <4>1. L[x].frames \in Seq(Frames) /\ Len(L[x].frames) = 0
        BY <2>5, <2>8 DEF Removed, Size, PageRecords
      <4> QED BY <4>1 DEF Used
    <3>3. PICK one : one = <<x>>
      OBVIOUS
    <3>4. one \in Seq(Pages) /\ DOMAIN one = {1} /\ one[1] = x
      BY <2>5, <3>3
    <3>5. FreeList(one, L)
      BY <3>1, <3>2, <3>4 DEF FreeList
    <3> QED BY <3>3, <3>5
  <2>15. <<x>> # << >>
    OBVIOUS
  <2> QED BY <2>5, <2>6, <2>7, <2>11, <2>12, <2>13, <2>14, <2>15
<1> QED BY <1>1, <1>2

\* Of the contexts cs, some of those of frames have changed, but not their senders, and
\* there are new ones of frames.
Adjusted(ps, cs, es) ==
  /\ \A b \in DOMAIN cs : /\ b \in DOMAIN es /\ es[b].sender = cs[b].sender
                          /\ OnFrame(ps, b) \/ es[b] = cs[b]
  /\ \A b \in DOMAIN es \ DOMAIN cs : OnFrame(ps, b) /\ es[b].sender \notin Acts \cup {Terminal, Nil}

\* The frame is alone on page n, which was free, and its sender is the last frame of page cur.
MovedOn(ps, cs, qs, ds, cur, n, frame) ==
  /\ n \in Pages /\ n # cur /\ Size(ps, n) = 0
  /\ Size(qs, n) = 1 /\ qs[n].frames[1] = frame
  /\ \A p \in Pages \ {n} : qs[p].frames = ps[p].frames
  /\ \E es : /\ Adjusted(ps, cs, es)
             /\ DOMAIN ds = DOMAIN es \cup {frame.act}
             /\ \A b \in DOMAIN es \ {frame.act} : ds[b] = es[b]
             /\ ds[frame.act].sender = Act(ps, cur, Size(ps, cur))

\* The pages, contexts and free pages after a call that overflows.
LEMMA Overflow ==
  ASSUME NEW list, currentPage \in Pages, Good(pages, contexts, currentPage, list), FreeList(freePages, pages),
         NEW a, Idle(pages, contexts, a),
         NEW frame \in Frames, frame.act = a, frame.words \in FrameWords,
         Overflows(Append(pages[currentPage].frames, frame)),
         stackOverflow(frame)
  PROVE  /\ currentPage' \in Pages
         /\ \E l : Good(pages', contexts', currentPage', l)
         /\ FreeList(freePages', pages')
         /\ MovedOn(Left, Kept, pages', contexts', currentPage, currentPage', frame)
<1> DEFINE previous == pages[currentPage].frames[top]
<1>0. PICK L, K, P, n, cur, t : /\ L = Left /\ K = Kept /\ P = Pool /\ n = Pool[Len(Pool)]
                                /\ cur = currentPage /\ t = top
  OBVIOUS
<1>1. /\ \E l : Good(L, K, cur, l)
      /\ Idle(L, K, a) /\ FreeList(P, L) /\ P # << >>
      /\ L[cur].frames = pages[cur].frames /\ cur \in Pages
  BY <1>0, RoomIsMade
<1>2. PICK l : Good(L, K, cur, l)
  BY <1>1
<1>3. /\ pages' = [L EXCEPT ![cur].head = t, ![cur].next = n, ![n] = Page(<<frame>>, 1, cur, NoPage)]
      /\ freePages' = SubSeq(P, 1, Len(P) - 1)
      /\ currentPage' = n
      /\ contexts' = With(Updated(pages, K, cur, t), a, Context(Act(pages, cur, t), NoPc, frame.data))
  BY <1>0 DEF stackOverflow, Left, Kept, Pool, ensureHasUpdatedMarriedSpouse, ensureFrameIsMarried, marryFrame,
              With, FramePointer, Updated, Married, Act
<1>4. /\ n \in Pages /\ Size(L, n) = 0 /\ n # cur /\ P \in Seq(Pages) /\ Len(P) \in DOMAIN P /\ P[Len(P)] = n
      /\ Len(P) \in Nat \ {0} /\ DOMAIN P = 1..Len(P)
  <2>1. P \in Seq(Pages) /\ P # << >>
    BY <1>1 DEF FreeList
  <2>2. Len(P) \in DOMAIN P /\ P[Len(P)] \in Pages /\ Len(P) \in Nat \ {0} /\ DOMAIN P = 1..Len(P)
    BY <2>1
  <2>3. P[Len(P)] = n
    BY <1>0
  <2>4. ~Used(L, n)
    <3>1. \A p \in Pages : Used(L, p) => \A i \in DOMAIN P : P[i] # p
      BY <1>1, Zenon DEF FreeList
    <3> QED BY <2>2, <2>3, <3>1
  <2>5. /\ \A p \in Pages : Size(L, p) \in Nat /\ (Used(L, p) <=> Size(L, p) >= 1)
        /\ Size(L, cur) >= 1 /\ cur \in Pages
    BY <1>2, Facts
  <2>6. Size(L, n) = 0 /\ n # cur
    <3>1. Size(L, n) \in Nat /\ ~(Size(L, n) >= 1)
      BY <2>2, <2>3, <2>4, <2>5
    <3> QED BY <2>5, <3>1
  <2> QED BY <2>1, <2>2, <2>3, <2>6
<1>5. /\ L \in [Pages -> PageRecords] /\ Sized(L) /\ ContextTable(K)
  BY <1>2 DEF Good, Typed, ContextTable
<1>6. /\ t = Size(L, cur) /\ t >= 2 /\ t \in 1..PageWords /\ t \in 1..Size(L, cur) /\ t \in Nat
      /\ L[cur].frames[t] \in Frames
  <2>1. /\ L[cur].frames \in Seq(Frames) /\ Size(L, cur) \in Nat /\ Size(L, cur) <= PageWords
        /\ \A i \in 1..Size(L, cur) : L[cur].frames[i] \in Frames
    BY <1>1, <1>5, FramesOfPage, FramesFit
  <2>2. t = Size(L, cur)
    BY <1>0, <1>1 DEF top, Size
  <2>3. ~(Size(L, cur) <= 1)
    <3>1. Overflows(Append(L[cur].frames, frame))
      BY <1>0, <1>1
    <3> QED BY <2>1, <3>1, OneFrame DEF Size
  <2>4. t \in Nat /\ t >= 2 /\ t <= PageWords
    BY <2>1, <2>2, <2>3
  <2>5. t \in 1..PageWords /\ t \in 1..Size(L, cur)
    BY <2>2, <2>4, FrameSizes
  <2> QED BY <2>1, <2>2, <2>4, <2>5
<1>7. PICK s, es : s = Act(L, cur, t) /\ es = Updated(pages, K, cur, t)
  OBVIOUS
<1>8. Act(pages, cur, t) = s /\ pages[cur].frames[t] \in Frames /\ s \in Acts \cup {Terminal}
  BY <1>1, <1>6, <1>7 DEF Act, Frames
<1>9. Wedding(es, K, s, <<cur, t>>)
  BY <1>1, <1>5, <1>6, <1>7, <1>8, Update
<1>10. /\ ContextTable(es) /\ DOMAIN es = DOMAIN K \cup {s}
       /\ \A b \in DOMAIN K : es[b].sender = K[b].sender
       /\ s \notin DOMAIN K => es[s].sender = <<cur, t>>
  BY <1>9 DEF Wedding
<1>11. Good(L, es, cur, l) /\ Idle(L, es, a)
  <2>1. Typed(L, es)
    BY <1>5, <1>10 DEF Typed, ContextTable
  <2>2. /\ DOMAIN es = DOMAIN K \cup {Act(L, cur, t)}
        /\ \A b \in DOMAIN K : es[b].sender = K[b].sender
        /\ Act(L, cur, t) \notin DOMAIN K => es[Act(L, cur, t)].sender = <<cur, t>>
    BY <1>7, <1>10, Zenon
  <2>3. cur \in Pages /\ t \in 1..Size(L, cur) /\ Idle(L, K, a)
    BY <1>1, <1>6
  <2> QED BY <1>2, <2>1, <2>2, <2>3, FrameMarried, Zenon
<1>12. PICK c, page, one : /\ c = Context(s, NoPc, frame.data) /\ one = <<frame>>
                           /\ page = Page(one, 1, cur, NoPage)
  OBVIOUS
<1>13. c \in ContextRecords /\ c.sender = s
  <2>1. s \in Senders /\ NoPc \in Pcs \cup {EndPc} /\ frame.data \in Values
    BY <1>8 DEF Senders, NoPc, EndPc, Frames
  <2> QED BY <1>12, <2>1, ContextType
<1>14. /\ page \in PageRecords /\ page.frames = one /\ page.head = 1 /\ page.prev = cur
       /\ page.next = NoPage /\ one \in Seq(Frames) /\ Len(one) = 1 /\ one[1] = frame
  <2>1. one \in Seq(Frames) /\ Len(one) = 1 /\ one[1] = frame
    BY <1>12
  <2> QED BY <1>1, <1>12, <2>1 DEF Page, PageRecords
<1>15. PICK qs, ds : qs = pages' /\ ds = contexts'
  OBVIOUS
<1>16. /\ qs \in [Pages -> PageRecords] /\ qs[n] = page
       /\ qs[cur].frames = L[cur].frames /\ qs[cur].prev = L[cur].prev /\ qs[cur].head = t /\ qs[cur].next = n
       /\ \A p \in Pages \ {cur, n} : qs[p] = L[p]
  <2>1. qs = LinkedPages(L, cur, t, n, page)
    BY <1>3, <1>12, <1>15 DEF LinkedPages
  <2>2. cur \in Pages /\ n \in Pages /\ cur # n /\ L \in [Pages -> PageRecords] /\ t \in Nat /\ page \in PageRecords
    BY <1>1, <1>4, <1>5, <1>6, <1>14
  <2>3. AreLinked(L, qs, cur, t, n, page)
    BY <2>1, <2>2, PagesLinked
  <2> QED BY <2>3 DEF AreLinked
<1>17. /\ ContextTable(ds) /\ DOMAIN ds = DOMAIN es \cup {a} /\ ds[a] = c
       /\ \A b \in DOMAIN es \ {a} : ds[b] = es[b]
  <2>1. ds = [b \in DOMAIN es \cup {a} |-> IF b = a THEN c ELSE es[b]]
    BY <1>3, <1>7, <1>8, <1>12, <1>15 DEF With
  <2>2. a \in Acts
    BY DEF Idle
  <2> QED BY <1>10, <1>13, <2>1, <2>2, ContextAdded
<1>18. FollowedBy(L, qs, cur, n)
  BY <1>6, <1>16 DEF FollowedBy
<1>19. Sized(qs)
  <2>1. \A p \in Pages \ {n} : Words(qs[p].frames) + OverflowWords <= PageWords
    BY <1>5, <1>18 DEF Sized, FollowedBy
  <2>2. Words(one) + OverflowWords <= PageWords
    <3>1. << >> \in Seq(Frames) /\ Len(<< >>) <= 1
      OBVIOUS
    <3> QED BY <1>12, <3>1, OneFrame
  <2> QED BY <1>14, <1>16, <2>1, <2>2 DEF Sized
<1>20. Size(qs, n) = 1 /\ Act(qs, n, 1) = a /\ qs[n].prev = cur /\ qs[n].next = NoPage
  BY <1>14, <1>16 DEF Size, Act
<1>21. Good(qs, ds, n, <<n>> \o l)
  <2>1. Typed(qs, ds)
    BY <1>16, <1>17 DEF Typed, ContextTable
  <2>2. /\ s = Act(L, cur, Size(L, cur)) /\ Size(L, cur) >= 2 /\ s \in DOMAIN es
    BY <1>6, <1>7, <1>10
  <2>3. ds[a].sender = s /\ \A b \in DOMAIN es \ {a} : ds[b].sender = es[b].sender
    BY <1>13, <1>17
  <2>4. /\ n \in Pages /\ Size(L, n) = 0 /\ DOMAIN ds = DOMAIN es \cup {a}
        /\ Good(L, es, cur, l) /\ Idle(L, es, a)
    BY <1>4, <1>11, <1>17
  <2> QED BY <1>18, <1>19, <1>20, <2>1, <2>2, <2>3, <2>4, PageTaken
<1>22. FreeList(SubSeq(P, 1, Len(P) - 1), qs)
  <2>1. PICK f : f = SubSeq(P, 1, Len(P) - 1)
    OBVIOUS
  <2>2. PICK m : m = Len(P) - 1
    OBVIOUS
  <2>a. m \in Nat /\ m + 1 = Len(P)
    <3>1. Len(P) \in Nat \ {0}
      BY <1>4
    <3> QED BY <2>2, <3>1
  <2>3. f \in Seq(Pages) /\ Len(f) = m /\ DOMAIN f = 1..m /\ \A i \in 1..m : f[i] = P[i]
    <3>1. f = SubSeq(P, 1, m)
      BY <2>1, <2>2, Zenon
    <3>2. P \in Seq(Pages) /\ m \in Nat /\ m < Len(P)
      BY <1>4, <2>a
    <3>3. f \in Seq(Pages) /\ Len(f) = m /\ \A i \in 1..m : f[i] = P[i]
      BY <3>1, <3>2
    <3> QED BY <3>2, <3>3
  <2>4. DOMAIN P = 1..(m + 1) /\ P[m + 1] = n
    <3>1. DOMAIN P = 1..Len(P) /\ P[Len(P)] = n
      BY <1>4
    <3> QED BY <2>a, <3>1, Zenon
  <2>5. \A i \in DOMAIN f : i \in DOMAIN P /\ f[i] = P[i] /\ i # m + 1
    BY <2>a, <2>3, <2>4
  <2>6. \A i \in DOMAIN P : i \in DOMAIN f \/ i = m + 1
    BY <2>a, <2>3, <2>4
  <2>7. /\ \A i, j \in DOMAIN P : P[i] = P[j] => i = j
        /\ \A p \in Pages : Used(L, p) <=> \A i \in DOMAIN P : P[i] # p
    BY <1>1, Zenon DEF FreeList
  <2>8. \A i, j \in DOMAIN f : f[i] = f[j] => i = j
    BY <2>5, <2>7
  <2>9. \A p \in Pages \ {n} : Used(qs, p) <=> \A i \in DOMAIN f : f[i] # p
    <3> TAKE p \in Pages \ {n}
    <3>1. Used(qs, p) <=> Used(L, p)
      BY <1>18 DEF Used, FollowedBy
    <3>2. (\A i \in DOMAIN P : P[i] # p) <=> (\A i \in DOMAIN f : f[i] # p)
      BY <2>4, <2>5, <2>6
    <3> QED BY <2>7, <3>1, <3>2
  <2>10. Used(qs, n) /\ \A i \in DOMAIN f : f[i] # n
    <3>1. m + 1 \in DOMAIN P
      BY <2>a, <2>4
    <3>2. \A i \in DOMAIN f : f[i] # n
      BY <2>4, <2>5, <2>7, <3>1
    <3>3. Used(qs, n)
      <4>1. qs[n].frames = one /\ Len(one) = 1 /\ one \in Seq(Frames)
        BY <1>14, <1>16
      <4>2. one # << >>
        BY <1>12
      <4> QED BY <4>1, <4>2 DEF Used
    <3> QED BY <3>2, <3>3
  <2>11. FreeList(f, qs)
    BY <2>3, <2>8, <2>9, <2>10, Zenon DEF FreeList
  <2> QED BY <2>1, <2>11
<1>23. MovedOn(L, K, qs, ds, cur, n, frame)
  <2>1. Adjusted(L, K, es)
    <3>1. OnFrame(L, s)
      BY <1>1, <1>6, <1>7 DEF OnFrame
    <3>2. <<cur, t>> \notin Acts \cup {Terminal, Nil}
      BY <1>1, <1>6, NamesDiffer
    <3> QED BY <1>9, <3>1, <3>2 DEF Wedding, Adjusted
  <2>2. qs[n].frames[1] = frame /\ \A p \in Pages \ {n} : qs[p].frames = L[p].frames
    BY <1>14, <1>16
  <2>3. ds[a].sender = Act(L, cur, Size(L, cur)) /\ a = frame.act
    BY <1>6, <1>7, <1>13, <1>17
  <2> QED BY <1>4, <1>17, <1>20, <2>1, <2>2, <2>3 DEF MovedOn
<1> QED BY <1>0, <1>3, <1>4, <1>15, <1>21, <1>22, <1>23

----------------------------------------------------------------------------
(***************************************************************************)
(* The inductive invariant.                                                *)
(***************************************************************************)
StackInv ==
  /\ \E list : Good(pages, contexts, currentPage, list)
  /\ FreeList(freePages, pages)
  /\ currentPage \in Pages
  /\ pc \in Pcs \cup {EndPc} /\ aborted \in BOOLEAN /\ deep \in BOOLEAN

\* The list of free pages stays right when the same pages are in use.
LEMMA FreeListKept ==
  ASSUME NEW free, NEW ps, NEW qs, FreeList(free, ps),
         \A p \in Pages : Used(qs, p) <=> Used(ps, p)
  PROVE  FreeList(free, qs)
BY DEF FreeList

\* The invariant holds at first.
LEMMA InitStack == Init => StackInv
<1> SUFFICES ASSUME Init PROVE StackInv
  OBVIOUS
<1>1. PICK ps, cs, free, cur, list, one, page, first :
        /\ ps = pages /\ cs = contexts /\ free = freePages /\ cur = currentPage
        /\ list = <<cur>> /\ one = <<first>> /\ page = Page(one, 0, NoPage, NoPage)
        /\ first = Frame(Terminal, EndPc, Fresh, TerminalWords)
  OBVIOUS
<1>2. /\ cur = StackPageCount /\ cur \in Pages /\ StackPageCount \in Nat /\ StackPageCount >= 2
  BY <1>1, StackAssumption DEF Init, Pages
<1>3. first \in Frames /\ first.act = Terminal /\ first.words = TerminalWords
  <2>1. EndPc \in Pcs \cup {EndPc} /\ Fresh \in Values
    BY StackAssumption DEF Fresh
  <2> QED BY <1>1, <2>1 DEF Frame, Frames
<1>4. one \in Seq(Frames) /\ Len(one) = 1 /\ one[1] = first /\ DOMAIN one = 1..1 /\ one # << >>
  BY <1>1, <1>3
<1>5. page \in PageRecords /\ page.frames = one /\ page.prev = NoPage /\ page.next = NoPage
  BY <1>1, <1>4 DEF Page, PageRecords
<1>6. FreePage \in PageRecords /\ FreePage.frames = << >> /\ FreePage.prev = NoPage
  BY DEF FreePage, Page, PageRecords
<1>7. ps = [p \in Pages |-> IF p = cur THEN page ELSE FreePage]
  BY <1>1, <1>2 DEF Init
<1>8. ps \in [Pages -> PageRecords] /\ ps[cur] = page /\ \A p \in Pages \ {cur} : ps[p] = FreePage
  BY <1>2, <1>5, <1>6, <1>7
<1>9. /\ Used(ps, cur) /\ \A p \in Pages \ {cur} : ~Used(ps, p)
      /\ Size(ps, cur) = 1 /\ Act(ps, cur, 1) = Terminal
      /\ \A p \in Pages \ {cur} : Size(ps, p) = 0
  <2>1. Used(ps, cur) /\ Size(ps, cur) = 1 /\ Act(ps, cur, 1) = Terminal
    BY <1>3, <1>4, <1>5, <1>8 DEF Used, Size, Act
  <2>2. ASSUME NEW p \in Pages \ {cur} PROVE ~Used(ps, p) /\ Size(ps, p) = 0
    <3>1. ps[p].frames = << >>
      BY <1>6, <1>8
    <3> QED BY <3>1 DEF Used, Size
  <2> QED BY <2>1, <2>2
<1>10. Typed(ps, cs) /\ DOMAIN cs = {}
  <2>1. DOMAIN cs = {}
    BY <1>1 DEF Init
  <2>2. cs = [a \in {} |-> Nil]
    BY <1>1 DEF Init
  <2> QED BY <1>8, <2>1, <2>2 DEF Typed
<1>11. list \in Seq(Pages) /\ Len(list) = 1 /\ DOMAIN list = 1..1 /\ list[1] = cur /\ list # << >>
  BY <1>1, <1>2
<1>12. Listed(ps, cur, list)
  <2>1. \A i \in DOMAIN list : i = 1 /\ i = Len(list)
    BY <1>11
  <2>2. ps[cur].prev = NoPage /\ ps[cur].next = NoPage
    BY <1>5, <1>8
  <2>3. \A i \in DOMAIN list :
         /\ ps[list[i]].prev = IF i = Len(list) THEN NoPage ELSE list[i + 1]
         /\ ps[list[i]].next = IF i = 1 THEN NoPage ELSE list[i - 1]
    BY <1>11, <2>1, <2>2
  <2>4. \A p \in Pages : Used(ps, p) <=> \E i \in DOMAIN list : list[i] = p
    BY <1>9, <1>11
  <2>5. \A p \in Pages : ~Used(ps, p) => ps[p].prev = NoPage
    BY <1>6, <1>8, <1>9
  <2>6. \A i, j \in DOMAIN list : list[i] = list[j] => i = j
    BY <2>1
  <2> QED BY <1>11, <2>3, <2>4, <2>5, <2>6 DEF Listed
<1>13. Sized(ps)
  <2>1. \A p \in Pages : HaveSizes(ps[p].frames)
    BY <1>8, FramesOfPage
  <2>2. PICK none : none = << >>
    OBVIOUS
  <2>3. HaveSizes(none) /\ Len(none) = 0 /\ DOMAIN none = {}
    BY <2>2 DEF HaveSizes
  <2>4. Words(none) = 0
    BY <2>3, NoWords
  <2>5. Words(one) = TerminalWords
    <3>1. HaveSizes(one)
      BY <1>2, <1>5, <1>8, <2>1
    <3>2. Words(one) = Words(none) + one[Len(one)].words
      <4>1. \A i \in DOMAIN none : none[i].words = one[i].words
        BY <2>3
      <4>2. Len(one) = Len(none) + 1
        BY <1>4, <2>3
      <4> QED BY <2>3, <3>1, <4>1, <4>2, WordsOfFrames
    <3> QED BY <1>3, <1>4, <2>4, <3>2, FrameSizes
  <2>6. /\ PageWords \in Nat /\ OverflowWords \in Nat /\ TerminalWords \in Nat
        /\ TerminalWords + OverflowWords <= PageWords
    <3>1. TerminalWords + TerminalWords + OverflowWords <= PageWords
      BY StackAssumption, Zenon
    <3>2. TerminalWords \in Nat /\ PageWords \in Nat /\ OverflowWords \in Nat
      BY FrameSizes
    <3> QED BY <3>1, <3>2
  <2>7. \A p \in Pages \ {cur} : Words(ps[p].frames) = 0
    BY <1>6, <1>8, <2>2, <2>4
  <2>8. Words(ps[cur].frames) = TerminalWords
    BY <1>5, <1>8, <2>5
  <2> QED BY <2>6, <2>7, <2>8 DEF Sized
<1>14. Separate(ps)
  <2>1. \A p \in Pages : \A i \in 1..Size(ps, p) : p = cur /\ i = 1
    BY <1>9
  <2> QED BY <2>1 DEF Separate
<1>15. Headed(ps, cur) /\ Wed(ps, cs) /\ Faithful(ps, cs)
  BY <1>9, <1>10 DEF Headed, Wed, Faithful
<1>16. Linked(ps, cs, list)
  <2>1. \A n \in DOMAIN list : ~(n < Len(list))
    BY <1>11
  <2> QED BY <2>1 DEF Linked
<1>17. Orphaned(ps, cs, list)
  <2>1. Act(ps, list[Len(list)], 1) = Terminal
    BY <1>9, <1>11
  <2> QED BY <2>1 DEF Orphaned
<1>18. Good(ps, cs, cur, list)
  BY <1>10, <1>12, <1>13, <1>14, <1>15, <1>16, <1>17 DEF Good
<1>19. FreeList(free, ps)
  <2>1. free = [i \in 1..(StackPageCount - 1) |-> i]
    BY <1>1 DEF Init
  <2>2. /\ free \in Seq(Pages) /\ DOMAIN free = 1..(StackPageCount - 1)
        /\ \A i \in DOMAIN free : free[i] = i
    <3>1. StackPageCount - 1 \in Nat /\ \A i \in 1..(StackPageCount - 1) : i \in Pages
      BY <1>2 DEF Pages
    <3> QED BY <2>1, <3>1
  <2>3. \A p \in Pages \ {cur} : p \in DOMAIN free
    BY <1>2, <2>2 DEF Pages
  <2>4. cur \notin DOMAIN free
    BY <1>2, <2>2
  <2> QED BY <1>9, <2>2, <2>3, <2>4 DEF FreeList
<1> QED BY <1>1, <1>2, <1>18, <1>19 DEF StackInv, Init

\* What StackInv says, with the current page, its frames and the list as constants.
LEMMA CurrentFrames ==
  ASSUME NEW list, Good(pages, contexts, currentPage, list)
  PROVE  \E cur \in Pages, fs \in Seq(Frames), t \in 1..PageWords :
           /\ cur = currentPage /\ fs = pages[cur].frames /\ t = top
           /\ t = Len(fs) /\ t = Size(pages, cur) /\ fs[t] \in Frames /\ Current = fs[t]
           /\ Act(pages, cur, t) = fs[t].act /\ fs[t].act \in Acts \cup {Terminal}
           /\ DOMAIN fs = 1..t /\ HaveSizes(fs) /\ t \in Nat
           /\ pages \in [Pages -> PageRecords] /\ ContextTable(contexts)
           /\ Sized(pages) /\ Words(fs) + OverflowWords <= PageWords
<1>1. PICK cur, fs, t : cur = currentPage /\ fs = pages[cur].frames /\ t = Len(fs)
  OBVIOUS
<1>2. /\ pages \in [Pages -> PageRecords] /\ ContextTable(contexts) /\ Sized(pages)
      /\ cur \in Pages /\ Size(pages, cur) >= 1
  BY <1>1, Facts DEF Good, Typed, ContextTable
<1>3. /\ fs \in Seq(Frames) /\ t = Size(pages, cur) /\ t \in Nat /\ DOMAIN fs = 1..t
      /\ HaveSizes(fs) /\ \A i \in 1..t : fs[i] \in Frames
      /\ t <= PageWords
  BY <1>1, <1>2, FramesOfPage, FramesFit DEF Size
<1>4. t >= 1 /\ t \in 1..t /\ t \in 1..PageWords
  BY <1>2, <1>3, FrameSizes
<1>5. fs[t] \in Frames /\ fs[t].act \in Acts \cup {Terminal} /\ Act(pages, cur, t) = fs[t].act
  BY <1>1, <1>3, <1>4 DEF Frames, Act
<1>6. t = top /\ Current = fs[t]
  BY <1>1 DEF top, Current
<1>7. Words(fs) + OverflowWords <= PageWords
  BY <1>1, <1>2 DEF Sized
<1> QED BY <1>1, <1>2, <1>3, <1>4, <1>5, <1>6, <1>7

\* A step that keeps the current page and changes at most its frames.
LEMMA PageKept ==
  ASSUME NEW ps \in [Pages -> PageRecords], Sized(ps), NEW c \in Pages, NEW fs \in Seq(Frames),
         Words(fs) + OverflowWords <= PageWords, fs # << >>, Used(ps, c),
         NEW qs, qs = WithFrames(ps, c, fs)
  PROVE  NewFrames(ps, qs, c, fs) /\ Sized(qs) /\ \A p \in Pages : Used(qs, p) <=> Used(ps, p)
<1>0. NewFrames(ps, qs, c, fs)
  BY FramesReplaced
<1>1. /\ qs \in [Pages -> PageRecords] /\ SameElsewhere(ps, qs, c) /\ SameLinks(ps, qs)
      /\ qs[c].frames = fs /\ qs[c].head = ps[c].head
  BY <1>0 DEF NewFrames
<1>2. \A p \in Pages \ {c} : qs[p] = ps[p]
  BY <1>1 DEF SameElsewhere
<1>3. Sized(qs)
  BY <1>1, <1>2 DEF Sized
<1>4. \A p \in Pages : Used(qs, p) <=> Used(ps, p)
  BY <1>1, <1>2 DEF Used
<1> QED BY <1>0, <1>3, <1>4

\* A call preserves the invariant.
LEMMA CallStep ==
  ASSUME StackInv, NEW words \in FrameWords, Call(words)
  PROVE  StackInv'
<1>1. PICK list : Good(pages, contexts, currentPage, list)
  BY DEF StackInv
<1>2. PICK cur \in Pages, fs \in Seq(Frames), t \in 1..PageWords :
           /\ cur = currentPage /\ fs = pages[cur].frames /\ t = top
           /\ t = Len(fs) /\ t = Size(pages, cur) /\ DOMAIN fs = 1..t /\ HaveSizes(fs) /\ t \in Nat
           /\ pages \in [Pages -> PageRecords] /\ ContextTable(contexts) /\ Sized(pages)
  BY <1>1, CurrentFrames
<1>3. PICK a, frame, gs : /\ a = (CHOOSE b \in Acts \ Busy : TRUE) /\ frame = Frame(a, pc, Fresh, words)
                          /\ gs = Append(fs, frame)
  OBVIOUS
<1>4. a \in Acts \ Busy
  BY <1>3 DEF Call
<1>5. Idle(pages, contexts, a)
  <2>1. ~OnFrame(pages, a)
    <3>1. \A p \in Pages : DOMAIN pages[p].frames = 1..Size(pages, p)
      BY <1>2, FramesOfPage
    <3>2. ASSUME NEW p \in Pages, NEW i \in 1..Size(pages, p) PROVE Act(pages, p, i) # a
      <4> DEFINE acts(q) == {pages[q].frames[j].act : j \in DOMAIN pages[q].frames}
      <4>1. Act(pages, p, i) \in acts(p)
        BY <3>1 DEF Act
      <4>2. acts(p) \in {acts(q) : q \in Pages}
        OBVIOUS
      <4>3. Busy = (UNION {acts(q) : q \in Pages}) \cup {b \in DOMAIN contexts : contexts[b].sender # Nil}
        BY Zenon DEF Busy
      <4> HIDE DEF acts
      <4>4. Act(pages, p, i) \in UNION {acts(q) : q \in Pages}
        BY <4>1, <4>2, Zenon
      <4> QED BY <1>4, <4>3, <4>4, Zenon
    <3> QED BY <3>2 DEF OnFrame
  <2>2. a \in DOMAIN contexts => contexts[a].sender = Nil
    BY <1>4 DEF Busy
  <2> QED BY <1>4, <2>1, <2>2 DEF Idle
<1>6. frame \in Frames /\ frame.act = a /\ frame.words = words /\ frame.data = Fresh
  <2>1. pc \in Pcs \cup {EndPc} /\ Fresh \in Values
    BY StackAssumption DEF StackInv, Fresh
  <2> QED BY <1>3, <1>4, <2>1 DEF Frame, Frames
<1>7. pc' \in Pcs \cup {EndPc} /\ aborted' \in BOOLEAN /\ deep' \in BOOLEAN
  <2>1. pc' = FirstPc /\ aborted' = aborted
    BY DEF Call
  <2>2. deep' \in BOOLEAN
    BY DEF Call, StackInv
  <2> QED BY <2>1, <2>2, StackAssumption DEF StackInv, FirstPc
<1>8. CASE Overflows(gs)
  <2>1. stackOverflow(frame)
    BY <1>2, <1>3, <1>8 DEF Call, stackOverflow
  <2>2. Overflows(Append(pages[currentPage].frames, frame))
    BY <1>2, <1>3, <1>8
  <2>3. /\ currentPage' \in Pages
        /\ \E l : Good(pages', contexts', currentPage', l)
        /\ FreeList(freePages', pages')
    BY <1>1, <1>2, <1>5, <1>6, <2>1, <2>2, Overflow DEF StackInv
  <2> QED BY <1>7, <2>3 DEF StackInv
<1>9. CASE ~Overflows(gs)
  <2>1. PICK qs, ds : qs = pages' /\ ds = contexts'
    OBVIOUS
  <2>2. /\ qs = WithFrames(pages, cur, gs)
        /\ ds = [b \in DOMAIN contexts \ {a} |-> contexts[b]]
        /\ freePages' = freePages /\ currentPage' = currentPage
    BY <1>2, <1>3, <1>9, <2>1 DEF Call, WithFrames
  <2>3. /\ gs \in Seq(Frames) /\ Len(gs) = t + 1 /\ gs[t + 1] = frame /\ gs # << >>
        /\ \A i \in 1..t : gs[i] = fs[i]
    BY <1>2, <1>3, <1>6
  <2>4. Words(gs) + OverflowWords <= PageWords
    <3>1. HaveSizes(gs)
      <4>1. \A f \in Frames : f.words \in Nat \ {0}
        BY FrameSizes DEF Frames
      <4>2. Len(gs) \in Nat /\ DOMAIN gs = 1..Len(gs) /\ \A i \in 1..Len(gs) : gs[i] \in Frames
        BY <2>3
      <4> QED BY <4>1, <4>2 DEF HaveSizes
    <3>2. Words(gs) \in Nat
      BY <3>1, WordsOfFrames
    <3> QED BY <1>9, <3>2, FrameSizes DEF Overflows
  <2>5. Used(pages, cur)
    BY <1>1, <1>2, Facts
  <2>6. /\ qs \in [Pages -> PageRecords] /\ Sized(qs)
        /\ SameElsewhere(pages, qs, cur) /\ SameLinks(pages, qs) /\ qs[cur].frames = gs
        /\ \A p \in Pages : Used(qs, p) <=> Used(pages, p)
    <3>1. /\ pages \in [Pages -> PageRecords] /\ Sized(pages) /\ gs \in Seq(Frames) /\ gs # << >>
          /\ qs = WithFrames(pages, cur, gs)
      BY <1>2, <2>2, <2>3
    <3>2. NewFrames(pages, qs, cur, gs) /\ Sized(qs) /\ \A p \in Pages : Used(qs, p) <=> Used(pages, p)
      BY <2>4, <2>5, <3>1, PageKept
    <3> QED BY <3>2 DEF NewFrames
  <2>7. /\ DOMAIN ds = DOMAIN contexts \ {a} /\ \A b \in DOMAIN ds : ds[b] = contexts[b]
        /\ ContextTable(ds)
    <3>1. DOMAIN ds = DOMAIN contexts \ {a} /\ \A b \in DOMAIN ds : ds[b] = contexts[b]
      BY <2>2
    <3>2. DOMAIN ds \subseteq DOMAIN contexts /\ ds = [b \in DOMAIN ds |-> contexts[b]]
      BY <2>2, <3>1
    <3>3. \A b \in DOMAIN contexts : contexts[b] \in ContextRecords
      BY <1>2 DEF ContextTable
    <3>4. ds \in [DOMAIN ds -> ContextRecords]
      BY <3>2, <3>3
    <3> QED BY <1>2, <3>1, <3>2, <3>4 DEF ContextTable
  <2>8. /\ Size(qs, cur) = Size(pages, cur) + 1
        /\ \A i \in 1..Size(pages, cur) : Act(qs, cur, i) = Act(pages, cur, i)
        /\ Act(qs, cur, Size(qs, cur)) = a
    <3>1. Size(qs, cur) = t + 1 /\ Size(pages, cur) = t
      BY <1>2, <2>3, <2>6 DEF Size
    <3>2. Act(qs, cur, t + 1) = a /\ \A i \in 1..t : Act(qs, cur, i) = Act(pages, cur, i)
      BY <1>2, <1>6, <2>3, <2>6 DEF Act
    <3> QED BY <3>1, <3>2
  <2>9. Good(qs, ds, cur, list)
    <3>1. Typed(qs, ds)
      BY <2>6, <2>7 DEF Typed, ContextTable
    <3>2. Good(pages, contexts, cur, list)
      BY <1>1, <1>2
    <3> QED BY <1>5, <2>6, <2>7, <2>8, <3>1, <3>2, FramePushed
  <2>10. FreeList(freePages', qs)
    BY <2>2, <2>6, FreeListKept DEF StackInv
  <2> QED BY <1>2, <1>7, <2>1, <2>2, <2>9, <2>10 DEF StackInv
<1> QED BY <1>8, <1>9

\* A return within a page preserves the invariant.
LEMMA LocalReturnStep ==
  ASSUME StackInv, localReturnValue
  PROVE  StackInv'
<1>1. PICK list : Good(pages, contexts, currentPage, list)
  BY DEF StackInv
<1>2. PICK cur \in Pages, fs \in Seq(Frames), t \in 1..PageWords :
           /\ cur = currentPage /\ fs = pages[cur].frames /\ t = top
           /\ t = Len(fs) /\ t = Size(pages, cur) /\ fs[t] \in Frames /\ Current = fs[t]
           /\ Act(pages, cur, t) = fs[t].act
           /\ DOMAIN fs = 1..t /\ HaveSizes(fs) /\ t \in Nat
           /\ pages \in [Pages -> PageRecords] /\ ContextTable(contexts)
           /\ Sized(pages) /\ Words(fs) + OverflowWords <= PageWords
  BY <1>1, CurrentFrames
<1>3. PICK qs, ds, gs, a, u : /\ qs = pages' /\ ds = contexts' /\ gs = SubSeq(fs, 1, t - 1)
                              /\ a = fs[t].act /\ u = t - 1
  OBVIOUS
<1>4. t > 1 /\ u \in Nat /\ u >= 1 /\ u + 1 = t
  <2>1. t > 1
    BY <1>2 DEF localReturnValue
  <2> QED BY <1>2, <1>3, <2>1
<1>5. /\ qs = WithFrames(pages, cur, gs) /\ ds = widowContext(contexts, a)
      /\ freePages' = freePages /\ currentPage' = currentPage
  BY <1>2, <1>3 DEF localReturnValue, WithFrames
<1>6. gs \in Seq(Frames) /\ Len(gs) = u /\ DOMAIN gs = 1..u /\ \A i \in 1..u : gs[i] = fs[i]
  <2>1. gs = SubSeq(fs, 1, u)
    BY <1>3, Zenon
  <2>2. fs \in Seq(Frames) /\ u \in Nat /\ u < Len(fs)
    BY <1>2, <1>4
  <2> QED BY <2>1, <2>2
<1>7. Words(gs) + OverflowWords <= PageWords /\ gs # << >>
  <2>1. HaveSizes(gs)
    <3>1. \A f \in Frames : f.words \in Nat \ {0}
      BY FrameSizes DEF Frames
    <3>2. Len(gs) \in Nat /\ DOMAIN gs = 1..Len(gs) /\ \A i \in 1..Len(gs) : gs[i] \in Frames
      BY <1>4, <1>6
    <3> QED BY <3>1, <3>2 DEF HaveSizes
  <2>2. Words(gs) \in Nat /\ Words(fs) = Words(gs) + fs[t].words
    <3>1. Len(fs) = Len(gs) + 1 /\ Len(fs) = t
      BY <1>2, <1>4, <1>6
    <3>2. \A i \in DOMAIN gs : gs[i].words = fs[i].words
      BY <1>6
    <3>3. Words(gs) \in Nat /\ Words(fs) = Words(gs) + fs[Len(fs)].words
      BY <1>2, <2>1, <3>1, <3>2, WordsOfFrames
    <3> QED BY <3>1, <3>3
  <2>3. fs[t].words \in Nat
    BY <1>2, FrameSizes DEF Frames
  <2>4. gs # << >>
    BY <1>4, <1>6
  <2>5. Words(fs) + OverflowWords <= PageWords
    BY <1>2
  <2>6. PageWords \in Nat /\ OverflowWords \in Nat
    BY FrameSizes
  <2>7. PICK v, w, x : v = Words(gs) /\ w = fs[t].words /\ x = Words(fs)
    OBVIOUS
  <2>8. v \in Nat /\ w \in Nat /\ v + w + OverflowWords <= PageWords
    BY <2>2, <2>3, <2>5, <2>7
  <2>9. v + OverflowWords <= PageWords
    BY <2>6, <2>8
  <2> QED BY <2>4, <2>7, <2>9
<1>8. /\ qs \in [Pages -> PageRecords] /\ Sized(qs)
      /\ SameElsewhere(pages, qs, cur) /\ SameLinks(pages, qs) /\ qs[cur].frames = gs
      /\ \A p \in Pages : Used(qs, p) <=> Used(pages, p)
  <2>1. Used(pages, cur)
    BY <1>1, <1>2, Facts
  <2>2. NewFrames(pages, qs, cur, gs) /\ Sized(qs) /\ \A p \in Pages : Used(qs, p) <=> Used(pages, p)
    BY <1>2, <1>5, <1>6, <1>7, <2>1, PageKept
  <2> QED BY <2>2 DEF NewFrames
<1>9. /\ ContextTable(ds) /\ DOMAIN ds = DOMAIN contexts
      /\ \A b \in DOMAIN ds \ {a} : ds[b].sender = contexts[b].sender
      /\ a \in DOMAIN ds => ds[a].sender = Nil
  BY <1>2, <1>5, Widowing
<1>10. /\ Size(pages, cur) > 1 /\ Size(qs, cur) = Size(pages, cur) - 1
       /\ \A i \in 1..Size(qs, cur) : Act(qs, cur, i) = Act(pages, cur, i)
       /\ a = Act(pages, cur, Size(pages, cur))
  <2>1. Size(pages, cur) = t /\ Size(qs, cur) = u /\ Act(pages, cur, t) = a
    BY <1>2, <1>3, <1>6, <1>8 DEF Size
  <2>2. \A i \in 1..u : Act(qs, cur, i) = Act(pages, cur, i)
    BY <1>2, <1>6, <1>8 DEF Act
  <2>3. t > 1 /\ u = t - 1
    BY <1>3, <1>4
  <2> QED BY <2>1, <2>2, <2>3
<1>11. Good(qs, ds, cur, list)
  <2>1. Typed(qs, ds)
    BY <1>8, <1>9 DEF Typed, ContextTable
  <2>2. Good(pages, contexts, cur, list)
    BY <1>1, <1>2
  <2> QED BY <1>8, <1>9, <1>10, <2>1, <2>2, FramePopped
<1>12. FreeList(freePages', qs)
  BY <1>5, <1>8, FreeListKept DEF StackInv
<1>13. pc' \in Pcs \cup {EndPc} /\ aborted' \in BOOLEAN /\ deep' \in BOOLEAN
  <2>1. pc' = fs[t].ret /\ aborted' = aborted /\ deep' = deep
    BY <1>2 DEF localReturnValue
  <2> QED BY <1>2, <2>1 DEF StackInv, Frames
<1> QED BY <1>2, <1>3, <1>5, <1>11, <1>12, <1>13 DEF StackInv

\* A step of the current frame preserves the invariant.
LEMMA RunStep ==
  ASSUME StackInv, NEW r \in Pcs, NEW d \in Values, Step(r, d)
  PROVE  StackInv'
<1>1. PICK list : Good(pages, contexts, currentPage, list)
  BY DEF StackInv
<1>2. PICK cur \in Pages, fs \in Seq(Frames), t \in 1..PageWords :
           /\ cur = currentPage /\ fs = pages[cur].frames /\ t = top
           /\ t = Len(fs) /\ t = Size(pages, cur) /\ fs[t] \in Frames
           /\ DOMAIN fs = 1..t /\ HaveSizes(fs) /\ t \in Nat
           /\ pages \in [Pages -> PageRecords] /\ ContextTable(contexts)
           /\ Sized(pages) /\ Words(fs) + OverflowWords <= PageWords
  BY <1>1, CurrentFrames
<1>3. PICK qs, gs, f : qs = pages' /\ f = [fs[t] EXCEPT !.data = d] /\ gs = [fs EXCEPT ![t] = f]
  OBVIOUS
<1>4. f \in Frames /\ f.act = fs[t].act /\ f.words = fs[t].words
  BY <1>2, <1>3 DEF Frames
<1>5. t >= 1 /\ t \in 1..t
  BY <1>2, FrameSizes
<1>6. /\ gs \in Seq(Frames) /\ Len(gs) = t /\ DOMAIN gs = 1..t /\ gs # << >>
      /\ \A i \in 1..t : gs[i].act = fs[i].act /\ gs[i].words = fs[i].words
  <2>1. gs \in Seq(Frames) /\ Len(gs) = t /\ gs[t] = f /\ \A i \in 1..t : i # t => gs[i] = fs[i]
    BY <1>2, <1>3, <1>4, <1>5
  <2>2. DOMAIN gs = 1..t /\ gs # << >>
    BY <1>2, <1>5, <2>1
  <2> QED BY <1>4, <2>1, <2>2
<1>7. Words(gs) + OverflowWords <= PageWords
  <2>1. HaveSizes(gs)
    <3>1. \A g \in Frames : g.words \in Nat \ {0}
      BY FrameSizes DEF Frames
    <3>2. Len(gs) \in Nat /\ DOMAIN gs = 1..Len(gs) /\ \A i \in 1..Len(gs) : gs[i] \in Frames
      BY <1>2, <1>6
    <3> QED BY <3>1, <3>2 DEF HaveSizes
  <2>2. Words(gs) = Words(fs)
    <3>1. Len(gs) = Len(fs) /\ \A i \in DOMAIN fs : fs[i].words = gs[i].words
      BY <1>2, <1>6
    <3> QED BY <1>2, <2>1, <3>1, WordsOfFrames
  <2> QED BY <1>2, <2>2
<1>8. qs = WithFrames(pages, cur, gs)
  BY <1>2, <1>3 DEF Step, WithFrames
<1>9. /\ qs \in [Pages -> PageRecords] /\ Sized(qs)
      /\ SameElsewhere(pages, qs, cur) /\ SameLinks(pages, qs)
      /\ qs[cur].frames = gs /\ qs[cur].head = pages[cur].head
      /\ \A p \in Pages : Used(qs, p) <=> Used(pages, p)
  <2>1. Used(pages, cur)
    BY <1>1, <1>2, Facts
  <2>2. NewFrames(pages, qs, cur, gs) /\ Sized(qs) /\ \A p \in Pages : Used(qs, p) <=> Used(pages, p)
    BY <1>2, <1>6, <1>7, <1>8, <2>1, PageKept
  <2> QED BY <2>2 DEF NewFrames
<1>10. \A p \in Pages : /\ qs[p].prev = pages[p].prev /\ qs[p].next = pages[p].next
                         /\ qs[p].head = pages[p].head /\ Size(qs, p) = Size(pages, p)
                         /\ \A i \in 1..Size(pages, p) : Act(qs, p, i) = Act(pages, p, i)
  <2>1. \A p \in Pages \ {cur} : qs[p] = pages[p]
    BY <1>9 DEF SameElsewhere
  <2>2. Size(qs, cur) = t /\ Size(pages, cur) = t
    BY <1>2, <1>6, <1>9 DEF Size
  <2>3. \A i \in 1..t : Act(qs, cur, i) = Act(pages, cur, i)
    BY <1>2, <1>6, <1>9 DEF Act
  <2>4. \A p \in Pages : qs[p].prev = pages[p].prev /\ qs[p].next = pages[p].next
    BY <1>9 DEF SameLinks
  <2>5. \A p \in Pages \ {cur} : Size(qs, p) = Size(pages, p) /\ \A i : Act(qs, p, i) = Act(pages, p, i)
    BY <2>1 DEF Size, Act
  <2> QED BY <1>9, <2>1, <2>2, <2>3, <2>4, <2>5
<1>11. Good(qs, contexts, cur, list)
  <2>1. Typed(qs, contexts)
    BY <1>2, <1>9 DEF Typed, ContextTable
  <2>2. Good(pages, contexts, cur, list)
    BY <1>1, <1>2
  <2> QED BY <1>9, <1>10, <2>1, <2>2, FrameChanged
<1>12. /\ freePages' = freePages /\ currentPage' = currentPage /\ contexts' = contexts
       /\ pc' = r /\ aborted' = aborted /\ deep' = deep
  BY DEF Step
<1>13. FreeList(freePages, qs)
  BY <1>9, FreeListKept DEF StackInv
<1> QED BY <1>2, <1>3, <1>11, <1>12, <1>13 DEF StackInv

\* A step that sees that the frame i of page p is married, and does nothing else.
LEMMA MarriageStep ==
  ASSUME StackInv, NEW p \in Pages, NEW i \in 1..Size(pages, p),
         contexts' = ensureFrameIsMarried(contexts, p, i),
         UNCHANGED <<pages, freePages, currentPage, pc, aborted, deep>>
  PROVE  StackInv' /\ Adjusted(pages, contexts, contexts')
<1>1. PICK list : Good(pages, contexts, currentPage, list)
  BY DEF StackInv
<1>2. PICK ds, cs, ps : ds = contexts' /\ cs = contexts /\ ps = pages
  OBVIOUS
<1>3. ds = Married(ps, cs, p, i)
  BY <1>2 DEF ensureFrameIsMarried, marryFrame, With, FramePointer, Married, Act
<1>4. /\ ps \in [Pages -> PageRecords] /\ ContextTable(cs) /\ Good(ps, cs, currentPage, list)
      /\ i \in 1..Size(ps, p)
  BY <1>1, <1>2 DEF Good, Typed, ContextTable
<1>5. Size(ps, p) \in Nat /\ Size(ps, p) <= PageWords /\ Act(ps, p, i) \in Acts \cup {Terminal}
  BY <1>4, Facts
<1>6. i \in 1..PageWords
  BY <1>4, <1>5, FrameSizes
<1>7. Wedding(ds, cs, Act(ps, p, i), <<p, i>>)
  BY <1>3, <1>4, <1>5, <1>6, Marriage
<1>8. /\ ContextTable(ds) /\ DOMAIN ds = DOMAIN cs \cup {Act(ps, p, i)}
      /\ \A b \in DOMAIN cs : ds[b].sender = cs[b].sender
      /\ Act(ps, p, i) \notin DOMAIN cs => ds[Act(ps, p, i)].sender = <<p, i>>
  BY <1>7 DEF Wedding
<1>9. Typed(ps, ds)
  BY <1>4, <1>8 DEF Typed, ContextTable
<1>10. Good(ps, ds, currentPage, list)
  BY <1>4, <1>8, <1>9, FrameMarried, Zenon
<1>11. Adjusted(ps, cs, ds)
  <2>1. OnFrame(ps, Act(ps, p, i))
    BY <1>4 DEF OnFrame
  <2>2. <<p, i>> \notin Acts \cup {Terminal, Nil}
    BY <1>6, NamesDiffer
  <2> QED BY <1>7, <2>1, <2>2 DEF Wedding, Adjusted
<1> QED BY <1>2, <1>10, <1>11 DEF StackInv

\* Pushing thisContext preserves the invariant.
LEMMA PushStep ==
  ASSUME StackInv, PushThisContext
  PROVE  StackInv' /\ Adjusted(pages, contexts, contexts')
<1>1. PICK list : Good(pages, contexts, currentPage, list)
  BY DEF StackInv
<1>2. PICK cur \in Pages, fs \in Seq(Frames), t \in 1..PageWords :
           cur = currentPage /\ t = top /\ t = Size(pages, cur) /\ t \in Nat
  BY <1>1, CurrentFrames
<1>3. t \in 1..Size(pages, cur)
  <2>1. t >= 1
    BY <1>2, FrameSizes
  <2> QED BY <1>2, <2>1
<1>4. contexts' = ensureFrameIsMarried(contexts, cur, t)
  BY <1>2 DEF PushThisContext, ensureFrameIsMarried, marryFrame, With
<1> QED BY <1>3, <1>4, MarriageStep DEF PushThisContext

\* Asking a context for its sender preserves the invariant.
LEMMA SenderStep ==
  ASSUME StackInv, NEW a \in DOMAIN contexts, pushLongReceiverVariable(a)
  PROVE  StackInv' /\ Adjusted(pages, contexts, contexts')
<1>1. PICK list : Good(pages, contexts, currentPage, list)
  BY DEF StackInv
<1>2. PICK fp : fp = contexts[a].sender
  OBVIOUS
<1>3. /\ a # Terminal /\ fp \in Pages \X (1..PageWords) /\ fp[2] > 1
      /\ contexts' = ensureFrameIsMarried(contexts, fp[1], fp[2] - 1)
  <2>1. /\ a # Terminal /\ contexts[a].sender \in Pages \X (1..PageWords)
        /\ contexts[a].sender[2] > 1
        /\ contexts' = ensureFrameIsMarried(contexts, contexts[a].sender[1], contexts[a].sender[2] - 1)
    BY DEF pushLongReceiverVariable, isMarriedOrWidowed
  <2>2. QED BY <1>2, <2>1
<1>4. PICK p \in Pages, j \in 1..PageWords : fp = <<p, j>>
  BY <1>3
<1>5. j > 1 /\ fp[1] = p /\ fp[2] = j
  BY <1>3, <1>4
<1>6. j <= Size(pages, p) /\ Size(pages, p) \in Nat
  <2>1. \A b \in DOMAIN contexts \ {Terminal} : \A q \in Pages, k \in 1..PageWords :
          contexts[b].sender = <<q, k>> => k <= Size(pages, q) /\ Act(pages, q, k) = b
    BY <1>1, Zenon DEF Good, Faithful
  <2>2. Size(pages, p) \in Nat
    BY <1>1, Facts
  <2> QED BY <1>2, <1>3, <1>4, <2>1, <2>2
<1>7. PICK i : i = j - 1
  OBVIOUS
<1>8. i \in 1..Size(pages, p)
  <2>1. j \in Nat
    BY FrameSizes
  <2> QED BY <1>5, <1>6, <1>7, <2>1
<1>9. contexts' = ensureFrameIsMarried(contexts, p, i)
  BY <1>3, <1>5, <1>7 DEF ensureFrameIsMarried, marryFrame, With
<1> QED BY <1>8, <1>9, MarriageStep DEF pushLongReceiverVariable

\* The first frame of page cur is gone, and page q of its sender is current.
MovedBack(ps, cs, qs, ds, cur, q) ==
  /\ \E list : Good(ps, cs, cur, list) /\ Len(list) >= 2 /\ q = list[2]
  /\ Size(ps, cur) = 1 /\ Size(qs, cur) = 0
  /\ \A p \in Pages \ {cur} : qs[p].frames = ps[p].frames
  /\ DOMAIN ds = DOMAIN cs
  /\ \A b \in DOMAIN ds \ {Act(ps, cur, 1)} : ds[b] = cs[b]
  /\ Act(ps, cur, 1) \in DOMAIN ds => ds[Act(ps, cur, 1)].sender = Nil

\* A return from the first frame of a page preserves the invariant.
LEMMA BaseReturnStep ==
  ASSUME StackInv, baseReturnValue
  PROVE  /\ StackInv'
         /\ MovedBack(pages, contexts, pages', contexts', currentPage, currentPage')
         /\ pc' = pages[currentPage].frames[1].ret
<1>1. PICK list : Good(pages, contexts, currentPage, list)
  BY DEF StackInv
<1>2. PICK cur \in Pages, fs \in Seq(Frames), t \in 1..PageWords :
           /\ cur = currentPage /\ fs = pages[cur].frames /\ t = top
           /\ t = Size(pages, cur) /\ fs[t] \in Frames /\ Current = fs[t]
           /\ Act(pages, cur, t) = fs[t].act
           /\ pages \in [Pages -> PageRecords] /\ ContextTable(contexts)
  BY <1>1, CurrentFrames
<1>3. PICK ps, cs, a, c, fp : /\ ps = pages /\ cs = contexts /\ a = Act(pages, cur, 1)
                              /\ c = contexts[a].sender /\ fp = contexts[c].sender
  OBVIOUS
<1>4. t = 1 /\ a = fs[t].act /\ a # Terminal /\ fp \in Pages \X (1..PageWords)
  <2>1. t = 1 /\ Current.act # Terminal /\ isMarriedOrWidowed(contexts[SenderOfBase])
    BY <1>2 DEF baseReturnValue
  <2>2. a = fs[t].act
    BY <1>2, <1>3, <2>1
  <2>3. SenderOfBase = c
    BY <1>2, <1>3, <2>2 DEF SenderOfBase
  <2> QED BY <1>2, <1>3, <2>1, <2>2, <2>3 DEF isMarriedOrWidowed
<1>5. Good(ps, cs, cur, list) /\ ps \in [Pages -> PageRecords] /\ ContextTable(cs)
  BY <1>1, <1>2, <1>3
<1>l. /\ Len(list) \in Nat \ {0} /\ DOMAIN list = 1..Len(list) /\ list[1] = cur
      /\ \A n \in 1..Len(list) : list[n] \in Pages /\ Size(ps, list[n]) >= 1
      /\ \A m, n \in 1..Len(list) : list[m] = list[n] => m = n
      /\ \A p \in Pages : Size(ps, p) \in Nat /\ Size(ps, p) <= PageWords
  BY <1>5, Facts
<1>6. Len(list) # 1
  <2> SUFFICES ASSUME Len(list) = 1 PROVE FALSE
    OBVIOUS
  <2>1. Orphan(ps, cs, list[Len(list)])
    <3>1. Orphaned(ps, cs, list)
      BY <1>5 DEF Good
    <3>2. Len(list) \in Nat /\ DOMAIN list = 1..Len(list)
      BY <1>l
    <3> QED BY <3>1, <3>2, LinksAndOrphans
  <2>2. list[Len(list)] = cur
    BY <1>l
  <2>3. cs[cs[Act(ps, cur, 1)].sender].sender \in Acts \cup {Terminal}
    BY <1>3, <1>4, <2>1, <2>2 DEF Orphan
  <2>4. fp \in Acts \cup {Terminal}
    BY <1>3, <2>3
  <2>5. PICK q \in Pages, k \in 1..PageWords : fp = <<q, k>>
    BY <1>4
  <2> QED BY <2>4, <2>5, NamesDiffer
<1>7. Len(list) \in Nat /\ Len(list) >= 2
  <2>1. Len(list) \in Nat \ {0}
    BY <1>l
  <2>2. PICK m : m = Len(list)
    OBVIOUS
  <2>3. m \in Nat \ {0} /\ m # 1
    BY <1>6, <2>1, <2>2, Zenon
  <2>4. m \in Nat /\ m >= 2
    BY <2>3
  <2> QED BY <2>2, <2>4, Zenon
<1>8. PICK q, n : q = list[2] /\ n = Size(ps, q)
  OBVIOUS
<1>9. q \in Pages /\ q # cur /\ n \in Nat /\ n <= PageWords
  <2>1. 1 \in 1..Len(list) /\ 2 \in 1..Len(list) /\ 1 # 2
    BY <1>7
  <2>2. list[2] \in Pages /\ list[1] # list[2]
    BY <1>l, <2>1
  <2> QED BY <1>l, <1>8, <2>2
<1>10. n >= 2 /\ c = Act(ps, q, n) /\ c \in DOMAIN cs
  <2>1. \A m \in 1..Len(list) : m < Len(list) => LinkedTo(ps, cs, list[m], list[m + 1])
    <3>1. Linked(ps, cs, list)
      BY <1>5 DEF Good
    <3>2. DOMAIN list = 1..Len(list)
      BY <1>l
    <3> QED BY <1>7, <3>1, <3>2, LinksAndOrphans
  <2>2. 1 \in 1..Len(list) /\ 1 < Len(list) /\ 1 + 1 = 2
    BY <1>7
  <2>3. LinkedTo(ps, cs, list[1], list[1 + 1])
    BY <2>1, <2>2
  <2>4. LinkedTo(ps, cs, cur, q)
    BY <1>l, <1>8, <2>2, <2>3
  <2> QED BY <1>3, <1>8, <2>4 DEF LinkedTo
<1>11. fp = <<q, n>>
  <2>1. \A p \in Pages : \A i \in 1..Size(ps, p) :
          i > 1 /\ Act(ps, p, i) \in DOMAIN cs => cs[Act(ps, p, i)].sender = <<p, i>>
    BY <1>5, Zenon DEF Good, Wed
  <2>2. n \in 1..Size(ps, q) /\ n > 1
    BY <1>8, <1>9, <1>10
  <2>3. cs[c].sender = <<q, n>>
    BY <1>9, <1>10, <2>1, <2>2
  <2> QED BY <1>3, <2>3
<1>12. PICK ls, qs, ds : ls = freed(ps, cur) /\ qs = pages' /\ ds = contexts'
  OBVIOUS
<1>13. ls \in [Pages -> PageRecords] /\ Removed(ps, ls, cur)
  BY <1>5, <1>12, PageIsFreed
<1>14. ls[q].frames = ps[q].frames /\ ls[q].frames \in Seq(Frames) /\ Len(ls[q].frames) = n
  <2>1. ls[q].frames = ps[q].frames
    BY <1>9, <1>13 DEF Removed
  <2>2. ps[q].frames \in Seq(Frames)
    BY <1>5, <1>9, FramesOfPage
  <2> QED BY <1>8, <2>1, <2>2 DEF Size
<1>15. /\ qs = [ls EXCEPT ![q].frames = SubSeq(ls[q].frames, 1, n)]
       /\ freePages' = Append(freePages, cur) /\ currentPage' = q
       /\ ds = widowContext(cs, a)
       /\ pc' = fs[t].ret /\ aborted' = aborted /\ deep' = deep
  <2>1. /\ pages' = [freed(pages, currentPage) EXCEPT ![fp[1]].frames = SubSeq(@, 1, fp[2])]
        /\ freePages' = Append(freePages, currentPage)
        /\ currentPage' = fp[1]
    <3>1. SenderOfBase = c
      BY <1>2, <1>3, <1>4 DEF SenderOfBase
    <3>2. contexts[SenderOfBase].sender = fp
      BY <1>3, <3>1
    <3> QED BY <3>2 DEF baseReturnValue, useNewPageFor
  <2>2. fp[1] = q /\ fp[2] = n
    BY <1>11
  <2>3. /\ qs = [ls EXCEPT ![q].frames = SubSeq(@, 1, n)]
        /\ freePages' = Append(freePages, cur) /\ currentPage' = q
    BY <1>2, <1>3, <1>12, <2>1, <2>2
  <2>4. ds = widowContext(cs, a) /\ pc' = fs[t].ret /\ aborted' = aborted /\ deep' = deep
    BY <1>2, <1>3, <1>4, <1>12 DEF baseReturnValue, widowContext
  <2> QED BY <2>3, <2>4
<1>16. qs = ls
  <2>1. SubSeq(ls[q].frames, 1, n) = ls[q].frames
    <3>1. PICK gs : gs = ls[q].frames
      OBVIOUS
    <3>2. gs \in Seq(Frames) /\ Len(gs) = n
      BY <1>14, <3>1
    <3>3. SubSeq(gs, 1, n) = gs
      BY <1>9, <3>2
    <3> QED BY <3>1, <3>3
  <2>2. qs = [ls EXCEPT ![q].frames = ls[q].frames]
    BY <1>15, <2>1
  <2>3. [ls[q] EXCEPT !.frames = ls[q].frames] = ls[q]
    <3>1. ls[q] \in PageRecords
      BY <1>9, <1>13
    <3> QED BY <3>1 DEF PageRecords
  <2> QED BY <1>9, <1>13, <2>2, <2>3
<1>17. /\ ContextTable(ds) /\ DOMAIN ds = DOMAIN cs
       /\ \A b \in DOMAIN ds \ {a} : ds[b] = cs[b]
       /\ a \in DOMAIN ds => ds[a].sender = Nil
  BY <1>5, <1>15, Widowing
<1>18. \A b : OnPage(ps, cur, b) <=> b = a
  <2>1. Size(ps, cur) = 1
    BY <1>2, <1>3, <1>4
  <2>2. Act(ps, cur, 1) = a
    BY <1>3
  <2> QED BY <2>1, <2>2 DEF OnPage
<1>19. Separated(ps, cs, ds, cur)
  BY <1>17, <1>18 DEF Separated
<1>20. Good(qs, ds, q, Tail(list))
  <2>1. Typed(qs, ds)
    BY <1>13, <1>16, <1>17 DEF Typed, ContextTable
  <2>2. Good(qs, ds, list[2], Tail(list))
    BY <1>5, <1>7, <1>13, <1>16, <1>19, <2>1, PageReturned
  <2> QED BY <1>8, <2>2
<1>21. FreeList(Append(freePages, cur), qs)
  <2>1. PICK free, g, k : free = freePages /\ g = Append(free, cur) /\ k = Len(free)
    OBVIOUS
  <2>2. /\ free \in Seq(Pages) /\ \A i, j \in DOMAIN free : free[i] = free[j] => i = j
        /\ \A p \in Pages : Used(ps, p) <=> \A i \in DOMAIN free : free[i] # p
    BY <1>3, <2>1 DEF StackInv, FreeList
  <2>3. /\ k \in Nat /\ DOMAIN free = 1..k /\ g \in Seq(Pages) /\ DOMAIN g = 1..(k + 1)
        /\ g[k + 1] = cur /\ \A i \in 1..k : g[i] = free[i]
    BY <2>1, <2>2
  <2>4. Used(ps, cur)
    BY <1>5, Facts
  <2>5. \A i \in DOMAIN g : i = k + 1 \/ (i \in DOMAIN free /\ g[i] = free[i])
    BY <2>3
  <2>6. \A i \in DOMAIN free : i \in DOMAIN g /\ g[i] = free[i] /\ free[i] # cur
    BY <2>2, <2>3, <2>4
  <2>7. \A i, j \in DOMAIN g : g[i] = g[j] => i = j
    BY <2>2, <2>3, <2>5, <2>6
  <2>8. k + 1 \in DOMAIN g
    BY <2>3
  <2>9. \A p \in Pages \ {cur} : Used(qs, p) <=> Used(ps, p)
    BY <1>13, <1>16 DEF Removed, Used
  <2>10. ~Used(qs, cur)
    <3>1. qs[cur].frames \in Seq(Frames) /\ Len(qs[cur].frames) = 0
      BY <1>13, <1>16 DEF Removed, Size, PageRecords
    <3> QED BY <3>1 DEF Used
  <2>11. \A p \in Pages : Used(qs, p) <=> \A i \in DOMAIN g : g[i] # p
    <3>1. \A p \in Pages \ {cur} : (\A i \in DOMAIN free : free[i] # p) <=> (\A i \in DOMAIN g : g[i] # p)
      BY <2>3, <2>5, <2>6
    <3>2. \A p \in Pages \ {cur} : Used(qs, p) <=> \A i \in DOMAIN g : g[i] # p
      BY <2>2, <2>9, <3>1
    <3>3. ~\A i \in DOMAIN g : g[i] # cur
      BY <2>3, <2>8
    <3> QED BY <2>10, <3>2, <3>3
  <2>12. FreeList(g, qs)
    BY <2>3, <2>7, <2>11, Zenon DEF FreeList
  <2> QED BY <2>1, <2>12
<1>22. pc' \in Pcs \cup {EndPc} /\ aborted' \in BOOLEAN /\ deep' \in BOOLEAN
  BY <1>2, <1>15 DEF StackInv, Frames
<1>23. MovedBack(ps, cs, qs, ds, cur, q)
  <2>1. Size(ps, cur) = 1
    BY <1>2, <1>3, <1>4
  <2>2. Size(qs, cur) = 0 /\ \A p \in Pages \ {cur} : qs[p].frames = ps[p].frames
    BY <1>13, <1>16 DEF Removed
  <2>3. \E l : Good(ps, cs, cur, l) /\ Len(l) >= 2 /\ q = l[2]
    BY <1>5, <1>7, <1>8
  <2> QED BY <1>3, <1>17, <2>1, <2>2, <2>3 DEF MovedBack
<1>24. pc' = pages[currentPage].frames[1].ret
  BY <1>2, <1>4, <1>15
<1>25. StackInv'
  BY <1>9, <1>12, <1>15, <1>20, <1>21, <1>22 DEF StackInv
<1> QED BY <1>2, <1>3, <1>12, <1>15, <1>23, <1>24, <1>25

\* Every step preserves the invariant.
LEMMA NextStack == StackInv /\ [Next]_vars => StackInv'
<1> SUFFICES ASSUME StackInv, [Next]_vars PROVE StackInv'
  OBVIOUS
<1>1. CASE \E w \in FrameWords : Call(w)
  BY <1>1, CallStep
<1>2. CASE localReturnValue
  BY <1>2, LocalReturnStep
<1>3. CASE baseReturnValue
  BY <1>3, BaseReturnStep
<1>4. CASE makeBaseFrame
  BY <1>4 DEF makeBaseFrame, StackInv
<1>5. CASE \E r \in Pcs, d \in Values : Step(r, d)
  BY <1>5, RunStep
<1>6. CASE PushThisContext
  BY <1>6, PushStep
<1>7. CASE \E a \in DOMAIN contexts : pushLongReceiverVariable(a)
  BY <1>7, SenderStep
<1>8. CASE UNCHANGED vars
  BY <1>8 DEF vars, StackInv
<1> QED BY <1>1, <1>2, <1>3, <1>4, <1>5, <1>6, <1>7, <1>8 DEF Next

\* The invariant holds in all states.
LEMMA StackInvariant == Spec => []StackInv
BY InitStack, NextStack, PTL DEF Spec

----------------------------------------------------------------------------
(***************************************************************************)
(* The types.                                                              *)
(***************************************************************************)
LEMMA StackTypes == StackInv => TypeOK
<1> SUFFICES ASSUME StackInv PROVE TypeOK
  OBVIOUS
<1>1. PICK list : Good(pages, contexts, currentPage, list)
  BY DEF StackInv
<1>2. pages \in [Pages -> PageRecords] /\ ContextTable(contexts)
  BY <1>1 DEF Good, Typed, ContextTable
<1>3. \A a \in DOMAIN contexts :
        /\ contexts[a].sender \in (Pages \X (1..PageWords)) \cup Acts \cup {Terminal, Nil}
        /\ contexts[a].pc \in Pcs \cup {EndPc} /\ contexts[a].data \in Values
  <2> TAKE a \in DOMAIN contexts
  <2>1. contexts[a] \in ContextRecords
    BY <1>2 DEF ContextTable
  <2> QED BY <2>1 DEF ContextRecords, Senders
<1>4. DOMAIN contexts \subseteq Acts \cup {Terminal}
  BY <1>2 DEF ContextTable
<1>5. freePages \in Seq(Pages)
  BY DEF StackInv, FreeList
<1>6. pages \in [Pages -> [frames : Seq(Frames), head : Nat, prev : Pages \cup {NoPage},
                          next : Pages \cup {NoPage}]]
  BY <1>2 DEF PageRecords
<1>7. currentPage \in Pages /\ pc \in Pcs \cup {EndPc} /\ aborted \in BOOLEAN /\ deep \in BOOLEAN
  BY DEF StackInv
<1> QED BY <1>3, <1>4, <1>5, <1>6, <1>7, Zenon DEF TypeOK

\* The pages, frames, contexts and registers of the stack memory have their types
\* after any sequence of calls, returns and marriages.
THEOREM StackTypesCorrect == Spec => []TypeOK
BY StackInvariant, StackTypes, PTL

----------------------------------------------------------------------------
(***************************************************************************)
(* Contexts.                                                               *)
(***************************************************************************)
LEMMA StackContexts == StackInv => MarriedToTheirFrames
<1> SUFFICES ASSUME StackInv, NEW a \in DOMAIN contexts \ {Terminal}, isMarriedOrWidowed(contexts[a])
             PROVE  LET fp == contexts[a].sender
                    IN fp[2] <= Len(pages[fp[1]].frames) /\ pages[fp[1]].frames[fp[2]].act = a
  BY DEF MarriedToTheirFrames
<1>1. PICK list : Good(pages, contexts, currentPage, list)
  BY DEF StackInv
<1>2. PICK p \in Pages, i \in 1..PageWords : contexts[a].sender = <<p, i>>
  <2>1. contexts[a].sender \in Pages \X (1..PageWords)
    BY DEF isMarriedOrWidowed
  <2> QED BY <2>1
<1>3. i <= Size(pages, p) /\ Act(pages, p, i) = a
  <2>1. \A b \in DOMAIN contexts \ {Terminal} : \A q \in Pages, k \in 1..PageWords :
          contexts[b].sender = <<q, k>> => k <= Size(pages, q) /\ Act(pages, q, k) = b
    BY <1>1, Zenon DEF Good, Faithful
  <2> QED BY <1>2, <2>1
<1> QED BY <1>2, <1>3 DEF Size, Act

\* marryFrame, widowContext, divorceAllFrames and the return to another page
\* never leave a context with the frame pointer of a frame that is not its own.
THEOREM ContextsNameTheirFrames == Spec => []MarriedToTheirFrames
BY StackInvariant, StackContexts, PTL

----------------------------------------------------------------------------
(***************************************************************************)
(* The reserve of a page.                                                  *)
(***************************************************************************)
LEMMA StackReserve == StackInv => NoOverrun
<1> SUFFICES ASSUME StackInv, NEW w \in FrameWords
             PROVE  Words(pages[currentPage].frames) + w <= PageWords
  BY DEF NoOverrun
<1>1. PICK list : Good(pages, contexts, currentPage, list)
  BY DEF StackInv
<1>2. PICK cur \in Pages, fs \in Seq(Frames), t \in 1..PageWords :
           cur = currentPage /\ fs = pages[cur].frames /\ HaveSizes(fs) /\ Words(fs) + OverflowWords <= PageWords
  BY <1>1, CurrentFrames
<1>3. Words(fs) \in Nat
  BY <1>2, WordsOfFrames
<1>4. w \in Nat /\ w <= OverflowWords /\ PageWords \in Nat /\ OverflowWords \in Nat
  BY FrameSizes
<1>5. PICK v : v = Words(fs)
  OBVIOUS
<1>6. v \in Nat /\ v + OverflowWords <= PageWords
  BY <1>2, <1>3, <1>5
<1>7. v + w <= PageWords
  BY <1>4, <1>6
<1> QED BY <1>2, <1>5, <1>7

\* activateMethodFrame pushes its frame before it looks for an overflow: whatever
\* the sizes of the frames, that frame is inside the page.
THEOREM NoFrameOverrunsItsPage == Spec => []NoOverrun
BY StackInvariant, StackReserve, PTL

----------------------------------------------------------------------------
(***************************************************************************)
(* The pool of pages.                                                      *)
(***************************************************************************)
BackStep(b, n) ==
  IF n = 0 THEN currentPage
  ELSE IF b[n - 1] = NoPage THEN NoPage ELSE pages[b[n - 1]].prev

\* Back goes through the list.
LEMMA BackIsTheList ==
  ASSUME NEW list, Good(pages, contexts, currentPage, list)
  PROVE  /\ \A n \in 0..(Len(list) - 1) : Back[n] = list[n + 1]
         /\ \A n \in Nat : n >= Len(list) => Back[n] = NoPage
<1>l. /\ Len(list) \in Nat \ {0} /\ DOMAIN list = 1..Len(list) /\ list[1] = currentPage
      /\ \A n \in 1..Len(list) : list[n] \in Pages
  BY Facts
<1>0. PICK len : len = Len(list)
  OBVIOUS
<1>1. len \in Nat \ {0} /\ \A n \in 1..len : list[n] \in Pages /\ list[n] # NoPage
  BY <1>l, <1>0, NamesDiffer
<1>2. \A n \in 1..len : pages[list[n]].prev = IF n = len THEN NoPage ELSE list[n + 1]
  <2>1. \A n \in DOMAIN list : pages[list[n]].prev = IF n = Len(list) THEN NoPage ELSE list[n + 1]
    BY Zenon DEF Good, Listed
  <2>2. DOMAIN list = 1..Len(list)
    BY <1>l
  <2> QED BY <1>0, <2>1, <2>2, Zenon
<1> DEFINE b == [n \in Nat |-> IF n < len THEN list[n + 1] ELSE NoPage]
<1>3. b = [n \in Nat |-> BackStep(b, n)]
  <2>1. \A n \in Nat : b[n] = IF n < len THEN list[n + 1] ELSE NoPage
    OBVIOUS
  <2>2. b = [n \in Nat |-> b[n]]
    OBVIOUS
  <2> HIDE DEF b
  <2>3. ASSUME NEW n \in Nat PROVE b[n] = BackStep(b, n)
    <3>1. CASE n = 0
      <4>1. b[0] = list[1]
        BY <1>1, <2>1
      <4> QED BY <1>l, <3>1, <4>1 DEF BackStep
    <3>2. CASE n # 0 /\ n - 1 < len
      <4>1. n \in 1..len /\ n - 1 \in Nat /\ (n - 1) + 1 = n
        BY <1>1, <3>2
      <4>2. b[n - 1] = list[n] /\ list[n] # NoPage
        BY <1>1, <2>1, <3>2, <4>1
      <4>3. BackStep(b, n) = IF n = len THEN NoPage ELSE list[n + 1]
        BY <1>2, <3>2, <4>1, <4>2 DEF BackStep
      <4>4. b[n] = IF n = len THEN NoPage ELSE list[n + 1]
        BY <1>1, <2>1, <4>1
      <4> QED BY <4>3, <4>4
    <3>3. CASE n # 0 /\ ~(n - 1 < len)
      <4>1. n - 1 \in Nat /\ ~(n < len)
        BY <1>1, <3>3
      <4>2. b[n - 1] = NoPage /\ b[n] = NoPage
        BY <2>1, <3>3, <4>1
      <4> QED BY <3>3, <4>2 DEF BackStep
    <3> QED BY <3>1, <3>2, <3>3
  <2> QED BY <2>2, <2>3, Zenon
<1> HIDE DEF b
<1>4. Back = [n \in Nat |-> BackStep(Back, n)]
  <2>1. \E f : f = [n \in Nat |-> BackStep(f, n)]
    BY <1>3, Zenon
  <2>2. Back = CHOOSE f : f = [n \in Nat |-> BackStep(f, n)]
    BY Zenon DEF Back, BackStep
  <2> QED BY <2>1, <2>2, Zenon
<1>5. PICK back : back = Back
  OBVIOUS
<1>6. \A n \in Nat : back[n] = BackStep(back, n) /\ b[n] = BackStep(b, n)
  <2>1. back = [n \in Nat |-> BackStep(back, n)]
    BY <1>4, <1>5, Zenon
  <2> QED BY <1>3, <2>1
<1> DEFINE S == {n \in Nat : back[n] = b[n]}
<1>7. S = Nat
  <2>1. 0 \in S
    <3>1. back[0] = currentPage /\ b[0] = currentPage
      BY <1>6 DEF BackStep
    <3> QED BY <3>1
  <2>2. ASSUME NEW n \in S PROVE n + 1 \in S
    <3>1. n \in Nat /\ back[n] = b[n] /\ n + 1 \in Nat /\ n + 1 # 0 /\ (n + 1) - 1 = n
      OBVIOUS
    <3>2. BackStep(back, n + 1) = BackStep(b, n + 1)
      BY <3>1 DEF BackStep
    <3> QED BY <1>6, <3>1, <3>2
  <2>3. S \in SUBSET Nat
    OBVIOUS
  <2> HIDE DEF S
  <2> QED BY <2>1, <2>2, <2>3, SetInduction
<1>8. \A n \in Nat : n < len => b[n] = list[n + 1]
  BY DEF b
<1>9. ASSUME NEW n \in 0..(len - 1) PROVE Back[n] = list[n + 1]
  <2>1. n \in Nat /\ n < len
    BY <1>1
  <2> QED BY <1>5, <1>7, <1>8, <2>1
<1>10. ASSUME NEW n \in Nat, n >= len PROVE Back[n] = NoPage
  <2>1. ~(n < len)
    BY <1>1, <1>10
  <2>2. b[n] = NoPage
    BY <2>1 DEF b
  <2> QED BY <1>5, <1>7, <2>2
<1> QED BY <1>0, <1>9, <1>10

\* There are no more pages in the list than there are.
LEMMA ListIsShort ==
  ASSUME NEW list, Good(pages, contexts, currentPage, list)
  PROVE  Len(list) <= StackPageCount
<1>1. /\ Len(list) \in Nat \ {0} /\ DOMAIN list = 1..Len(list)
      /\ \A m, n \in 1..Len(list) : list[m] = list[n] => m = n
  BY Facts
<1>2. PICK len \in Nat : len = Len(list)
  <2>1. Len(list) \in Nat
    BY <1>1
  <2> QED BY <2>1
<1>3. list \in [1..len -> Pages]
  <2>1. list \in Seq(Pages)
    BY DEF Good, Listed
  <2>2. list \in [1..Len(list) -> Pages]
    BY <2>1
  <2> QED BY <1>2, <2>2
<1>4. StackPageCount \in Nat
  BY StackAssumption
<1>5. /\ IsFiniteSet(1..len) /\ Cardinality(1..len) = len
      /\ IsFiniteSet(Pages) /\ Cardinality(Pages) = StackPageCount
  <2>1. 1 \in Int /\ len \in Int /\ StackPageCount \in Int
    BY <1>4
  <2>2. /\ IsFiniteSet(1..len) /\ Cardinality(1..len) = IF 1 > len THEN 0 ELSE len - 1 + 1
        /\ IsFiniteSet(1..StackPageCount)
        /\ Cardinality(1..StackPageCount) = IF 1 > StackPageCount THEN 0 ELSE StackPageCount - 1 + 1
    BY <2>1, FS_Interval
  <2> QED BY <1>4, <2>2 DEF Pages
<1>6. ~(Cardinality(Pages) < Cardinality(1..len))
  <2>1. \A m, n \in 1..len : list[m] = list[n] => m = n
    BY <1>1, <1>2
  <2> QED BY <1>3, <1>5, <2>1, FS_PigeonHole
<1> QED BY <1>2, <1>4, <1>5, <1>6

\* By the invariant every page is either free or in use.
LEMMA StackPool == StackInv => PoolIntact
<1> SUFFICES ASSUME StackInv PROVE PoolIntact
  OBVIOUS
<1>1. PICK list : Good(pages, contexts, currentPage, list)
  BY DEF StackInv
<1>l. /\ Len(list) \in Nat \ {0} /\ DOMAIN list = 1..Len(list) /\ list[1] = currentPage
      /\ \A n \in 1..Len(list) : list[n] \in Pages
      /\ \A m, n \in 1..Len(list) : list[m] = list[n] => m = n
      /\ \A p \in Pages : Used(pages, p) <=> Size(pages, p) >= 1
      /\ \A p \in Pages : Size(pages, p) >= 1 => \E n \in 1..Len(list) : list[n] = p
  BY <1>1, Facts
<1>0. PICK len : len = Len(list)
  OBVIOUS
<1>2. len \in Nat /\ len >= 1 /\ list \in [1..len -> Pages]
  <2>1. len \in Nat \ {0}
    BY <1>l, <1>0
  <2>2. list \in Seq(Pages)
    BY <1>1 DEF Good, Listed
  <2>3. list \in [1..Len(list) -> Pages]
    BY <2>2
  <2> QED BY <1>0, <2>1, <2>3
<1>3. \A n \in 1..len :
        /\ pages[list[n]].prev = IF n = len THEN NoPage ELSE list[n + 1]
        /\ pages[list[n]].next = IF n = 1 THEN NoPage ELSE list[n - 1]
  <2>1. \A n \in DOMAIN list :
          /\ pages[list[n]].prev = IF n = Len(list) THEN NoPage ELSE list[n + 1]
          /\ pages[list[n]].next = IF n = 1 THEN NoPage ELSE list[n - 1]
    BY <1>1, Zenon DEF Good, Listed
  <2>2. DOMAIN list = 1..Len(list)
    BY <1>l
  <2> QED BY <1>0, <2>1, <2>2, Zenon
<1>4. \A p \in Pages : Used(pages, p) => \E n \in 1..len : list[n] = p
  BY <1>l, <1>0
<1>5. len <= StackPageCount
  BY <1>0, <1>1, ListIsShort
<1>6. \A i, j \in DOMAIN freePages : i # j => freePages[i] # freePages[j]
  BY Zenon DEF StackInv, FreeList
<1>7. \A p \in Pages : inUse(p) <=> \A i \in DOMAIN freePages : freePages[i] # p
  <2>1. \A p \in Pages : Used(pages, p) <=> \A i \in DOMAIN freePages : freePages[i] # p
    BY Zenon DEF StackInv, FreeList
  <2> QED BY <2>1 DEF inUse, Used
<1>8. ASSUME NEW p \in Pages, inUse(p)
      PROVE  \E n \in 0..(StackPageCount - 1) : Back[n] = p
  <2>1. PICK m \in 1..len : list[m] = p
    BY <1>4, <1>8 DEF inUse, Used
  <2>2. PICK n : n = m - 1
    OBVIOUS
  <2>3. n + 1 = m /\ n \in 0..(len - 1) /\ n \in 0..(StackPageCount - 1)
    BY <1>2, <1>5, <2>2, StackAssumption
  <2>4. Back[n] = list[n + 1]
    BY <1>0, <1>1, <2>3, BackIsTheList
  <2> QED BY <2>1, <2>3, <2>4
<1>9. ASSUME NEW p \in Pages, pages[p].prev # NoPage
      PROVE  pages[pages[p].prev].next = p
  <2>1. Used(pages, p)
    <3>1. \A q \in Pages : ~Used(pages, q) => pages[q].prev = NoPage
      BY <1>1, Zenon DEF Good, Listed
    <3> QED BY <1>9, <3>1
  <2>2. PICK n \in 1..len : list[n] = p
    BY <1>4, <2>1
  <2>3. n # len
    BY <1>3, <1>9, <2>2
  <2>4. n + 1 \in 1..len /\ n + 1 # 1 /\ (n + 1) - 1 = n
    BY <1>2, <2>3
  <2>5. pages[p].prev = list[n + 1] /\ pages[list[n + 1]].next = list[n]
    BY <1>3, <2>2, <2>3, <2>4
  <2> QED BY <2>2, <2>5
<1>10. pages[currentPage].next = NoPage
  <2>1. 1 \in 1..len
    BY <1>2
  <2> QED BY <1>l, <1>3, <2>1
<1> QED BY <1>6, <1>7, <1>8, <1>9, <1>10 DEF PoolIntact

\* newPage, freed and useNewPageFor never lose a page or use one twice, and keep
\* the list that stackFramesDo walks whole and linked in both directions.
THEOREM PoolStaysIntact == Spec => []PoolIntact
BY StackInvariant, StackPool, PTL

----------------------------------------------------------------------------
(***************************************************************************)
(* The stack of activations.  The first d activations of the stack s are   *)
(* left to their contexts, the others are in frames: base[p] activations   *)
(* are below those of page p.                                              *)
(***************************************************************************)
Activations == [act : Acts \cup {Terminal}, pc : Pcs \cup {EndPc}, data : Values]

Shaped(s) ==
  /\ s \in Seq(Activations) /\ Len(s) >= 1
  /\ s[1].act = Terminal /\ s[1].pc = EndPc
  /\ \A j, k \in 1..Len(s) : s[j].act = s[k].act => j = k

\* The frames of page p hold the activations from base[p] + 1 on, and return to
\* the activations below them.
FramesLie(ps, s, base, d) ==
  /\ base \in [Pages -> Nat]
  /\ \A p \in Pages : \A i \in 1..Size(ps, p), k \in Nat : k = base[p] + i =>
       /\ d < k /\ k <= Len(s)
       /\ s[k].act = Act(ps, p, i) /\ s[k].data = ps[p].frames[i].data
       /\ k > 1 => s[k - 1].pc = ps[p].frames[i].ret
  /\ \A k \in (d + 1)..Len(s) : \E p \in Pages : \E i \in 1..Size(ps, p) : k = base[p] + i

\* The context of the first activation of a page has the activation below as its sender.
BasesLie(ps, cs, s, base) ==
  \A p \in Pages : Size(ps, p) >= 1 /\ base[p] >= 1 =>
    Act(ps, p, 1) \in DOMAIN cs /\ cs[Act(ps, p, 1)].sender = s[base[p]].act

ContextsLie(cs, s, d) ==
  /\ d \in Nat /\ d < Len(s)
  /\ \A k \in 1..d :
       /\ s[k].act \in DOMAIN cs /\ cs[s[k].act].pc = s[k].pc /\ cs[s[k].act].data = s[k].data
       /\ k > 1 => cs[s[k].act].sender = s[k - 1].act
  /\ \A a \in DOMAIN cs : cs[a].sender # Nil => \E k \in 1..Len(s) : s[k].act = a
  /\ Terminal \in DOMAIN cs => cs[Terminal].sender \notin Acts \cup {Terminal, Nil}

\* The memory with the current page cur and the instruction pointer r holds s.
Lies(ps, cs, cur, r, s, base, d) ==
  /\ Shaped(s) /\ FramesLie(ps, s, base, d) /\ BasesLie(ps, cs, s, base) /\ ContextsLie(cs, s, d)
  /\ cur \in Pages /\ Size(ps, cur) >= 1 /\ base[cur] + Size(ps, cur) = Len(s)
  /\ s[Len(s)].pc = r

\* What is said of every activation of a stack.
LEMMA StackFacts ==
  ASSUME NEW s, Shaped(s)
  PROVE  /\ Len(s) \in Nat \ {0} /\ DOMAIN s = 1..Len(s)
         /\ \A k \in 1..Len(s) : /\ s[k] \in Activations /\ s[k].act \in Acts \cup {Terminal}
                                 /\ s[k].pc \in Pcs \cup {EndPc} /\ s[k].data \in Values
<1>1. s \in Seq(Activations) /\ Len(s) >= 1
  BY DEF Shaped
<1>2. Len(s) \in Nat \ {0} /\ DOMAIN s = 1..Len(s) /\ \A k \in 1..Len(s) : s[k] \in Activations
  BY <1>1
<1> QED BY <1>2 DEF Activations

\* Frame i of page p is activation k of the stack.
Holds(ps, s, base, d, p, i, k) ==
  /\ k = base[p] + i /\ base[p] \in Nat /\ base[p] >= d /\ k > d
  /\ s[k].act = Act(ps, p, i) /\ s[k].data = ps[p].frames[i].data
  /\ k > 1 => k - 1 \in 1..Len(s) /\ s[k - 1].pc = ps[p].frames[i].ret

\* The activation that a frame holds.
LEMMA FrameAt ==
  ASSUME NEW ps, NEW s, NEW base, NEW d \in Nat, Shaped(s), FramesLie(ps, s, base, d),
         NEW p \in Pages, Size(ps, p) \in Nat, NEW i \in 1..Size(ps, p)
  PROVE  \E k \in 1..Len(s) : Holds(ps, s, base, d, p, i, k)
<1>1. base[p] \in Nat /\ Len(s) \in Nat /\ i \in Nat /\ i >= 1
  BY StackFacts DEF FramesLie
<1>2. PICK b \in Nat : b = base[p]
  BY <1>1
<1>3. PICK k \in Nat : k = b + i
  BY <1>1
<1>4. /\ d < k /\ k <= Len(s)
      /\ s[k].act = Act(ps, p, i) /\ s[k].data = ps[p].frames[i].data
      /\ k > 1 => s[k - 1].pc = ps[p].frames[i].ret
  BY <1>2, <1>3 DEF FramesLie
<1>5. k \in 1..Len(s) /\ (k > 1 => k - 1 \in 1..Len(s))
  <2>1. d < k /\ k <= Len(s)
    BY <1>4
  <2> QED BY <1>1, <2>1
<1>6. b >= d
  <2>1. 1 \in 1..Size(ps, p)
    BY <1>1
  <2>2. PICK j \in Nat : j = b + 1
    OBVIOUS
  <2>3. d < j
    BY <1>2, <2>1, <2>2 DEF FramesLie
  <2> QED BY <2>2, <2>3
<1> QED BY <1>2, <1>3, <1>4, <1>5, <1>6 DEF Holds

\* Frame f is on top of page n.
FrameOnTop(ps, qs, n, f) ==
  /\ \A p \in Pages \ {n} : qs[p].frames = ps[p].frames
  /\ Size(qs, n) = Size(ps, n) + 1 /\ qs[n].frames[Size(ps, n) + 1] = f
  /\ \A i \in 1..Size(ps, n) : qs[n].frames[i] = ps[n].frames[i]

\* The whole stack is below page n, if it is empty.
BaseFound(ps, s, base, bs, n) ==
  /\ bs \in [Pages -> Nat] /\ \A p \in Pages \ {n} : bs[p] = base[p]
  /\ bs[n] + Size(ps, n) = Len(s)
  /\ Size(ps, n) >= 1 => bs[n] = base[n]

NewOnStack(s, f, r) ==
  /\ f.act \in Acts /\ f.data \in Values /\ f.ret = r
  /\ \A k \in 1..Len(s) : s[k].act # f.act

\* The context of a, if its page was empty, knows the activation below.
NewContext(ps, cs, ds, s, n, a) ==
  /\ DOMAIN ds \subseteq DOMAIN cs \cup {a}
  /\ \A b \in DOMAIN cs \ {a} : b \in DOMAIN ds /\ ds[b] = cs[b]
  /\ Size(ps, n) = 0 => a \in DOMAIN ds /\ ds[a].sender = s[Len(s)].act

\* A new activation is on top of page n, which was the current one or is free.
LEMMA FramePut ==
  ASSUME NEW ps, NEW cs, NEW cur, NEW r, NEW s, NEW base, NEW d, Lies(ps, cs, cur, r, s, base, d),
         \A p \in Pages : Size(ps, p) \in Nat,
         NEW n \in Pages, NEW qs, NEW ds, NEW bs, NEW f,
         FrameOnTop(ps, qs, n, f), BaseFound(ps, s, base, bs, n), NewOnStack(s, f, r),
         NewContext(ps, cs, ds, s, n, f.act),
         NEW t, t = Append(s, [act |-> f.act, pc |-> FirstPc, data |-> f.data])
  PROVE  Lies(qs, ds, n, FirstPc, t, bs, d)
<1> SUFFICES ASSUME bs \in [Pages -> Nat],
         \A p \in Pages \ {n} : qs[p].frames = ps[p].frames /\ bs[p] = base[p],
         Size(qs, n) = Size(ps, n) + 1, qs[n].frames[Size(ps, n) + 1] = f,
         \A i \in 1..Size(ps, n) : qs[n].frames[i] = ps[n].frames[i],
         bs[n] + Size(ps, n) = Len(s), Size(ps, n) >= 1 => bs[n] = base[n],
         f.act \in Acts, f.data \in Values, f.ret = r, \A k \in 1..Len(s) : s[k].act # f.act,
         DOMAIN ds \subseteq DOMAIN cs \cup {f.act},
         \A b \in DOMAIN cs \ {f.act} : b \in DOMAIN ds /\ ds[b] = cs[b],
         Size(ps, n) = 0 => f.act \in DOMAIN ds /\ ds[f.act].sender = s[Len(s)].act
             PROVE  Lies(qs, ds, n, FirstPc, t, bs, d)
  BY DEF FrameOnTop, BaseFound, NewOnStack, NewContext
<1>1. /\ Shaped(s) /\ FramesLie(ps, s, base, d) /\ BasesLie(ps, cs, s, base) /\ ContextsLie(cs, s, d)
      /\ s[Len(s)].pc = r
  BY DEF Lies
<1>2. PICK m, x : m = Len(s) /\ x = [act |-> f.act, pc |-> FirstPc, data |-> f.data]
  OBVIOUS
<1>3. m \in Nat \ {0} /\ \A k \in 1..m : s[k].act \in Acts \cup {Terminal}
  BY <1>1, <1>2, StackFacts
<1>4. x \in Activations /\ x.act = f.act /\ x.pc = FirstPc /\ x.data = f.data
  <2>1. FirstPc \in Pcs BY StackAssumption DEF FirstPc
  <2> QED BY <1>2, <2>1 DEF Activations
<1>5. /\ t \in Seq(Activations) /\ Len(t) = m + 1 /\ t[m + 1] = x
      /\ \A k \in 1..m : t[k] = s[k]
  <2>1. s \in Seq(Activations) /\ t = Append(s, x) BY <1>1, <1>2 DEF Shaped
  <2> QED BY <1>2, <1>3, <1>4, <2>1
<1>6. Shaped(t)
  <2>1. \A j, k \in 1..m : s[j].act = s[k].act => j = k BY <1>1, <1>2 DEF Shaped
  <2>2. \A k \in 1..(m + 1) : k \in 1..m \/ k = m + 1 BY <1>3
  <2>3. \A j, k \in 1..(m + 1) : t[j].act = t[k].act => j = k
    <3> SUFFICES ASSUME NEW j \in 1..(m + 1), NEW k \in 1..(m + 1), t[j].act = t[k].act PROVE j = k
      OBVIOUS
    <3>1. \A i \in 1..m : s[i].act # f.act BY <1>2
    <3> QED BY <1>4, <1>5, <2>1, <2>2, <3>1
  <2>4. 1 \in 1..m /\ s[1].act = Terminal /\ s[1].pc = EndPc BY <1>1, <1>3 DEF Shaped
  <2> QED BY <1>3, <1>5, <2>3, <2>4 DEF Shaped
<1>7. \A p \in Pages \ {n} : /\ Size(qs, p) = Size(ps, p)
                             /\ \A i : Act(qs, p, i) = Act(ps, p, i)
  BY DEF Size, Act
<1>8. \A i \in 1..Size(ps, n) : Act(qs, n, i) = Act(ps, n, i)
  BY DEF Act
<1>9. Act(qs, n, Size(ps, n) + 1) = f.act
  BY DEF Act
<1>10. d \in Nat /\ d < m
  BY <1>1, <1>2 DEF ContextsLie
<1>n. d \in Nat /\ m \in Nat /\ d < m /\ m >= 1
  BY <1>3, <1>10
<1>11. FramesLie(qs, t, bs, d)
  <2>1. ASSUME NEW p \in Pages, NEW i \in 1..Size(ps, p)
        PROVE  bs[p] = base[p] /\ qs[p].frames[i] = ps[p].frames[i] /\ Act(qs, p, i) = Act(ps, p, i)
    <3>1. CASE p = n
      <4>1. Size(ps, n) >= 1 BY <3>1
      <4> QED BY <1>8, <3>1, <4>1
    <3>2. CASE p # n BY <1>7, <3>2
    <3> QED BY <3>1, <3>2
  <2>2. ASSUME NEW p \in Pages, NEW i \in 1..Size(qs, p), NEW k \in Nat, k = bs[p] + i
        PROVE  /\ d < k /\ k <= m + 1
               /\ t[k].act = Act(qs, p, i) /\ t[k].data = qs[p].frames[i].data
               /\ k > 1 => t[k - 1].pc = qs[p].frames[i].ret
    <3>1. CASE i \in 1..Size(ps, p)
      <4>1. PICK h \in 1..Len(s) : Holds(ps, s, base, d, p, i, h)
        <5>1. Shaped(s) /\ FramesLie(ps, s, base, d) /\ Size(ps, p) \in Nat /\ d \in Nat BY <1>1, <1>10
        <5> QED BY <3>1, <5>1, FrameAt, Zenon
      <4>2. h = k BY <2>1, <2>2, <3>1, <4>1 DEF Holds
      <4>3. t[k] = s[k] /\ (k > 1 => t[k - 1] = s[k - 1]) BY <1>2, <1>5, <4>1, <4>2 DEF Holds
      <4>4. d < k /\ k <= m + 1 BY <1>2, <1>3, <1>10, <4>1, <4>2 DEF Holds
      <4> QED BY <2>1, <3>1, <4>1, <4>2, <4>3, <4>4 DEF Holds
    <3>2. CASE i \notin 1..Size(ps, p)
      <4>1. p = n /\ i = Size(ps, n) + 1 BY <1>7, <3>2
      <4>2. k = m + 1 /\ d < k /\ k <= m + 1 /\ k - 1 = m /\ m \in 1..m
        <5>1. PICK z \in Nat, b \in Nat : z = Size(ps, n) /\ b = bs[n] OBVIOUS
        <5>2. b + z = m BY <1>2, <5>1
        <5>3. k = b + (z + 1) BY <2>2, <4>1, <5>1
        <5>4. k = m + 1 BY <5>2, <5>3
        <5> QED BY <1>n, <5>4
      <4>3. t[m].pc = r BY <1>1, <1>2, <1>5, <4>2
      <4> QED BY <1>4, <1>5, <1>9, <4>1, <4>2, <4>3
    <3> QED BY <3>1, <3>2
  <2>3. ASSUME NEW k \in (d + 1)..(m + 1)
        PROVE  \E p \in Pages : \E i \in 1..Size(qs, p) : k = bs[p] + i
    <3>1. CASE k = m + 1
      <4>1. PICK j : j = Size(ps, n) + 1 OBVIOUS
      <4>2. j \in 1..Size(qs, n) /\ m + 1 = bs[n] + j BY <1>2, <1>3, <4>1
      <4> QED BY <3>1, <4>2
    <3>2. CASE k # m + 1
      <4>1. k \in (d + 1)..m BY <1>n, <3>2
      <4>2. PICK p \in Pages : \E i \in 1..Size(ps, p) : k = base[p] + i
        BY <1>1, <1>2, <4>1 DEF FramesLie
      <4>3. PICK i \in 1..Size(ps, p) : k = base[p] + i BY <4>2
      <4>4. bs[p] = base[p] BY <2>1
      <4>5. k = bs[p] + i BY <4>3, <4>4, Zenon
      <4>6. i \in 1..Size(qs, p) BY <1>7
      <4> QED BY <4>5, <4>6, Zenon
    <3> QED BY <3>1, <3>2
  <2>4. Len(t) = m + 1
    BY <1>5
  <2>5. ASSUME NEW p \in Pages, NEW i \in 1..Size(qs, p), NEW k \in Nat, k = bs[p] + i
        PROVE  /\ d < k /\ k <= Len(t)
               /\ t[k].act = Act(qs, p, i) /\ t[k].data = qs[p].frames[i].data
               /\ k > 1 => t[k - 1].pc = qs[p].frames[i].ret
    <3>1. /\ d < k /\ k <= m + 1
          /\ t[k].act = Act(qs, p, i) /\ t[k].data = qs[p].frames[i].data
          /\ k > 1 => t[k - 1].pc = qs[p].frames[i].ret
      BY <2>2, <2>5
    <3> QED BY <2>4, <3>1
  <2>6. ASSUME NEW k \in (d + 1)..Len(t)
        PROVE  \E p \in Pages : \E i \in 1..Size(qs, p) : k = bs[p] + i
    <3>1. k \in (d + 1)..(m + 1)
      BY <2>4, <2>6
    <3> QED BY <2>3, <3>1
  <2> QED BY <2>5, <2>6, Zenon DEF FramesLie
<1>12. BasesLie(qs, ds, t, bs)
  <2> SUFFICES ASSUME NEW p \in Pages, Size(qs, p) >= 1, bs[p] >= 1
               PROVE  Act(qs, p, 1) \in DOMAIN ds /\ ds[Act(qs, p, 1)].sender = t[bs[p]].act
    BY DEF BasesLie
  <2>1. CASE p = n /\ Size(ps, n) = 0
    <3>1. bs[p] = m /\ m \in 1..m /\ Act(qs, p, 1) = f.act BY <1>2, <1>3, <1>9, <2>1
    <3> QED BY <1>2, <1>5, <2>1, <3>1
  <2>2. CASE ~(p = n /\ Size(ps, n) = 0)
    <3>1. bs[p] = base[p] /\ Size(ps, p) >= 1 /\ Act(qs, p, 1) = Act(ps, p, 1) /\ 1 \in 1..Size(ps, p)
      <4>1. CASE p = n
        <5>1. Size(ps, n) \in Nat /\ Size(ps, n) # 0 BY <2>2, <4>1
        <5>2. Size(ps, n) >= 1 /\ 1 \in 1..Size(ps, n) BY <5>1
        <5> QED BY <1>8, <4>1, <5>2
      <4>2. CASE p # n
        <5>1. Size(ps, p) >= 1 BY <1>7, <4>2
        <5>2. 1 \in 1..Size(ps, p) BY <5>1
        <5> QED BY <1>7, <4>2, <5>1, <5>2
      <4> QED BY <4>1, <4>2
    <3>2. Act(ps, p, 1) \in DOMAIN cs /\ cs[Act(ps, p, 1)].sender = s[base[p]].act
      BY <1>1, <3>1 DEF BasesLie
    <3>3. PICK k \in 1..m : k = base[p] + 1 /\ base[p] \in Nat /\ s[k].act = Act(ps, p, 1)
      BY <1>1, <1>2, <1>10, <3>1, FrameAt DEF Holds
    <3>4. base[p] \in 1..m BY <1>3, <3>1, <3>3
    <3>5. Act(ps, p, 1) # f.act BY <1>2, <3>3
    <3>6. t[bs[p]] = s[base[p]] BY <1>5, <3>1, <3>4
    <3>7. Act(qs, p, 1) \in DOMAIN ds /\ ds[Act(qs, p, 1)] = cs[Act(ps, p, 1)] BY <3>1, <3>2, <3>5
    <3> QED BY <3>2, <3>6, <3>7
  <2> QED BY <2>1, <2>2
<1>13. ContextsLie(ds, t, d)
  <2>1. \A k \in 1..d : k \in 1..m /\ (k > 1 => k - 1 \in 1..m) BY <1>3, <1>10
  <2>2. ASSUME NEW k \in 1..d
        PROVE  /\ t[k].act \in DOMAIN ds /\ ds[t[k].act].pc = t[k].pc /\ ds[t[k].act].data = t[k].data
               /\ k > 1 => ds[t[k].act].sender = t[k - 1].act
    <3>1. /\ s[k].act \in DOMAIN cs /\ cs[s[k].act].pc = s[k].pc /\ cs[s[k].act].data = s[k].data
          /\ k > 1 => cs[s[k].act].sender = s[k - 1].act
      BY <1>1 DEF ContextsLie
    <3>2. s[k].act # f.act /\ t[k] = s[k] /\ (k > 1 => t[k - 1] = s[k - 1]) BY <1>2, <1>5, <2>1
    <3>3. s[k].act \in DOMAIN ds /\ ds[s[k].act] = cs[s[k].act] BY <3>1, <3>2
    <3>4. k > 1 => ds[s[k].act].sender = s[k - 1].act BY <3>1, <3>3
    <3> QED BY <3>1, <3>2, <3>3, <3>4
  <2>3. ASSUME NEW b \in DOMAIN ds, ds[b].sender # Nil PROVE \E k \in 1..(m + 1) : t[k].act = b
    <3>1. CASE b = f.act
      <4>1. m + 1 \in 1..(m + 1) BY <1>3
      <4> QED BY <1>4, <1>5, <3>1, <4>1
    <3>2. CASE b # f.act
      <4>1. b \in DOMAIN cs /\ cs[b].sender # Nil BY <2>3, <3>2
      <4>2. PICK k \in 1..m : s[k].act = b BY <1>1, <1>2, <4>1 DEF ContextsLie
      <4>3. k \in 1..(m + 1) BY <1>3
      <4> QED BY <1>5, <4>2, <4>3
    <3> QED BY <3>1, <3>2
  <2>4. Terminal # f.act BY NamesDiffer
  <2>5. Terminal \in DOMAIN ds => ds[Terminal].sender \notin Acts \cup {Terminal, Nil}
    BY <1>1, <2>4 DEF ContextsLie
  <2>6. d < m + 1 BY <1>3, <1>10
  <2> QED BY <1>5, <1>10, <2>2, <2>3, <2>5, <2>6 DEF ContextsLie
<1>14. Size(qs, n) >= 1 /\ bs[n] + Size(qs, n) = Len(t) /\ t[Len(t)].pc = FirstPc
  BY <1>2, <1>4, <1>5
<1> QED BY <1>6, <1>11, <1>12, <1>13, <1>14 DEF Lies

\* What it means that the memory holds a stack, without the definitions.
LEMMA LiesFacts ==
  ASSUME NEW ps, NEW cs, NEW cur, NEW r, NEW s, NEW base, NEW d, Lies(ps, cs, cur, r, s, base, d)
  PROVE  /\ Shaped(s) /\ FramesLie(ps, s, base, d) /\ BasesLie(ps, cs, s, base) /\ ContextsLie(cs, s, d)
         /\ cur \in Pages /\ Size(ps, cur) >= 1 /\ base[cur] + Size(ps, cur) = Len(s)
         /\ s[Len(s)].pc = r
         /\ Len(s) \in Nat \ {0} /\ d \in Nat /\ d < Len(s) /\ base \in [Pages -> Nat]
         /\ \A j, k \in 1..Len(s) : s[j].act = s[k].act => j = k
         /\ s \in Seq(Activations) /\ s[1].act = Terminal /\ s[1].pc = EndPc
         /\ \A k \in 1..Len(s) : s[k] \in Activations /\ s[k].act \in Acts \cup {Terminal}
<1>1. /\ Shaped(s) /\ FramesLie(ps, s, base, d) /\ BasesLie(ps, cs, s, base) /\ ContextsLie(cs, s, d)
      /\ cur \in Pages /\ Size(ps, cur) >= 1 /\ base[cur] + Size(ps, cur) = Len(s)
      /\ s[Len(s)].pc = r
  BY DEF Lies
<1>2. d \in Nat /\ d < Len(s)
  BY <1>1 DEF ContextsLie
<1>3. base \in [Pages -> Nat]
  BY <1>1 DEF FramesLie
<1>4. /\ \A j, k \in 1..Len(s) : s[j].act = s[k].act => j = k
      /\ s \in Seq(Activations) /\ s[1].act = Terminal /\ s[1].pc = EndPc
  BY <1>1 DEF Shaped
<1> QED BY <1>1, <1>2, <1>3, <1>4, StackFacts

\* The activations of the frames are those above the first d.
LEMMA OnFrames ==
  ASSUME NEW s, NEW ps, NEW base, NEW d \in Nat, Shaped(s), FramesLie(ps, s, base, d),
         \A p \in Pages : Size(ps, p) \in Nat
  PROVE  /\ \A k \in 1..Len(s) : OnFrame(ps, s[k].act) <=> k > d
         /\ \A a : OnFrame(ps, a) => \E k \in 1..Len(s) : s[k].act = a
<1>0. Len(s) \in Nat /\ \A j, k \in 1..Len(s) : s[j].act = s[k].act => j = k
  BY StackFacts DEF Shaped
<1>1. ASSUME NEW a, OnFrame(ps, a) PROVE \E k \in 1..Len(s) : s[k].act = a /\ k > d
  <2>1. PICK p \in Pages : \E i \in 1..Size(ps, p) : Act(ps, p, i) = a
    BY <1>1 DEF OnFrame
  <2>2. PICK i \in 1..Size(ps, p) : Act(ps, p, i) = a
    BY <2>1
  <2>3. PICK k \in 1..Len(s) : Holds(ps, s, base, d, p, i, k)
    BY FrameAt
  <2> QED BY <2>2, <2>3 DEF Holds
<1>2. ASSUME NEW k \in 1..Len(s), OnFrame(ps, s[k].act) PROVE k > d
  <2>1. PICK j \in 1..Len(s) : s[j].act = s[k].act /\ j > d
    BY <1>1, <1>2
  <2> QED BY <1>0, <2>1
<1>3. ASSUME NEW k \in 1..Len(s), k > d PROVE OnFrame(ps, s[k].act)
  <2>1. k \in (d + 1)..Len(s)
    BY <1>0, <1>3
  <2>2. PICK p \in Pages : \E i \in 1..Size(ps, p) : k = base[p] + i
    BY <2>1 DEF FramesLie
  <2>3. PICK i \in 1..Size(ps, p) : k = base[p] + i
    BY <2>2
  <2>4. PICK j \in 1..Len(s) : Holds(ps, s, base, d, p, i, j)
    BY FrameAt
  <2>5. j = k
    BY <2>3, <2>4 DEF Holds
  <2>6. Act(ps, p, i) = s[k].act
    BY <2>4, <2>5 DEF Holds
  <2> QED BY <2>6 DEF OnFrame
<1> QED BY <1>1, <1>2, <1>3

\* The contexts change, not those of the first d activations.
LEMMA ContextsChanged ==
  ASSUME NEW ps, NEW cs, NEW cur, NEW r, NEW s, NEW base, NEW d, Lies(ps, cs, cur, r, s, base, d),
         \A p \in Pages : Size(ps, p) \in Nat,
         NEW qs, \A p \in Pages : qs[p].frames = ps[p].frames,
         NEW ds,
         \A b \in DOMAIN cs : /\ b \in DOMAIN ds /\ ds[b].sender = cs[b].sender
                              /\ OnFrame(ps, b) \/ ds[b] = cs[b],
         \A b \in DOMAIN ds \ DOMAIN cs : OnFrame(ps, b) /\ ds[b].sender \notin Acts \cup {Terminal, Nil}
  PROVE  Lies(qs, ds, cur, r, s, base, d)
<1>1. /\ Shaped(s) /\ FramesLie(ps, s, base, d) /\ BasesLie(ps, cs, s, base) /\ ContextsLie(cs, s, d)
      /\ cur \in Pages /\ Size(ps, cur) >= 1 /\ base[cur] + Size(ps, cur) = Len(s)
      /\ s[Len(s)].pc = r /\ Len(s) \in Nat \ {0} /\ d \in Nat /\ d < Len(s)
  BY LiesFacts
<1>2. \A p \in Pages : Size(qs, p) = Size(ps, p) /\ \A i : Act(qs, p, i) = Act(ps, p, i)
  BY DEF Size, Act
<1>3. FramesLie(qs, s, base, d)
  <2>1. base \in [Pages -> Nat]
    BY <1>1 DEF FramesLie
  <2>2. ASSUME NEW p \in Pages, NEW i \in 1..Size(qs, p), NEW k \in Nat, k = base[p] + i
        PROVE  /\ d < k /\ k <= Len(s)
               /\ s[k].act = Act(qs, p, i) /\ s[k].data = qs[p].frames[i].data
               /\ k > 1 => s[k - 1].pc = qs[p].frames[i].ret
    <3>1. i \in 1..Size(ps, p) /\ qs[p].frames[i] = ps[p].frames[i] /\ Act(qs, p, i) = Act(ps, p, i)
      BY <1>2
    <3>2. /\ d < k /\ k <= Len(s)
          /\ s[k].act = Act(ps, p, i) /\ s[k].data = ps[p].frames[i].data
          /\ k > 1 => s[k - 1].pc = ps[p].frames[i].ret
      BY <1>1, <2>2, <3>1 DEF FramesLie
    <3> QED BY <3>1, <3>2
  <2>3. ASSUME NEW k \in (d + 1)..Len(s)
        PROVE  \E p \in Pages : \E i \in 1..Size(qs, p) : k = base[p] + i
    <3>1. PICK p \in Pages : \E i \in 1..Size(ps, p) : k = base[p] + i
      BY <1>1 DEF FramesLie
    <3> QED BY <1>2, <3>1
  <2> QED BY <2>1, <2>2, <2>3 DEF FramesLie
<1>4. BasesLie(qs, ds, s, base)
  BY <1>1, <1>2 DEF BasesLie
<1>5. /\ \A k \in 1..Len(s) : OnFrame(ps, s[k].act) <=> k > d
      /\ \A a : OnFrame(ps, a) => \E k \in 1..Len(s) : s[k].act = a
  BY <1>1, OnFrames
<1>6. ContextsLie(ds, s, d)
  <2>1. ASSUME NEW k \in 1..d
        PROVE  /\ s[k].act \in DOMAIN ds /\ ds[s[k].act].pc = s[k].pc /\ ds[s[k].act].data = s[k].data
               /\ k > 1 => ds[s[k].act].sender = s[k - 1].act
    <3>1. k \in 1..Len(s) /\ ~(k > d)
      BY <1>1
    <3>2. ~OnFrame(ps, s[k].act)
      BY <1>5, <3>1
    <3>3. /\ s[k].act \in DOMAIN cs /\ cs[s[k].act].pc = s[k].pc /\ cs[s[k].act].data = s[k].data
          /\ k > 1 => cs[s[k].act].sender = s[k - 1].act
      BY <1>1 DEF ContextsLie
    <3>4. s[k].act \in DOMAIN ds /\ ds[s[k].act] = cs[s[k].act]
      BY <3>2, <3>3
    <3> QED BY <3>3, <3>4
  <2>2. ASSUME NEW b \in DOMAIN ds, ds[b].sender # Nil PROVE \E k \in 1..Len(s) : s[k].act = b
    <3>1. CASE b \in DOMAIN cs
      <4>1. cs[b].sender # Nil
        BY <2>2, <3>1
      <4> QED BY <1>1, <3>1, <4>1 DEF ContextsLie
    <3>2. CASE b \notin DOMAIN cs
      BY <1>5, <3>2
    <3> QED BY <3>1, <3>2
  <2>3. Terminal \in DOMAIN ds => ds[Terminal].sender \notin Acts \cup {Terminal, Nil}
    <3>1. Terminal \in DOMAIN cs => cs[Terminal].sender \notin Acts \cup {Terminal, Nil}
      BY <1>1 DEF ContextsLie
    <3> QED BY <3>1
  <2> QED BY <1>1, <2>1, <2>2, <2>3 DEF ContextsLie
<1> QED BY <1>1, <1>2, <1>3, <1>4, <1>6 DEF Lies

\* The last frame of page c is gone.
FrameOffTop(ps, qs, c) ==
  /\ \A p \in Pages \ {c} : qs[p].frames = ps[p].frames
  /\ Size(qs, c) = Size(ps, c) - 1
  /\ \A i \in 1..Size(qs, c) : qs[c].frames[i] = ps[c].frames[i]

\* The last frame of page n is of the activation below the last one.
TopLeft(s, base, qs, n) == Size(qs, n) >= 1 /\ base[n] + Size(qs, n) = Len(s) - 1

Widowed(cs, ds, a) ==
  /\ DOMAIN ds = DOMAIN cs /\ \A b \in DOMAIN ds \ {a} : ds[b] = cs[b]
  /\ a \in DOMAIN ds => ds[a].sender = Nil

Dropped(ps, cs, c, s, base, qs, ds, n) ==
  /\ FrameOffTop(ps, qs, c) /\ TopLeft(s, base, qs, n)
  /\ Widowed(cs, ds, Act(ps, c, Size(ps, c)))

\* The last frame of the current page is gone, and page n is current.
LEMMA FrameDropped ==
  ASSUME NEW ps, NEW cs, NEW cur, NEW r, NEW s, NEW base, NEW d, Lies(ps, cs, cur, r, s, base, d),
         \A p \in Pages : Size(ps, p) \in Nat, Separate(ps),
         NEW qs, NEW ds, NEW n \in Pages, Dropped(ps, cs, cur, s, base, qs, ds, n)
  PROVE  Lies(qs, ds, n, ps[cur].frames[Size(ps, cur)].ret, SubSeq(s, 1, Len(s) - 1), base, d)
<1>1. /\ Shaped(s) /\ FramesLie(ps, s, base, d) /\ BasesLie(ps, cs, s, base) /\ ContextsLie(cs, s, d)
      /\ cur \in Pages /\ Size(ps, cur) >= 1 /\ base[cur] + Size(ps, cur) = Len(s)
      /\ s[Len(s)].pc = r /\ Len(s) \in Nat \ {0} /\ d \in Nat /\ d < Len(s) /\ base \in [Pages -> Nat]
  BY LiesFacts
<1>2. /\ \A j, k \in 1..Len(s) : s[j].act = s[k].act => j = k
      /\ s \in Seq(Activations) /\ s[1].act = Terminal /\ s[1].pc = EndPc
  BY LiesFacts
<1>a. PICK a, r2, t : /\ a = Act(ps, cur, Size(ps, cur))
                      /\ r2 = ps[cur].frames[Size(ps, cur)].ret /\ t = SubSeq(s, 1, Len(s) - 1)
  OBVIOUS
<1> SUFFICES ASSUME
         \A p \in Pages \ {cur} : qs[p].frames = ps[p].frames,
         Size(qs, cur) = Size(ps, cur) - 1,
         \A i \in 1..Size(qs, cur) : qs[cur].frames[i] = ps[cur].frames[i],
         Size(qs, n) >= 1, base[n] + Size(qs, n) = Len(s) - 1,
         a = Act(ps, cur, Size(ps, cur)),
         r2 = ps[cur].frames[Size(ps, cur)].ret, t = SubSeq(s, 1, Len(s) - 1),
         DOMAIN ds = DOMAIN cs, \A b \in DOMAIN ds \ {a} : ds[b] = cs[b],
         a \in DOMAIN ds => ds[a].sender = Nil
             PROVE  Lies(qs, ds, n, r2, t, base, d)
  BY <1>a DEF FrameOffTop, TopLeft, Widowed, Dropped
<1>3. PICK m \in Nat \ {0} : m = Len(s)
  BY <1>1
<1>4. PICK z \in Nat \ {0} : z = Size(ps, cur)
  BY <1>1
<1>5. a = s[m].act /\ Size(qs, cur) = z - 1 /\ z \in 1..Size(ps, cur) /\ m \in 1..m
  <2>1. z \in 1..Size(ps, cur) /\ Size(qs, cur) = z - 1 /\ m \in 1..m
    BY <1>4
  <2>2. PICK k \in 1..Len(s) : Holds(ps, s, base, d, cur, z, k)
    BY <1>1, <2>1, FrameAt
  <2>3. k = m
    BY <1>1, <1>3, <1>4, <2>2 DEF Holds
  <2> QED BY <1>4, <2>1, <2>2, <2>3 DEF Holds
<1>6. \A p \in Pages \ {cur} : Size(qs, p) = Size(ps, p) /\ \A i : Act(qs, p, i) = Act(ps, p, i)
  BY DEF Size, Act
<1>7. \A p \in Pages : /\ Size(qs, p) \in Nat
                       /\ \A i \in 1..Size(qs, p) : /\ i \in 1..Size(ps, p)
                                                    /\ qs[p].frames[i] = ps[p].frames[i]
                                                    /\ Act(qs, p, i) = Act(ps, p, i)
  <2> SUFFICES ASSUME NEW p \in Pages
               PROVE  /\ Size(qs, p) \in Nat
                      /\ \A i \in 1..Size(qs, p) : /\ i \in 1..Size(ps, p)
                                                   /\ qs[p].frames[i] = ps[p].frames[i]
                                                   /\ Act(qs, p, i) = Act(ps, p, i)
    OBVIOUS
  <2>1. CASE p = cur
    <3>1. Size(qs, cur) = z - 1 /\ z - 1 \in Nat /\ Size(ps, cur) = z
      BY <1>4, <1>5
    <3>2. \A i \in 1..Size(qs, cur) : Act(qs, cur, i) = Act(ps, cur, i)
      BY DEF Act
    <3> QED BY <2>1, <3>1, <3>2
  <2>2. CASE p # cur
    BY <1>6, <2>2
  <2> QED BY <2>1, <2>2
<1>8. /\ t \in Seq(Activations) /\ Len(t) = m - 1 /\ m - 1 \in Nat
      /\ \A k \in 1..(m - 1) : t[k] = s[k] /\ k \in 1..m
  <2>1. /\ m - 1 \in Nat /\ \A k \in 1..(m - 1) : k \in 1..m
    OBVIOUS
  <2>2. t = SubSeq(s, 1, m - 1)
    BY <1>3
  <2>3. \A k \in 1..(m - 1) : t[k] = s[k]
    BY <1>2, <1>3, <2>1, <2>2
  <2>4. t \in Seq(Activations) /\ Len(t) = m - 1
    BY <1>2, <1>3, <2>1, <2>2
  <2> QED BY <2>1, <2>3, <2>4
<1>9. ASSUME NEW p \in Pages, NEW i \in 1..Size(ps, p), NEW k \in 1..Len(s),
             Holds(ps, s, base, d, p, i, k)
      PROVE  k = m <=> p = cur /\ i = z
  <2>1. ASSUME k = m PROVE p = cur /\ i = z
    <3>1. Act(ps, p, i) = Act(ps, cur, z)
      BY <1>4, <1>5, <1>9, <2>1 DEF Holds
    <3>2. cur \in Pages
      BY <1>1
    <3> QED BY <1>5, <3>1, <3>2 DEF Separate
  <2>2. ASSUME p = cur, i = z PROVE k = m
    BY <1>1, <1>3, <1>4, <1>9, <2>2 DEF Holds
  <2> QED BY <2>1, <2>2
<1>10. FramesLie(qs, t, base, d)
  <2>1. ASSUME NEW p \in Pages, NEW i \in 1..Size(qs, p), NEW k \in Nat, k = base[p] + i
        PROVE  /\ d < k /\ k <= m - 1
               /\ t[k].act = Act(qs, p, i) /\ t[k].data = qs[p].frames[i].data
               /\ k > 1 => t[k - 1].pc = qs[p].frames[i].ret
    <3>1. i \in 1..Size(ps, p) /\ qs[p].frames[i] = ps[p].frames[i] /\ Act(qs, p, i) = Act(ps, p, i)
      BY <1>7
    <3>2. PICK h \in 1..Len(s) : Holds(ps, s, base, d, p, i, h)
      BY <1>1, <3>1, FrameAt
    <3>3. h = k
      BY <2>1, <3>2 DEF Holds
    <3>4. ~(p = cur /\ i = z)
      BY <1>4, <1>5
    <3>5. h # m
      BY <1>9, <3>1, <3>2, <3>4
    <3>6. k \in 1..(m - 1) /\ (k > 1 => k - 1 \in 1..(m - 1))
      BY <1>3, <3>3, <3>5
    <3>7. t[k] = s[k] /\ (k > 1 => t[k - 1] = s[k - 1])
      BY <1>8, <3>6
    <3>8. /\ k > d /\ s[k].act = Act(ps, p, i) /\ s[k].data = ps[p].frames[i].data
          /\ k > 1 => s[k - 1].pc = ps[p].frames[i].ret
      BY <3>2, <3>3 DEF Holds
    <3>9. d < k /\ k <= m - 1
      BY <1>1, <3>6, <3>8
    <3> QED BY <3>1, <3>7, <3>8, <3>9
  <2>2. ASSUME NEW k \in (d + 1)..(m - 1)
        PROVE  \E p \in Pages : \E i \in 1..Size(qs, p) : k = base[p] + i
    <3>1. k \in (d + 1)..Len(s) /\ k # m
      BY <1>1, <1>3
    <3>2. PICK p \in Pages : \E i \in 1..Size(ps, p) : k = base[p] + i
      BY <1>1, <3>1 DEF FramesLie
    <3>3. PICK i \in 1..Size(ps, p) : k = base[p] + i
      BY <3>2
    <3>4. PICK h \in 1..Len(s) : Holds(ps, s, base, d, p, i, h)
      BY <1>1, FrameAt
    <3>5. h = k
      BY <3>3, <3>4 DEF Holds
    <3>6. ~(p = cur /\ i = z)
      BY <1>9, <3>1, <3>4, <3>5
    <3>7. i \in 1..Size(qs, p)
      <4>1. CASE p = cur
        BY <1>4, <1>5, <3>6, <4>1
      <4>2. CASE p # cur
        BY <1>6, <4>2
      <4> QED BY <4>1, <4>2
    <3> QED BY <3>3, <3>7
  <2>3. Len(t) = m - 1 /\ base \in [Pages -> Nat]
    BY <1>1, <1>8
  <2> QED BY <2>1, <2>2, <2>3 DEF FramesLie
<1>11. Len(t) = base[n] + Size(qs, n) /\ d < m - 1 /\ m > 1
  <2>1. 1 \in 1..Size(ps, n) /\ Size(qs, n) \in Nat
    BY <1>7
  <2>2. PICK k \in 1..Len(s) : Holds(ps, s, base, d, n, 1, k)
    BY <1>1, <2>1, FrameAt
  <2>3. base[n] >= d /\ base[n] \in Nat
    BY <2>2 DEF Holds
  <2>4. base[n] + Size(qs, n) = m - 1
    BY <1>3
  <2> QED BY <1>1, <1>3, <1>8, <2>1, <2>3, <2>4
<1>12. BasesLie(qs, ds, t, base)
  <2> SUFFICES ASSUME NEW p \in Pages, Size(qs, p) >= 1, base[p] >= 1
               PROVE  Act(qs, p, 1) \in DOMAIN ds /\ ds[Act(qs, p, 1)].sender = t[base[p]].act
    BY DEF BasesLie
  <2>1. 1 \in 1..Size(qs, p) /\ 1 \in 1..Size(ps, p) /\ Size(ps, p) >= 1 /\ Act(qs, p, 1) = Act(ps, p, 1)
    <3>1. 1 \in 1..Size(qs, p)
      BY <1>7
    <3> QED BY <1>7, <3>1
  <2>2. Act(ps, p, 1) \in DOMAIN cs /\ cs[Act(ps, p, 1)].sender = s[base[p]].act
    BY <1>1, <2>1 DEF BasesLie
  <2>3. PICK k \in 1..Len(s) : Holds(ps, s, base, d, p, 1, k)
    BY <1>1, <2>1, FrameAt
  <2>4. base[p] \in 1..(m - 1)
    BY <1>3, <2>3 DEF Holds
  <2>5. Act(ps, p, 1) # a
    <3>1. ~(p = cur /\ z = 1)
      BY <1>5, <2>1
    <3>2. cur \in Pages
      BY <1>1
    <3>3. ASSUME Act(ps, p, 1) = Act(ps, cur, z) PROVE p = cur /\ 1 = z
      BY <1>5, <2>1, <3>2, <3>3 DEF Separate
    <3>4. a = Act(ps, cur, z)
      BY <1>4
    <3> QED BY <3>1, <3>3, <3>4
  <2> QED BY <1>8, <2>1, <2>2, <2>4, <2>5
<1>13. ContextsLie(ds, t, d)
  <2>1. ASSUME NEW k \in 1..d
        PROVE  /\ t[k].act \in DOMAIN ds /\ ds[t[k].act].pc = t[k].pc /\ ds[t[k].act].data = t[k].data
               /\ k > 1 => ds[t[k].act].sender = t[k - 1].act
    <3>1. k \in 1..(m - 1) /\ k \in 1..m /\ k # m /\ (k > 1 => k - 1 \in 1..(m - 1))
      BY <1>1, <1>11
    <3>2. s[k].act # a
      BY <1>2, <1>3, <1>5, <3>1
    <3>3. /\ s[k].act \in DOMAIN cs /\ cs[s[k].act].pc = s[k].pc /\ cs[s[k].act].data = s[k].data
          /\ k > 1 => cs[s[k].act].sender = s[k - 1].act
      BY <1>1 DEF ContextsLie
    <3>4. s[k].act \in DOMAIN ds /\ ds[s[k].act] = cs[s[k].act]
      BY <3>2, <3>3
    <3>5. t[k] = s[k] /\ (k > 1 => t[k - 1] = s[k - 1])
      BY <1>8, <3>1
    <3> QED BY <3>3, <3>4, <3>5
  <2>2. ASSUME NEW b \in DOMAIN ds, ds[b].sender # Nil PROVE \E k \in 1..(m - 1) : t[k].act = b
    <3>1. b # a /\ b \in DOMAIN cs /\ cs[b].sender # Nil
      BY <2>2
    <3>2. PICK k \in 1..Len(s) : s[k].act = b
      BY <1>1, <3>1 DEF ContextsLie
    <3>3. k # m
      BY <1>5, <3>1, <3>2
    <3>4. k \in 1..(m - 1)
      BY <1>3, <3>3
    <3> QED BY <1>8, <3>2, <3>4
  <2>3. Terminal \in DOMAIN ds => ds[Terminal].sender \notin Acts \cup {Terminal, Nil}
    <3>1. Terminal # a
      <4>1. 1 \in 1..Len(s) /\ m \in 1..Len(s) /\ m # 1
        BY <1>3, <1>11
      <4> QED BY <1>2, <1>5, <4>1
    <3>2. Terminal \in DOMAIN cs => cs[Terminal].sender \notin Acts \cup {Terminal, Nil}
      BY <1>1 DEF ContextsLie
    <3> QED BY <3>1, <3>2
  <2> QED BY <1>1, <1>8, <1>11, <2>1, <2>2, <2>3 DEF ContextsLie
<1>14. Shaped(t)
  <2>1. 1 \in 1..(m - 1)
    BY <1>11
  <2>2. ASSUME NEW j \in 1..(m - 1), NEW k \in 1..(m - 1), t[j].act = t[k].act PROVE j = k
    BY <1>2, <1>3, <1>8, <2>2
  <2> QED BY <1>2, <1>8, <2>1, <2>2 DEF Shaped
<1>15. t[Len(t)].pc = r2
  <2>1. PICK k \in 1..Len(s) : Holds(ps, s, base, d, cur, z, k)
    BY <1>1, <1>5, FrameAt
  <2>2. k = m
    BY <1>1, <1>5, <1>9, <2>1
  <2>3. s[m - 1].pc = r2 /\ m - 1 \in 1..(m - 1)
    <3>1. m > 1 /\ m - 1 \in 1..(m - 1)
      BY <1>11
    <3>2. s[m - 1].pc = ps[cur].frames[z].ret
      BY <2>1, <2>2, <3>1 DEF Holds
    <3> QED BY <1>4, <3>1, <3>2
  <2> QED BY <1>8, <2>3
<1> QED BY <1>8, <1>10, <1>11, <1>12, <1>13, <1>14, <1>15 DEF Lies

\* The last activation is at r with data d.
Moved(s, r, d) == [s EXCEPT ![Len(s)] = [act |-> s[Len(s)].act, pc |-> r, data |-> d]]

\* The last frame of page c has data d.
DataChanged(ps, qs, c, d) ==
  /\ \A p \in Pages \ {c} : qs[p].frames = ps[p].frames
  /\ Size(qs, c) = Size(ps, c) /\ qs[c].frames[Size(ps, c)].data = d
  /\ \A i \in 1..Size(ps, c) :
       /\ qs[c].frames[i].act = ps[c].frames[i].act /\ qs[c].frames[i].ret = ps[c].frames[i].ret
       /\ i # Size(ps, c) => qs[c].frames[i].data = ps[c].frames[i].data

\* The running activation goes on.
LEMMA StepTaken ==
  ASSUME NEW ps, NEW cs, NEW cur, NEW r, NEW s, NEW base, NEW d, Lies(ps, cs, cur, r, s, base, d),
         \A p \in Pages : Size(ps, p) \in Nat, Separate(ps), r # EndPc,
         NEW r2 \in Pcs, NEW d2 \in Values, NEW qs, DataChanged(ps, qs, cur, d2)
  PROVE  Len(s) > 1 /\ Lies(qs, cs, cur, r2, Moved(s, r2, d2), base, d)
<1>t. PICK t : t = [s EXCEPT ![Len(s)] = [act |-> s[Len(s)].act, pc |-> r2, data |-> d2]]
  OBVIOUS
<1> SUFFICES ASSUME
         t = [s EXCEPT ![Len(s)] = [act |-> s[Len(s)].act, pc |-> r2, data |-> d2]],
         \A p \in Pages \ {cur} : qs[p].frames = ps[p].frames,
         Size(qs, cur) = Size(ps, cur),
         \A i \in 1..Size(ps, cur) : /\ qs[cur].frames[i].act = ps[cur].frames[i].act
                                     /\ qs[cur].frames[i].ret = ps[cur].frames[i].ret
                                     /\ i # Size(ps, cur) => qs[cur].frames[i].data = ps[cur].frames[i].data,
         qs[cur].frames[Size(ps, cur)].data = d2
             PROVE  Len(s) > 1 /\ Lies(qs, cs, cur, r2, t, base, d)
  BY <1>t DEF DataChanged, Moved
<1>1. /\ Shaped(s) /\ FramesLie(ps, s, base, d) /\ BasesLie(ps, cs, s, base) /\ ContextsLie(cs, s, d)
      /\ cur \in Pages /\ Size(ps, cur) >= 1 /\ base[cur] + Size(ps, cur) = Len(s)
      /\ s[Len(s)].pc = r /\ Len(s) \in Nat \ {0} /\ d \in Nat /\ d < Len(s) /\ base \in [Pages -> Nat]
  BY LiesFacts
<1>2. /\ \A j, k \in 1..Len(s) : s[j].act = s[k].act => j = k
      /\ s \in Seq(Activations) /\ s[1].act = Terminal /\ s[1].pc = EndPc
      /\ \A k \in 1..Len(s) : s[k] \in Activations /\ s[k].act \in Acts \cup {Terminal}
  BY LiesFacts
<1>3. PICK m \in Nat \ {0} : m = Len(s)
  BY <1>1
<1>4. PICK z \in Nat \ {0} : z = Size(ps, cur)
  BY <1>1
<1>5. m > 1 /\ m \in 1..Len(s) /\ z \in 1..Size(ps, cur)
  BY <1>1, <1>2, <1>3, <1>4
<1>6. /\ t \in Seq(Activations) /\ Len(t) = m
      /\ \A k \in 1..m : t[k].act = s[k].act /\ (k # m => t[k] = s[k])
      /\ t[m].pc = r2 /\ t[m].data = d2
  <2>1. PICK x : x = [act |-> s[Len(s)].act, pc |-> r2, data |-> d2]
    OBVIOUS
  <2>2. x \in Activations /\ x.act = s[m].act /\ x.pc = r2 /\ x.data = d2
    BY <1>2, <1>3, <1>5, <2>1 DEF Activations
  <2>3. t = [s EXCEPT ![m] = x]
    BY <1>3, <2>1
  <2>4. t \in Seq(Activations) /\ Len(t) = m /\ \A k \in 1..m : t[k] = IF k = m THEN x ELSE s[k]
    BY <1>2, <1>3, <1>5, <2>2, <2>3
  <2>5. m \in 1..m
    BY <1>3, <1>5
  <2> QED BY <2>2, <2>4, <2>5
<1>7. \A p \in Pages : /\ Size(qs, p) = Size(ps, p)
                       /\ \A i \in 1..Size(ps, p) : /\ Act(qs, p, i) = Act(ps, p, i)
                                                    /\ qs[p].frames[i].ret = ps[p].frames[i].ret
                                                    /\ ~(p = cur /\ i = z) => qs[p].frames[i].data = ps[p].frames[i].data
  BY <1>4 DEF Size, Act
<1>8. FramesLie(qs, t, base, d)
  <2>1. ASSUME NEW p \in Pages, NEW i \in 1..Size(qs, p), NEW k \in Nat, k = base[p] + i
        PROVE  /\ d < k /\ k <= m
               /\ t[k].act = Act(qs, p, i) /\ t[k].data = qs[p].frames[i].data
               /\ k > 1 => t[k - 1].pc = qs[p].frames[i].ret
    <3>1. i \in 1..Size(ps, p) /\ qs[p].frames[i].ret = ps[p].frames[i].ret /\ Act(qs, p, i) = Act(ps, p, i)
      BY <1>7
    <3>2. PICK h \in 1..Len(s) : Holds(ps, s, base, d, p, i, h)
      BY <1>1, <3>1, FrameAt
    <3>3. h = k
      BY <2>1, <3>2 DEF Holds
    <3>4. /\ k > d /\ s[k].act = Act(ps, p, i) /\ s[k].data = ps[p].frames[i].data
          /\ k > 1 => k - 1 \in 1..Len(s) /\ s[k - 1].pc = ps[p].frames[i].ret
      BY <3>2, <3>3 DEF Holds
    <3>5. d < k /\ k <= m /\ k \in 1..m /\ (k > 1 => k - 1 \in 1..m /\ k - 1 # m)
      BY <1>1, <1>3, <3>2, <3>3, <3>4
    <3>6. t[k].act = s[k].act /\ (k > 1 => t[k - 1] = s[k - 1])
      BY <1>6, <3>5
    <3>7. t[k].data = qs[p].frames[i].data
      <4>1. CASE p = cur /\ i = z
        <5>1. k = m
          BY <1>1, <1>3, <1>4, <2>1, <4>1
        <5> QED BY <1>4, <1>6, <4>1, <5>1
      <4>2. CASE ~(p = cur /\ i = z)
        <5>1. k # m
          <6>1. SUFFICES ASSUME k = m PROVE FALSE
            OBVIOUS
          <6>2. PICK j \in 1..Len(s) : Holds(ps, s, base, d, cur, z, j)
            BY <1>1, <1>5, FrameAt
          <6>3. j = m
            BY <1>1, <1>3, <1>4, <6>2 DEF Holds
          <6>4. Act(ps, p, i) = Act(ps, cur, z)
            BY <3>4, <6>1, <6>2, <6>3 DEF Holds
          <6>5. p = cur /\ i = z
            BY <1>1, <1>5, <3>1, <6>4 DEF Separate
          <6> QED BY <4>2, <6>5
        <5>2. t[k] = s[k]
          BY <1>6, <3>5, <5>1
        <5>3. qs[p].frames[i].data = ps[p].frames[i].data
          BY <1>7, <3>1, <4>2
        <5> QED BY <3>4, <5>2, <5>3
      <4> QED BY <4>1, <4>2
    <3> QED BY <3>1, <3>4, <3>5, <3>6, <3>7
  <2>2. ASSUME NEW k \in (d + 1)..m
        PROVE  \E p \in Pages : \E i \in 1..Size(qs, p) : k = base[p] + i
    <3>1. PICK p \in Pages : \E i \in 1..Size(ps, p) : k = base[p] + i
      BY <1>1, <1>3 DEF FramesLie
    <3> QED BY <1>7, <3>1
  <2>3. Len(t) = m /\ base \in [Pages -> Nat]
    BY <1>1, <1>6
  <2> QED BY <2>1, <2>2, <2>3 DEF FramesLie
<1>9. BasesLie(qs, cs, t, base)
  <2> SUFFICES ASSUME NEW p \in Pages, Size(qs, p) >= 1, base[p] >= 1
               PROVE  Act(qs, p, 1) \in DOMAIN cs /\ cs[Act(qs, p, 1)].sender = t[base[p]].act
    BY DEF BasesLie
  <2>1. Size(ps, p) >= 1 /\ 1 \in 1..Size(ps, p) /\ Act(qs, p, 1) = Act(ps, p, 1)
    <3>1. Size(ps, p) >= 1 /\ 1 \in 1..Size(ps, p)
      BY <1>7
    <3> QED BY <1>7, <3>1
  <2>2. Act(ps, p, 1) \in DOMAIN cs /\ cs[Act(ps, p, 1)].sender = s[base[p]].act
    BY <1>1, <2>1 DEF BasesLie
  <2>3. PICK k \in 1..Len(s) : Holds(ps, s, base, d, p, 1, k)
    BY <1>1, <2>1, FrameAt
  <2>4. base[p] \in 1..m
    BY <1>3, <2>3 DEF Holds
  <2> QED BY <1>6, <2>1, <2>2, <2>4
<1>10. ContextsLie(cs, t, d)
  <2>1. ASSUME NEW k \in 1..d
        PROVE  /\ t[k].act \in DOMAIN cs /\ cs[t[k].act].pc = t[k].pc /\ cs[t[k].act].data = t[k].data
               /\ k > 1 => cs[t[k].act].sender = t[k - 1].act
    <3>1. k \in 1..m /\ k # m /\ (k > 1 => k - 1 \in 1..m /\ k - 1 # m)
      BY <1>1, <1>3
    <3>2. /\ s[k].act \in DOMAIN cs /\ cs[s[k].act].pc = s[k].pc /\ cs[s[k].act].data = s[k].data
          /\ k > 1 => cs[s[k].act].sender = s[k - 1].act
      BY <1>1 DEF ContextsLie
    <3>3. t[k] = s[k] /\ (k > 1 => t[k - 1] = s[k - 1])
      BY <1>6, <3>1
    <3> QED BY <3>2, <3>3
  <2>2. ASSUME NEW b \in DOMAIN cs, cs[b].sender # Nil PROVE \E k \in 1..m : t[k].act = b
    <3>1. PICK k \in 1..Len(s) : s[k].act = b
      BY <1>1, <2>2 DEF ContextsLie
    <3>2. k \in 1..m
      BY <1>3
    <3> QED BY <1>6, <3>1, <3>2
  <2>3. Terminal \in DOMAIN cs => cs[Terminal].sender \notin Acts \cup {Terminal, Nil}
    BY <1>1 DEF ContextsLie
  <2>4. Len(t) = m /\ d \in Nat /\ d < m
    BY <1>1, <1>3, <1>6
  <2> QED BY <2>1, <2>2, <2>3, <2>4 DEF ContextsLie
<1>11. Shaped(t)
  <2>1. 1 \in 1..m /\ 1 # m
    BY <1>5
  <2>2. ASSUME NEW j \in 1..m, NEW k \in 1..m, t[j].act = t[k].act PROVE j = k
    BY <1>2, <1>3, <1>6, <2>2
  <2> QED BY <1>2, <1>6, <2>1, <2>2 DEF Shaped
<1>12. cur \in Pages /\ Size(qs, cur) >= 1 /\ base[cur] + Size(qs, cur) = Len(t) /\ t[Len(t)].pc = r2
  BY <1>1, <1>3, <1>6
<1> QED BY <1>3, <1>5, <1>8, <1>9, <1>10, <1>11, <1>12 DEF Lies

\* The pages of the list lie one above the other, the oldest one on the contexts.
LEMMA PagesJoin ==
  ASSUME NEW ps, NEW cs, NEW cur, NEW list, Good(ps, cs, cur, list),
         NEW r, NEW s, NEW base, NEW d, Lies(ps, cs, cur, r, s, base, d)
  PROVE  /\ \A n \in 1..Len(list) : n < Len(list) =>
               base[list[n]] = base[list[n + 1]] + Size(ps, list[n + 1])
         /\ base[list[Len(list)]] = d
<1>1. /\ Shaped(s) /\ FramesLie(ps, s, base, d) /\ BasesLie(ps, cs, s, base) /\ ContextsLie(cs, s, d)
      /\ Len(s) \in Nat \ {0} /\ d \in Nat /\ d < Len(s) /\ base \in [Pages -> Nat]
      /\ \A j, k \in 1..Len(s) : s[j].act = s[k].act => j = k
      /\ s[1].act = Terminal
  BY LiesFacts
<1>2. /\ \A p \in Pages : Size(ps, p) \in Nat
      /\ Len(list) \in Nat \ {0} /\ DOMAIN list = 1..Len(list)
      /\ \A n \in 1..Len(list) : list[n] \in Pages /\ Size(ps, list[n]) >= 1
  BY Facts
<1>3. Linked(ps, cs, list) /\ Orphaned(ps, cs, list)
  BY DEF Good
<1>4. ASSUME NEW p \in Pages, Size(ps, p) >= 1
      PROVE  /\ base[p] \in Nat /\ base[p] >= d
             /\ base[p] + 1 \in 1..Len(s) /\ s[base[p] + 1].act = Act(ps, p, 1)
             /\ base[p] = 0 => Act(ps, p, 1) = Terminal
             /\ base[p] >= 1 => /\ base[p] \in 1..Len(s) /\ Act(ps, p, 1) # Terminal
                                /\ cs[Act(ps, p, 1)].sender = s[base[p]].act
             /\ base[p] + Size(ps, p) \in 1..Len(s)
             /\ s[base[p] + Size(ps, p)].act = Act(ps, p, Size(ps, p))
  <2>1. 1 \in 1..Size(ps, p) /\ Size(ps, p) \in 1..Size(ps, p)
    BY <1>2, <1>4
  <2>2. PICK k \in 1..Len(s) : Holds(ps, s, base, d, p, 1, k)
    BY <1>1, <1>2, <2>1, FrameAt
  <2>3. PICK h \in 1..Len(s) : Holds(ps, s, base, d, p, Size(ps, p), h)
    BY <1>1, <1>2, <2>1, FrameAt
  <2>4. base[p] \in Nat /\ base[p] >= d /\ k = base[p] + 1 /\ h = base[p] + Size(ps, p)
    BY <2>2, <2>3 DEF Holds
  <2>5. s[k].act = Act(ps, p, 1) /\ s[h].act = Act(ps, p, Size(ps, p))
    BY <2>2, <2>3 DEF Holds
  <2>6. base[p] = 0 => k = 1
    BY <2>4
  <2>7. base[p] >= 1 => base[p] \in 1..Len(s) /\ k # 1
    BY <1>1, <2>4
  <2>8. base[p] >= 1 => Act(ps, p, 1) # Terminal
    <3>1. 1 \in 1..Len(s)
      BY <1>1
    <3> QED BY <1>1, <2>5, <2>7, <3>1
  <2>9. base[p] >= 1 => cs[Act(ps, p, 1)].sender = s[base[p]].act
    BY <1>1, <1>4 DEF BasesLie
  <2> QED BY <1>1, <2>4, <2>5, <2>6, <2>7, <2>8, <2>9
<1>5. ASSUME NEW n \in 1..Len(list), n < Len(list)
      PROVE  base[list[n]] = base[list[n + 1]] + Size(ps, list[n + 1])
  <2>1. PICK p \in Pages : p = list[n]
    BY <1>2
  <2>2. n + 1 \in 1..Len(list)
    BY <1>2, <1>5
  <2>3. PICK q \in Pages : q = list[n + 1]
    BY <1>2, <2>2
  <2>4. Size(ps, p) >= 1 /\ Size(ps, q) >= 1
    BY <1>2, <2>1, <2>2, <2>3
  <2>5. Act(ps, p, 1) # Terminal /\ cs[Act(ps, p, 1)].sender = Act(ps, q, Size(ps, q))
    BY <1>2, <1>3, <1>5, <2>1, <2>3 DEF Linked
  <2>6. base[p] \in 1..Len(s) /\ cs[Act(ps, p, 1)].sender = s[base[p]].act
    BY <1>4, <2>4, <2>5
  <2>7. base[q] + Size(ps, q) \in 1..Len(s) /\ s[base[q] + Size(ps, q)].act = Act(ps, q, Size(ps, q))
    BY <1>4, <2>4
  <2>8. base[p] = base[q] + Size(ps, q)
    BY <1>1, <2>5, <2>6, <2>7
  <2> QED BY <2>1, <2>3, <2>8
<1>6. base[list[Len(list)]] = d
  <2>1. PICK x \in Pages : x = list[Len(list)] /\ Size(ps, x) >= 1
    BY <1>2
  <2>2. base[x] \in Nat /\ base[x] >= d
    BY <1>4, <2>1
  <2>3. ASSUME base[x] > d PROVE FALSE
    <3>1. base[x] >= 1
      BY <1>1, <2>2, <2>3
    <3>2. base[x] \in 1..Len(s) /\ Act(ps, x, 1) # Terminal /\ cs[Act(ps, x, 1)].sender = s[base[x]].act
      BY <1>4, <2>1, <3>1
    <3>3. OnFrame(ps, s[base[x]].act)
      BY <1>1, <1>2, <2>3, <3>2, OnFrames
    <3>4. ~OnFrame(ps, cs[Act(ps, x, 1)].sender)
      BY <1>3, <2>1, <3>2 DEF Orphaned
    <3> QED BY <3>2, <3>3, <3>4
  <2> QED BY <1>1, <2>1, <2>2, <2>3
<1> QED BY <1>5, <1>6

\* The frames of the oldest page are left to their contexts.
LEMMA PageLeft ==
  ASSUME NEW ps, NEW cs, NEW cur, NEW list, Good(ps, cs, cur, list), Len(list) >= 2,
         NEW r, NEW s, NEW base, NEW d, Lies(ps, cs, cur, r, s, base, d),
         NEW x, x = list[Len(list)], NEW y, y = list[Len(list) - 1],
         NEW qs, NEW ds, Size(qs, x) = 0, \A p \in Pages \ {x} : qs[p].frames = ps[p].frames,
         LeftTo(ps, cs, ds, x, y)
  PROVE  Lies(qs, ds, cur, r, s, base, d + Size(ps, x))
<1>1. /\ Shaped(s) /\ FramesLie(ps, s, base, d) /\ BasesLie(ps, cs, s, base) /\ ContextsLie(cs, s, d)
      /\ cur \in Pages /\ Size(ps, cur) >= 1 /\ base[cur] + Size(ps, cur) = Len(s)
      /\ s[Len(s)].pc = r /\ Len(s) \in Nat \ {0} /\ d \in Nat /\ d < Len(s) /\ base \in [Pages -> Nat]
      /\ \A j, k \in 1..Len(s) : s[j].act = s[k].act => j = k
      /\ s[1].act = Terminal
  BY LiesFacts
<1>2. /\ \A p \in Pages : Size(ps, p) \in Nat
      /\ Len(list) \in Nat \ {0} /\ DOMAIN list = 1..Len(list) /\ list[1] = cur
      /\ \A n \in 1..Len(list) : list[n] \in Pages /\ Size(ps, list[n]) >= 1
      /\ \A m, n \in 1..Len(list) : list[m] = list[n] => m = n
  BY Facts
<1>3. /\ x \in Pages /\ y \in Pages /\ x # cur /\ x # y /\ Size(ps, x) >= 1 /\ Size(ps, y) >= 1
      /\ base[y] = base[x] + Size(ps, x) /\ base[x] = d
  <2>0. Len(list) \in Nat
    BY <1>2
  <2>1. PICK n \in Nat : n = Len(list)
    BY <2>0
  <2>2. n \in Nat /\ n >= 2 /\ n \in 1..Len(list) /\ n - 1 \in 1..Len(list) /\ n - 1 < n /\ (n - 1) + 1 = n
        /\ 1 \in 1..Len(list) /\ n # 1 /\ n - 1 # n
    BY <2>1
  <2>5. x = list[n] /\ y = list[n - 1]
    BY <2>1
  <2>3. x = list[n] /\ y = list[n - 1] /\ x # y /\ x # cur
    BY <1>2, <2>2, <2>5
  <2>4. base[list[n - 1]] = base[list[n]] + Size(ps, list[n]) /\ base[list[n]] = d
    BY <2>1, <2>2, PagesJoin
  <2> QED BY <1>2, <2>2, <2>3, <2>4
<1>4. PICK z \in Nat \ {0}, e \in Nat : z = Size(ps, x) /\ e = d + Size(ps, x)
  BY <1>1, <1>2, <1>3
<1>5. e = d + z
  BY <1>4
<1>6. \A p \in Pages \ {x} : Size(qs, p) = Size(ps, p) /\ \A i : Act(qs, p, i) = Act(ps, p, i)
  BY DEF Size, Act
<1>7. Separate(ps) /\ \A b : OnPage(ps, x, b) => OnFrame(ps, b)
  BY <1>3 DEF Good, OnPage, OnFrame
<1>8. \A k \in 1..Len(s) : OnFrame(ps, s[k].act) <=> k > d
  BY <1>1, <1>2, OnFrames
\* Of the frames, those of the page are the lowest ones.
<1>9. ASSUME NEW i \in 1..z
      PROVE  /\ d + i \in 1..Len(s) /\ s[d + i].act = Act(ps, x, i) /\ s[d + i].data = ps[x].frames[i].data
             /\ d + i > 1 => s[(d + i) - 1].pc = ps[x].frames[i].ret
  <2>1. i \in 1..Size(ps, x)
    BY <1>4
  <2>2. PICK k \in 1..Len(s) : Holds(ps, s, base, d, x, i, k)
    BY <1>1, <1>2, <1>3, <2>1, FrameAt
  <2>3. k = d + i
    BY <1>3, <2>2 DEF Holds
  <2> QED BY <2>2, <2>3 DEF Holds
<1>10. e + 1 \in 1..Len(s) /\ s[e + 1].act = Act(ps, y, 1) /\ s[e].pc = ps[y].frames[1].ret /\ e >= 1
  <2>1. 1 \in 1..Size(ps, y)
    BY <1>2, <1>3
  <2>2. PICK k \in 1..Len(s) : Holds(ps, s, base, d, y, 1, k)
    BY <1>1, <1>2, <1>3, <2>1, FrameAt
  <2>3. k = e + 1
    BY <1>3, <1>4, <2>2 DEF Holds
  <2>4. e >= 1 /\ k > 1 /\ k - 1 = e
    BY <1>1, <1>5, <2>3
  <2> QED BY <2>2, <2>3, <2>4 DEF Holds
<1>11. ASSUME NEW p \in Pages \ {x}, NEW i \in 1..Size(ps, p), NEW k \in 1..Len(s),
              Holds(ps, s, base, d, p, i, k)
       PROVE  k > e
  <2>1. SUFFICES ASSUME ~(k > e) PROVE FALSE
    OBVIOUS
  <2>2. k > d
    BY <1>11 DEF Holds
  <2>3. PICK j \in 1..z : k = d + j
    <3>1. k - d \in 1..z /\ k = d + (k - d)
      BY <1>1, <1>5, <2>1, <2>2
    <3> QED BY <3>1
  <2>4. Act(ps, p, i) = Act(ps, x, j)
    BY <1>9, <1>11, <2>3 DEF Holds
  <2>5. j \in 1..Size(ps, x)
    BY <1>4
  <2> QED BY <1>3, <1>7, <2>4, <2>5 DEF Separate
<1>12. FramesLie(qs, s, base, e)
  <2>1. ASSUME NEW p \in Pages, NEW i \in 1..Size(qs, p), NEW k \in Nat, k = base[p] + i
        PROVE  /\ e < k /\ k <= Len(s)
               /\ s[k].act = Act(qs, p, i) /\ s[k].data = qs[p].frames[i].data
               /\ k > 1 => s[k - 1].pc = qs[p].frames[i].ret
    <3>1. p # x
      <4>1. ASSUME p = x PROVE FALSE
        <5>1. i \in 1..0
          BY <4>1
        <5> QED BY <5>1
      <4> QED BY <4>1
    <3>2. i \in 1..Size(ps, p) /\ qs[p].frames[i] = ps[p].frames[i] /\ Act(qs, p, i) = Act(ps, p, i)
      BY <1>6, <3>1
    <3>3. PICK h \in 1..Len(s) : Holds(ps, s, base, d, p, i, h)
      BY <1>1, <1>2, <3>2, FrameAt
    <3>4. h = k
      BY <2>1, <3>3 DEF Holds
    <3>5. h > e
      BY <1>11, <3>1, <3>2, <3>3
    <3>6. /\ s[k].act = Act(ps, p, i) /\ s[k].data = ps[p].frames[i].data
          /\ k > 1 => s[k - 1].pc = ps[p].frames[i].ret
      BY <3>3, <3>4 DEF Holds
    <3>7. e < k /\ k <= Len(s)
      BY <1>1, <3>4, <3>5
    <3> QED BY <3>2, <3>6, <3>7
  <2>2. ASSUME NEW k \in (e + 1)..Len(s)
        PROVE  \E p \in Pages : \E i \in 1..Size(qs, p) : k = base[p] + i
    <3>1. k \in (d + 1)..Len(s) /\ k > e
      BY <1>1, <1>5
    <3>2. PICK p \in Pages : \E i \in 1..Size(ps, p) : k = base[p] + i
      BY <1>1, <3>1 DEF FramesLie
    <3>3. PICK i \in 1..Size(ps, p) : k = base[p] + i
      BY <3>2
    <3>4. p # x
      <4>1. ASSUME p = x PROVE FALSE
        <5>1. i \in 1..z /\ k = d + i
          BY <1>3, <1>4, <3>3, <4>1
        <5> QED BY <1>1, <1>5, <3>1, <5>1
      <4> QED BY <4>1
    <3>5. i \in 1..Size(qs, p)
      BY <1>6, <3>4
    <3> QED BY <3>3, <3>5
  <2> QED BY <1>1, <2>1, <2>2 DEF FramesLie
<1>13. BasesLie(qs, ds, s, base)
  <2> SUFFICES ASSUME NEW p \in Pages, Size(qs, p) >= 1, base[p] >= 1
               PROVE  Act(qs, p, 1) \in DOMAIN ds /\ ds[Act(qs, p, 1)].sender = s[base[p]].act
    BY DEF BasesLie
  <2>1. p # x
    <3>1. ASSUME p = x PROVE FALSE
      <4>1. 0 >= 1
        BY <3>1
      <4> QED BY <4>1
    <3> QED BY <3>1
  <2>2. Size(ps, p) >= 1 /\ Act(qs, p, 1) = Act(ps, p, 1)
    BY <1>6, <2>1
  <2>3. Act(ps, p, 1) \in DOMAIN cs /\ cs[Act(ps, p, 1)].sender = s[base[p]].act
    BY <1>1, <2>2 DEF BasesLie
  <2>4. ~OnPage(ps, x, Act(ps, p, 1))
    <3>1. 1 \in 1..Size(ps, p)
      BY <1>2, <2>2
    <3> QED BY <1>3, <1>7, <2>1, <3>1 DEF OnPage, Separate
  <2> QED BY <2>2, <2>3, <2>4 DEF LeftTo
<1>14. ContextsLie(ds, s, e)
  <2>1. ASSUME NEW k \in 1..e
        PROVE  /\ s[k].act \in DOMAIN ds /\ ds[s[k].act].pc = s[k].pc /\ ds[s[k].act].data = s[k].data
               /\ k > 1 => ds[s[k].act].sender = s[k - 1].act
    <3>1. CASE k <= d
      <4>1. k \in 1..d /\ k \in 1..Len(s) /\ ~(k > d)
        BY <1>1, <3>1
      <4>2. ~OnPage(ps, x, s[k].act)
        BY <1>7, <1>8, <4>1
      <4>3. /\ s[k].act \in DOMAIN cs /\ cs[s[k].act].pc = s[k].pc /\ cs[s[k].act].data = s[k].data
            /\ k > 1 => cs[s[k].act].sender = s[k - 1].act
        BY <1>1, <4>1 DEF ContextsLie
      <4>4. s[k].act \in DOMAIN ds /\ ds[s[k].act] = cs[s[k].act]
        BY <4>2, <4>3 DEF LeftTo
      <4> QED BY <4>3, <4>4
    <3>2. CASE k > d
      <4>1. PICK i \in 1..z : k = d + i
        <5>1. k - d \in 1..z /\ k = d + (k - d)
          BY <1>1, <1>5, <3>2
        <5> QED BY <5>1
      <4>2. s[k].act = Act(ps, x, i) /\ s[k].data = ps[x].frames[i].data
        BY <1>9, <4>1
      <4>3. i \in 1..Size(ps, x)
        BY <1>4
      <4>4. /\ s[k].act \in DOMAIN ds /\ ds[s[k].act].data = s[k].data
            /\ i = z => ds[s[k].act].pc = ps[y].frames[1].ret
            /\ i # z => ds[s[k].act].pc = ps[x].frames[i + 1].ret
            /\ i # 1 => ds[s[k].act].sender = Act(ps, x, i - 1)
        BY <1>4, <4>2, <4>3 DEF LeftTo
      <4>5. ds[s[k].act].pc = s[k].pc
        <5>1. CASE i = z
          <6>1. k = e
            BY <1>5, <4>1, <5>1
          <6> QED BY <1>10, <4>4, <5>1, <6>1
        <5>2. CASE i # z
          <6>1. i + 1 \in 1..z /\ d + (i + 1) > 1 /\ (d + (i + 1)) - 1 = k
            BY <1>1, <4>1, <5>2
          <6>2. s[(d + (i + 1)) - 1].pc = ps[x].frames[i + 1].ret
            BY <1>9, <6>1
          <6> QED BY <4>4, <5>2, <6>1, <6>2
        <5> QED BY <5>1, <5>2
      <4>6. ASSUME k > 1 PROVE ds[s[k].act].sender = s[k - 1].act
        <5>1. CASE i = 1
          <6>1. d >= 1 /\ k - 1 = d
            BY <1>1, <4>1, <4>6, <5>1
          <6>2. Act(ps, x, 1) \in DOMAIN cs /\ cs[Act(ps, x, 1)].sender = s[d].act
            BY <1>1, <1>3, <6>1 DEF BasesLie
          <6> QED BY <4>2, <5>1, <6>1, <6>2 DEF LeftTo
        <5>2. CASE i # 1
          <6>1. i - 1 \in 1..z /\ d + (i - 1) = k - 1
            BY <1>1, <4>1, <5>2
          <6>2. s[k - 1].act = Act(ps, x, i - 1)
            BY <1>9, <6>1
          <6> QED BY <4>4, <5>2, <6>2
        <5> QED BY <5>1, <5>2
      <4> QED BY <4>4, <4>5, <4>6
    <3> QED BY <1>1, <3>1, <3>2
  <2>2. ASSUME NEW b \in DOMAIN ds, ds[b].sender # Nil PROVE \E k \in 1..Len(s) : s[k].act = b
    <3>1. CASE OnPage(ps, x, b)
      <4>1. OnFrame(ps, b)
        BY <1>7, <3>1
      <4> QED BY <1>1, <1>2, <4>1, OnFrames
    <3>2. CASE ~OnPage(ps, x, b)
      <4>1. b \in DOMAIN cs /\ cs[b].sender # Nil
        BY <2>2, <3>2 DEF LeftTo
      <4> QED BY <1>1, <4>1 DEF ContextsLie
    <3> QED BY <3>1, <3>2
  <2>3. Terminal \in DOMAIN ds => ds[Terminal].sender \notin Acts \cup {Terminal, Nil}
    <3>1. Terminal \in DOMAIN cs => cs[Terminal].sender \notin Acts \cup {Terminal, Nil}
      BY <1>1 DEF ContextsLie
    <3>2. CASE OnPage(ps, x, Terminal)
      <4>1. Act(ps, x, 1) = Terminal
        BY <1>3, <1>7, <3>2 DEF OnPage, Separate
      <4> QED BY <3>1, <4>1 DEF LeftTo
    <3>3. CASE ~OnPage(ps, x, Terminal)
      BY <3>1, <3>3 DEF LeftTo
    <3> QED BY <3>2, <3>3
  <2>4. e \in Nat /\ e < Len(s)
    BY <1>1, <1>10
  <2> QED BY <2>1, <2>2, <2>3, <2>4 DEF ContextsLie
<1>15. cur \in Pages /\ Size(qs, cur) >= 1 /\ base[cur] + Size(qs, cur) = Len(s)
  BY <1>1, <1>3, <1>6
<1> QED BY <1>1, <1>4, <1>12, <1>13, <1>14, <1>15 DEF Lies

----------------------------------------------------------------------------
(***************************************************************************)
(* Room for the activations: a page that has overflowed holds PageDepth    *)
(* frames at least.                                                        *)
(***************************************************************************)
PageDepth == (PageWords - OverflowWords) \div OverflowWords

\* PageDepth frames of the size of the reserve fit on a page below its reserve.
LEMMA PageDepthBound ==
  /\ OverflowWords \in Nat \ {0} /\ PageWords \in Nat /\ PageDepth \in Nat
  /\ PageDepth * OverflowWords <= PageWords - OverflowWords
<1>1. OverflowWords \in Nat \ {0} /\ PageWords - OverflowWords \in Nat /\ PageWords \in Nat
  <2>1. OverflowWords \in Nat /\ TerminalWords \in 1..OverflowWords /\ PageWords \in Nat
    BY StackAssumption
  <2>2. TerminalWords + TerminalWords + OverflowWords <= PageWords
    BY StackAssumption, Zenon
  <2> QED BY <2>1, <2>2
<1>2. \A a \in Nat, b \in Nat \ {0} : (a \div b) \in Nat /\ (a \div b) * b <= a
  OBVIOUS
<1> QED BY <1>1, <1>2 DEF PageDepth

\* Frames are no larger than the reserve.
LEMMA WordsBound ==
  ASSUME NEW f, HaveSizes(f), \A i \in DOMAIN f : f[i].words <= OverflowWords
  PROVE  Words(f) <= Len(f) * OverflowWords
<1>1. PICK w : IsSum(f, w, Len(f)) /\ Words(f) = w[Len(f)]
  BY WordsIsASum DEF HaveSizes
<1>2. \A n \in 0..Len(f) : w[n] = WordsStep(f, w, n)
  BY <1>1 DEF IsSum
<1>3. PICK n, o : n = Len(f) /\ o = OverflowWords
  OBVIOUS
<1>4. n \in Nat /\ o \in Nat /\ \A i \in 1..n : f[i].words \in Nat /\ f[i].words <= o
  <2>1. n \in Nat /\ DOMAIN f = 1..n /\ \A i \in DOMAIN f : f[i].words \in Nat \ {0}
    BY <1>3 DEF HaveSizes
  <2> QED BY <1>3, <2>1, PageDepthBound
<1> DEFINE S == {k \in Nat : k <= n => w[k] \in Nat /\ w[k] <= k * o}
<1>5. 0 \in S
  <2>1. w[0] = 0
    BY <1>2, <1>3, <1>4 DEF WordsStep
  <2> QED BY <1>4, <2>1
<1>6. ASSUME NEW k \in S PROVE k + 1 \in S
  <2> SUFFICES ASSUME k + 1 <= n PROVE w[k + 1] \in Nat /\ w[k + 1] <= (k + 1) * o
    OBVIOUS
  <2>1. k \in Nat /\ k + 1 \in 0..n /\ k + 1 \in 1..n /\ w[k] \in Nat /\ w[k] <= k * o
    BY <1>4
  <2>2. w[k + 1] = w[k] + f[k + 1].words
    BY <1>2, <1>3, <2>1 DEF WordsStep
  <2>3. f[k + 1].words \in Nat /\ f[k + 1].words <= o
    BY <1>4, <2>1
  <2>4. (k + 1) * o = (k * o) + o
    BY <1>4, <2>1
  <2>5. k * o \in Nat
    BY <1>4, <2>1
  <2> QED BY <1>4, <2>1, <2>2, <2>3, <2>4, <2>5
<1> HIDE DEF S
<1>7. S = Nat
  <2>1. S \in SUBSET Nat
    BY DEF S
  <2> QED BY <1>5, <1>6, <2>1, SetInduction
<1> QED BY <1>1, <1>3, <1>4, <1>7 DEF S

\* A page that one more frame overflows is full.
LEMMA FullPage ==
  ASSUME NEW fs \in Seq(Frames), NEW frame \in Frames, Overflows(Append(fs, frame))
  PROVE  PageDepth <= Len(fs)
<1>1. PICK g : g = Append(fs, frame)
  OBVIOUS
<1>2. PICK m \in Nat, c \in Nat, o \in Nat \ {0} : m = Len(fs) /\ c = PageDepth /\ o = OverflowWords
  BY PageDepthBound
<1>3. g \in Seq(Frames) /\ Len(g) = m + 1
  BY <1>1, <1>2
<1>4. \A f \in Frames : f.words \in Nat \ {0} /\ f.words <= OverflowWords
  <2>1. \A w \in FrameWords \cup {TerminalWords} : w \in Nat \ {0} /\ w <= OverflowWords
    BY StackAssumption
  <2> QED BY <2>1 DEF Frames
<1>5. HaveSizes(g) /\ \A i \in DOMAIN g : g[i].words <= OverflowWords
  <2>1. Len(g) \in Nat /\ DOMAIN g = 1..Len(g) /\ \A i \in 1..Len(g) : g[i] \in Frames
    BY <1>3
  <2> QED BY <1>4, <2>1 DEF HaveSizes
<1>6. Words(g) \in Nat /\ Words(g) <= (m + 1) * o
  <2>1. Words(g) <= Len(g) * OverflowWords
    BY <1>5, WordsBound
  <2>2. Words(g) \in Nat
    BY <1>5, WordsOfFrames
  <2> QED BY <1>2, <1>3, <2>1, <2>2
<1>7. Words(g) > PageWords - o
  BY <1>1, <1>2, <1>6, PageDepthBound DEF Overflows
<1>8. c * o <= PageWords - o /\ PageWords \in Nat
  BY <1>2, PageDepthBound
<1>9. SUFFICES ASSUME m + 1 <= c PROVE FALSE
  BY <1>2
<1>10. (m + 1) * o <= c * o
  <2>1. \A x, y, z \in Nat : x <= y => x * z <= y * z
    OBVIOUS
  <2> QED BY <1>2, <1>9, <2>1
<1>11. (m + 1) * o \in Nat /\ c * o \in Nat
  BY <1>2
<1> QED BY <1>2, <1>6, <1>7, <1>8, <1>10, <1>11

\* Pages but the current one are full.
FullPages(ps, cur) ==
  \A p \in Pages \ {cur} : Size(ps, p) >= 1 => PageDepth <= Size(ps, p)

\* When all pages are full, the stack has as many activations as fit in all of them.
LEMMA StackIsDeep ==
  ASSUME NEW ps, NEW s, NEW base, NEW d \in Nat, Shaped(s), FramesLie(ps, s, base, d),
         Separate(ps), \A p \in Pages : Size(ps, p) \in Nat /\ PageDepth <= Size(ps, p)
  PROVE  StackPageCount * PageDepth <= Len(s)
<1>1. Len(s) \in Nat /\ base \in [Pages -> Nat] /\ PageDepth \in Nat /\ StackPageCount \in Nat
  BY StackFacts, PageDepthBound, StackAssumption DEF FramesLie
<1> DEFINE S == Pages \X (1..PageDepth)
           T == 1..Len(s)
           f == [e \in S |-> base[e[1]] + e[2]]
<1>2. ASSUME NEW p \in Pages, NEW i \in 1..PageDepth
      PROVE  base[p] + i \in T /\ s[base[p] + i].act = Act(ps, p, i) /\ i \in 1..Size(ps, p)
  <2>1. i \in 1..Size(ps, p)
    BY <1>1
  <2>2. PICK k \in 1..Len(s) : Holds(ps, s, base, d, p, i, k)
    BY <2>1, FrameAt
  <2> QED BY <2>1, <2>2 DEF Holds
<1>3. ASSUME NEW p \in Pages, NEW q \in Pages, NEW i \in 1..PageDepth, NEW j \in 1..PageDepth,
             base[p] + i = base[q] + j
      PROVE  p = q /\ i = j
  <2>1. Act(ps, p, i) = Act(ps, q, j)
    BY <1>2, <1>3
  <2> QED BY <1>2, <2>1 DEF Separate
<1>4. f \in Injection(S, T)
  <2>1. \A e \in S : \E p \in Pages, i \in 1..PageDepth : e = <<p, i>> /\ f[e] = base[p] + i
    OBVIOUS
  <2>2. \A e \in S : f[e] \in T
    BY <1>2, <2>1
  <2>3. f \in [S -> T]
    BY <2>2
  <2> HIDE DEF f
  <2>4. ASSUME NEW x \in S, NEW y \in S, f[x] = f[y] PROVE x = y
    <3>1. PICK p \in Pages, i \in 1..PageDepth : x = <<p, i>> /\ f[x] = base[p] + i
      BY <2>1
    <3>2. PICK q \in Pages, j \in 1..PageDepth : y = <<q, j>> /\ f[y] = base[q] + j
      BY <2>1
    <3>3. p = q /\ i = j
      BY <1>3, <2>4, <3>1, <3>2
    <3> QED BY <3>1, <3>2, <3>3
  <2> QED BY <2>3, <2>4 DEF Injection, IsInjective
<1> HIDE DEF f
<1>u. \A n \in Nat : IsFiniteSet(1..n) /\ Cardinality(1..n) = n
  <2>1. ASSUME NEW n \in Nat PROVE IsFiniteSet(1..n) /\ Cardinality(1..n) = IF 1 > n THEN 0 ELSE n - 1 + 1
    <3>1. 1 \in Int /\ n \in Int
      OBVIOUS
    <3> QED BY <3>1, FS_Interval
  <2> QED BY <2>1
<1>5. IsFiniteSet(T) /\ Cardinality(T) = Len(s)
  BY <1>1, <1>u
<1>6. Cardinality(S) <= Len(s)
  BY <1>4, <1>5, FS_Injection
<1>7. Cardinality(S) = Cardinality(Pages) * Cardinality(1..PageDepth)
  <2>1. IsFiniteSet(Pages) /\ IsFiniteSet(1..PageDepth)
    BY <1>1, <1>u DEF Pages
  <2> QED BY <2>1, FS_Product, Zenon
<1>8. Cardinality(Pages) = StackPageCount
  BY <1>1, <1>u DEF Pages
<1>9. Cardinality(1..PageDepth) = PageDepth
  BY <1>1, <1>u
<1> QED BY <1>6, <1>7, <1>8, <1>9

\* The activations that are busy are those on the stack.
LEMMA BusyOnStack ==
  ASSUME NEW list, Good(pages, contexts, currentPage, list),
         NEW r, NEW s, NEW base, NEW d, Lies(pages, contexts, currentPage, r, s, base, d)
  PROVE  Busy \cup {Terminal} = {s[k].act : k \in 1..Len(s)}
<1>1. /\ Shaped(s) /\ FramesLie(pages, s, base, d) /\ ContextsLie(contexts, s, d)
      /\ Len(s) \in Nat \ {0} /\ d \in Nat /\ d < Len(s) /\ s[1].act = Terminal
      /\ \A k \in 1..Len(s) : s[k].act \in Acts \cup {Terminal}
  BY LiesFacts
<1>2. \A p \in Pages : Size(pages, p) \in Nat /\ DOMAIN pages[p].frames = 1..Size(pages, p)
  <2>1. pages \in [Pages -> PageRecords]
    BY DEF Good, Typed
  <2> QED BY <2>1, FramesOfPage
<1> DEFINE acts(q) == {pages[q].frames[j].act : j \in DOMAIN pages[q].frames}
<1>3. Busy = (UNION {acts(q) : q \in Pages}) \cup {b \in DOMAIN contexts : contexts[b].sender # Nil}
  BY Zenon DEF Busy
<1>4. \A a : a \in UNION {acts(q) : q \in Pages} <=> OnFrame(pages, a)
  <2>1. \A q \in Pages : \A a : a \in acts(q) <=> \E i \in 1..Size(pages, q) : Act(pages, q, i) = a
    BY <1>2 DEF Act
  <2> HIDE DEF acts
  <2>2. \A a : a \in UNION {acts(q) : q \in Pages} <=> \E q \in Pages : a \in acts(q)
    BY Zenon
  <2> QED BY <2>1, <2>2 DEF OnFrame
<1> HIDE DEF acts
<1>5. ASSUME NEW a, a \in Busy \cup {Terminal} PROVE \E k \in 1..Len(s) : s[k].act = a
  <2>1. CASE a = Terminal
    <3>1. 1 \in 1..Len(s)
      BY <1>1
    <3> QED BY <1>1, <2>1, <3>1
  <2>2. CASE OnFrame(pages, a)
    BY <1>1, <1>2, <2>2, OnFrames
  <2>3. CASE a \in DOMAIN contexts /\ contexts[a].sender # Nil
    BY <1>1, <2>3 DEF ContextsLie
  <2> QED BY <1>3, <1>4, <1>5, <2>1, <2>2, <2>3
<1>6. ASSUME NEW k \in 1..Len(s) PROVE s[k].act \in Busy \cup {Terminal}
  <2>1. CASE k > d
    <3>1. OnFrame(pages, s[k].act)
      BY <1>1, <1>2, <2>1, OnFrames
    <3> QED BY <1>3, <1>4, <3>1
  <2>2. CASE k = 1
    BY <1>1, <2>2
  <2>3. CASE ~(k > d) /\ k # 1
    <3>1. k \in 1..d /\ k > 1 /\ k - 1 \in 1..Len(s)
      BY <1>1, <2>3
    <3>2. s[k].act \in DOMAIN contexts /\ contexts[s[k].act].sender = s[k - 1].act
      BY <1>1, <3>1 DEF ContextsLie
    <3>3. contexts[s[k].act].sender # Nil
      BY <1>1, <3>1, <3>2, NamesDiffer
    <3> QED BY <1>3, <3>2, <3>3
  <2> QED BY <2>1, <2>2, <2>3
<1> QED BY <1>5, <1>6

\* As many names as activations are busy.
LEMMA NamesOnStack ==
  ASSUME NEW s, Shaped(s)
  PROVE  LET T == {s[k].act : k \in 1..Len(s)} IN IsFiniteSet(T) /\ Cardinality(T) = Len(s)
<1>1. Len(s) \in Nat /\ \A j, k \in 1..Len(s) : s[j].act = s[k].act => j = k
  BY StackFacts DEF Shaped
<1> DEFINE S == 1..Len(s)
           T == {s[k].act : k \in 1..Len(s)}
           f == [k \in S |-> s[k].act]
<1>2. IsFiniteSet(S) /\ Cardinality(S) = Len(s)
  <2>1. 1 \in Int /\ Len(s) \in Int
    BY <1>1
  <2>2. IsFiniteSet(1..Len(s)) /\ Cardinality(1..Len(s)) = IF 1 > Len(s) THEN 0 ELSE Len(s) - 1 + 1
    BY <2>1, FS_Interval
  <2> QED BY <1>1, <2>2
<1>3. f \in Surjection(S, T) /\ f \in Injection(S, T)
  <2>1. f \in [S -> T] /\ \A k \in S : f[k] = s[k].act
    OBVIOUS
  <2> HIDE DEF f
  <2>2. \A t \in T : \E k \in S : f[k] = t
    BY <2>1
  <2>3. \A j, k \in S : f[j] = f[k] => j = k
    BY <1>1, <2>1
  <2> HIDE DEF S, T
  <2> QED BY <2>1, <2>2, <2>3 DEF Surjection, Injection, IsInjective
<1> HIDE DEF f, S, T
<1>4. IsFiniteSet(T) /\ Cardinality(T) = Cardinality(S)
  BY <1>2, <1>3, FS_Surjection
<1> QED BY <1>2, <1>4 DEF T

\* An activation that is not busy is not on the stack, and there is one name for each.
LEMMA NamesCounted ==
  ASSUME NEW list, Good(pages, contexts, currentPage, list),
         NEW r, NEW s, NEW base, NEW d, Lies(pages, contexts, currentPage, r, s, base, d),
         NEW a \in Acts \ Busy
  PROVE  /\ \A k \in 1..Len(s) : s[k].act # a
         /\ Cardinality(Busy \cup {a, Terminal}) = Len(s) + 1
<1> DEFINE T == {s[k].act : k \in 1..Len(s)}
<1>1. Busy \cup {Terminal} = T
  BY BusyOnStack
<1>2. IsFiniteSet(T) /\ Cardinality(T) = Len(s)
  <2>1. Shaped(s)
    BY DEF Lies
  <2> QED BY <2>1, NamesOnStack
<1>3. a \notin T
  BY <1>1, NamesDiffer
<1>4. Busy \cup {a, Terminal} = T \cup {a}
  BY <1>1
<1>5. \A k \in 1..Len(s) : s[k].act # a
  BY <1>3
<1> HIDE DEF T
<1>6. Cardinality(T \cup {a}) = Len(s) + 1
  BY <1>2, <1>3, FS_AddElement
<1> QED BY <1>4, <1>5, <1>6

\* A stack has no more activations than there are names, and the terminal one.
LEMMA StackIsBounded ==
  ASSUME IsFiniteSet(Acts), NEW s, Shaped(s)
  PROVE  Cardinality(Acts) \in Nat /\ Len(s) <= Cardinality(Acts) + 1
<1> DEFINE T == {s[k].act : k \in 1..Len(s)}
<1>1. IsFiniteSet(T) /\ Cardinality(T) = Len(s)
  BY NamesOnStack
<1>2. T \in SUBSET (Acts \cup {Terminal})
  BY StackFacts
<1> HIDE DEF T
<1>3. IsFiniteSet(Acts \cup {Terminal}) /\ Cardinality(Acts \cup {Terminal}) = Cardinality(Acts) + 1
  BY FS_AddElement, NamesDiffer
<1>4. Cardinality(Acts) \in Nat
  BY FS_CardinalityType
<1>5. Cardinality(T) <= Cardinality(Acts \cup {Terminal})
  BY <1>2, <1>3, FS_Subset
<1> QED BY <1>1, <1>3, <1>4, <1>5

\* When there is no free page, the frames of the oldest page are left to their contexts:
\* the stack is the same, and it is as deep as the pool.
LEMMA RoomLies ==
  ASSUME NEW list, Good(pages, contexts, currentPage, list), FreeList(freePages, pages),
         NEW r, NEW s, NEW base, NEW d, Lies(pages, contexts, currentPage, r, s, base, d),
         FullPages(pages, currentPage), PageDepth <= Size(pages, currentPage)
  PROVE  /\ \E e : /\ Lies(Left, Kept, currentPage, r, s, base, e)
                   /\ e # d => StackPageCount * PageDepth <= Len(s)
         /\ FullPages(Left, currentPage)
         /\ \A p \in Pages : Size(Left, p) \in Nat
         /\ Left[currentPage].frames = pages[currentPage].frames
<1>l. /\ Len(list) \in Nat \ {0} /\ DOMAIN list = 1..Len(list) /\ list[1] = currentPage
      /\ \A n \in 1..Len(list) : list[n] \in Pages /\ Size(pages, list[n]) >= 1
      /\ \A m, n \in 1..Len(list) : list[m] = list[n] => m = n
      /\ \A p \in Pages : Used(pages, p) <=> Size(pages, p) >= 1
      /\ \A p \in Pages : Size(pages, p) >= 1 => \E n \in 1..Len(list) : list[n] = p
      /\ \A p \in Pages : Size(pages, p) \in Nat
      /\ currentPage \in Pages
  BY Facts
<1>1. CASE freePages # << >>
  <2>1. Left = pages /\ Kept = contexts
    BY <1>1 DEF Left, Kept
  <2> QED BY <1>l, <2>1
<1>2. CASE freePages = << >>
  <2>1. PICK x : x = list[Len(list)]
    OBVIOUS
  <2>2. \A p \in Pages : Used(pages, p)
    <3>1. DOMAIN freePages = {}
      BY <1>2
    <3> QED BY <3>1 DEF FreeList
  <2>3. Len(list) >= 2
    <3>1. \E p \in Pages : p # currentPage
      <4>1. 1 \in Pages /\ 2 \in Pages
        BY StackAssumption DEF Pages
      <4> QED BY <4>1
    <3>2. PICK n \in 1..Len(list) : list[n] # list[1]
      BY <1>l, <2>2, <3>1
    <3>3. n # 1 /\ Len(list) \in Nat
      BY <1>l, <3>2
    <3> QED BY <3>3
  <2>4. LeastUsed = x
    BY <2>1, LeastUsedIsLast
  <2>5. x \in Pages /\ x # currentPage
    <3>1. Len(list) \in 1..Len(list) /\ 1 \in 1..Len(list) /\ Len(list) # 1
      BY <1>l, <2>3
    <3> QED BY <1>l, <2>1, <3>1
  <2>6. PICK L, K : L = Left /\ K = Kept
    OBVIOUS
  <2>7. L = freed(pages, x) /\ K = divorceAllFrames(x)
    BY <1>2, <2>4, <2>6 DEF Left, Kept
  <2>8. Removed(pages, L, x)
    BY <2>5, <2>7, PageIsFreed DEF Good, Typed
  <2>9. LeftTo(pages, contexts, K, x, list[Len(list) - 1])
    BY <2>1, <2>3, <2>7, Divorcing
  <2>10. Size(L, x) = 0 /\ \A p \in Pages \ {x} : L[p].frames = pages[p].frames
    BY <2>8 DEF Removed
  <2>11. \A p \in Pages \ {x} : Size(L, p) = Size(pages, p)
    BY <2>10 DEF Size
  <2>12. PICK e : e = d + Size(pages, x)
    OBVIOUS
  <2>13. Lies(L, K, currentPage, r, s, base, e)
    BY <2>1, <2>3, <2>9, <2>10, <2>12, PageLeft
  <2>14. StackPageCount * PageDepth <= Len(s)
    <3>1. \A p \in Pages : Size(pages, p) \in Nat /\ PageDepth <= Size(pages, p)
      BY <1>l, <2>2 DEF FullPages
    <3>2. Shaped(s) /\ FramesLie(pages, s, base, d) /\ d \in Nat
      BY LiesFacts
    <3>3. Separate(pages)
      BY DEF Good
    <3> QED BY <3>1, <3>2, <3>3, StackIsDeep
  <2>15. FullPages(L, currentPage)
    <3> SUFFICES ASSUME NEW p \in Pages \ {currentPage}, Size(L, p) >= 1 PROVE PageDepth <= Size(L, p)
      BY DEF FullPages
    <3>1. p # x
      BY <2>10
    <3> QED BY <2>11, <3>1 DEF FullPages
  <2>16. \A p \in Pages : Size(L, p) \in Nat
    <3>1. 0 \in Nat
      OBVIOUS
    <3> QED BY <1>l, <2>10, <2>11, <3>1
  <2>17. L[currentPage].frames = pages[currentPage].frames
    BY <1>l, <2>5, <2>10
  <2> QED BY <2>6, <2>13, <2>14, <2>15, <2>16, <2>17
<1> QED BY <1>1, <1>2

----------------------------------------------------------------------------
(***************************************************************************)
(* Each step of the memory is a step of the stack that it holds.           *)
(***************************************************************************)
\* The memory holds the stack s; activations are left to contexts only when it is deep.
Represents(s) ==
  \E base, d : Lies(pages, contexts, currentPage, pc, s, base, d) /\ (d > 0 => deep)

Full == FullPages(pages, currentPage)

\* A call puts an activation on the stack.
LEMMA CallRefines ==
  ASSUME StackInv, Full, NEW words \in FrameWords, Call(words), NEW s, Represents(s)
  PROVE  \E a, t :
           /\ a \in Acts /\ \A k \in 1..Len(s) : s[k].act # a
           /\ t = Append(s, [act |-> a, pc |-> FirstPc, data |-> Fresh])
           /\ Represents(t)' /\ Full'
           /\ deep' = (deep \/ Len(t) > StackPageCount * PageDepth)
<1>1. PICK list : Good(pages, contexts, currentPage, list)
  BY DEF StackInv
<1>2. PICK cur \in Pages, fs \in Seq(Frames), m \in 1..PageWords :
           /\ cur = currentPage /\ fs = pages[cur].frames /\ m = top
           /\ m = Len(fs) /\ m = Size(pages, cur) /\ DOMAIN fs = 1..m /\ HaveSizes(fs) /\ m \in Nat
           /\ pages \in [Pages -> PageRecords] /\ ContextTable(contexts) /\ Sized(pages)
  BY <1>1, CurrentFrames
<1>3. PICK base, d : Lies(pages, contexts, currentPage, pc, s, base, d) /\ (d > 0 => deep)
  BY DEF Represents
<1>4. /\ Shaped(s) /\ FramesLie(pages, s, base, d) /\ ContextsLie(contexts, s, d)
      /\ base[currentPage] + Size(pages, currentPage) = Len(s)
      /\ Len(s) \in Nat \ {0} /\ d \in Nat /\ base \in [Pages -> Nat] /\ s \in Seq(Activations)
      /\ \A p \in Pages : Size(pages, p) \in Nat
  <2>1. \A p \in Pages : Size(pages, p) \in Nat
    BY <1>1, Facts
  <2> QED BY <1>3, <2>1, LiesFacts
<1>5. PICK a, frame, gs : /\ a = (CHOOSE b \in Acts \ Busy : TRUE) /\ frame = Frame(a, pc, Fresh, words)
                          /\ gs = Append(fs, frame)
  OBVIOUS
<1>6. a \in Acts \ Busy
  BY <1>5 DEF Call
<1>7. (\A k \in 1..Len(s) : s[k].act # a) /\ Cardinality(Busy \cup {a, Terminal}) = Len(s) + 1
  BY <1>1, <1>3, <1>6, NamesCounted
<1>8. frame \in Frames /\ frame.act = a /\ frame.words = words /\ frame.data = Fresh /\ frame.ret = pc
  <2>1. pc \in Pcs \cup {EndPc} /\ Fresh \in Values
    BY StackAssumption DEF StackInv, Fresh
  <2> QED BY <1>5, <1>6, <2>1 DEF Frame, Frames
<1>9. PICK x, t : x = [act |-> a, pc |-> FirstPc, data |-> Fresh] /\ t = Append(s, x)
  OBVIOUS
<1>10. x \in Activations /\ t = Append(s, [act |-> frame.act, pc |-> FirstPc, data |-> frame.data])
  <2>1. FirstPc \in Pcs /\ Fresh \in Values
    BY StackAssumption DEF FirstPc, Fresh
  <2>2. x \in Activations
    BY <1>6, <1>9, <2>1 DEF Activations
  <2>3. t = Append(s, [act |-> frame.act, pc |-> FirstPc, data |-> frame.data])
    BY <1>8, <1>9, Zenon
  <2> QED BY <2>2, <2>3
<1>11. Len(t) = Len(s) + 1
  BY <1>4, <1>9, <1>10
<1>12. deep' = (deep \/ Len(t) > StackPageCount * PageDepth) /\ pc' = FirstPc
  <2>1. /\ deep' = (deep \/ Cardinality(Busy \cup {a, Terminal}) > StackPageCount * PageDepth)
        /\ pc' = FirstPc
    BY <1>5, Zenon DEF Call, PageDepth
  <2>2. Cardinality(Busy \cup {a, Terminal}) = Len(t)
    BY <1>7, <1>11, Zenon
  <2> QED BY <2>1, <2>2, Zenon
<1>13. Idle(pages, contexts, a)
  <2>1. ~OnFrame(pages, a)
    BY <1>4, <1>7, OnFrames
  <2>2. a \in DOMAIN contexts => contexts[a].sender = Nil
    BY <1>4, <1>7 DEF ContextsLie
  <2> QED BY <1>6, <2>1, <2>2 DEF Idle
<1>14. CASE Overflows(gs)
  <2>1. stackOverflow(frame)
    BY <1>2, <1>5, <1>14 DEF Call, stackOverflow
  <2>2. Overflows(Append(pages[currentPage].frames, frame))
    BY <1>2, <1>5, <1>14
  <2>3. PICK n : n = currentPage'
    OBVIOUS
  <2>4. n \in Pages /\ MovedOn(Left, Kept, pages', contexts', currentPage, n, frame)
    BY <1>1, <1>2, <1>8, <1>13, <2>1, <2>2, <2>3, Overflow DEF StackInv
  <2>5. PICK L, K, qs, ds : L = Left /\ K = Kept /\ qs = pages' /\ ds = contexts'
    OBVIOUS
  <2>6. /\ n # cur /\ Size(L, n) = 0 /\ Size(qs, n) = 1 /\ qs[n].frames[1] = frame
        /\ \A p \in Pages \ {n} : qs[p].frames = L[p].frames
    BY <1>2, <2>4, <2>5 DEF MovedOn
  <2>7. PICK es : /\ Adjusted(L, K, es)
                  /\ DOMAIN ds = DOMAIN es \cup {frame.act}
                  /\ \A b \in DOMAIN es \ {frame.act} : ds[b] = es[b]
                  /\ ds[frame.act].sender = Act(L, cur, Size(L, cur))
    BY <1>2, <2>4, <2>5 DEF MovedOn
  <2>8. PageDepth <= Size(pages, currentPage)
    BY <1>2, <1>5, <1>8, <1>14, FullPage
  <2>9. PICK e : /\ Lies(L, K, cur, pc, s, base, e)
                 /\ e # d => StackPageCount * PageDepth <= Len(s)
    BY <1>1, <1>2, <1>3, <2>5, <2>8, RoomLies DEF StackInv, Full
  <2>10. FullPages(L, cur) /\ (\A p \in Pages : Size(L, p) \in Nat) /\ L[cur].frames = pages[cur].frames
    BY <1>1, <1>2, <1>3, <2>5, <2>8, RoomLies DEF StackInv, Full
  <2>11. Lies(L, es, cur, pc, s, base, e)
    BY <2>7, <2>9, <2>10, ContextsChanged DEF Adjusted
  <2>12. /\ Shaped(s) /\ FramesLie(L, s, base, e) /\ e \in Nat
         /\ base[cur] + Size(L, cur) = Len(s) /\ Size(L, cur) >= 1
    BY <2>11, LiesFacts
  <2>13. s[Len(s)].act = Act(L, cur, Size(L, cur))
    <3>1. Size(L, cur) \in 1..Size(L, cur)
      BY <2>10, <2>12
    <3>2. PICK k \in 1..Len(s) : Holds(L, s, base, e, cur, Size(L, cur), k)
      BY <2>10, <2>12, <3>1, FrameAt
    <3> QED BY <2>12, <3>2 DEF Holds
  <2>14. PICK bs : bs = [base EXCEPT ![n] = Len(s)]
    OBVIOUS
  <2>15. bs \in [Pages -> Nat] /\ bs[n] = Len(s) /\ \A p \in Pages \ {n} : bs[p] = base[p]
    BY <1>4, <2>4, <2>14
  <2>16. Lies(qs, ds, n, FirstPc, t, bs, e)
    <3>1. FrameOnTop(L, qs, n, frame)
      <4>1. Size(qs, n) = Size(L, n) + 1 /\ Size(L, n) + 1 = 1
        BY <2>6
      <4>2. \A i \in 1..Size(L, n) : qs[n].frames[i] = L[n].frames[i]
        BY <2>6
      <4> QED BY <2>6, <4>1, <4>2 DEF FrameOnTop
    <3>2. BaseFound(L, s, base, bs, n)
      BY <1>4, <2>6, <2>15 DEF BaseFound
    <3>3. NewOnStack(s, frame, pc)
      BY <1>6, <1>7, <1>8, StackAssumption DEF Fresh, NewOnStack
    <3>4. NewContext(L, es, ds, s, n, frame.act)
      BY <2>7, <2>13 DEF NewContext
    <3>5. \A p \in Pages : Size(L, p) \in Nat
      BY <2>10
    <3> QED BY <1>10, <2>4, <2>11, <3>1, <3>2, <3>3, <3>4, <3>5, FramePut, Zenon
  <2>17. Represents(t)'
    <3>1. e > 0 => deep'
      <4>1. CASE e = d
        BY <1>3, <1>12, <4>1
      <4>2. CASE e # d
        <5>1. Len(t) > StackPageCount * PageDepth
          <6>1. PICK c : c = StackPageCount * PageDepth
            OBVIOUS
          <6>2. c \in Nat
            BY <6>1, PageDepthBound, StackAssumption
          <6> QED BY <1>4, <1>11, <2>9, <4>2, <6>1, <6>2
        <5> QED BY <1>12, <5>1
      <4> QED BY <4>1, <4>2
    <3>2. Lies(pages', contexts', currentPage', pc', t, bs, e)
      BY <1>12, <2>3, <2>5, <2>16
    <3> QED BY <3>1, <3>2 DEF Represents
  <2>18. FullPages(qs, n)
    <3> SUFFICES ASSUME NEW p \in Pages \ {n}, Size(qs, p) >= 1 PROVE PageDepth <= Size(qs, p)
      BY DEF FullPages
    <3>1. Size(qs, p) = Size(L, p)
      BY <2>6 DEF Size
    <3>2. CASE p = cur
      <4>1. Size(L, cur) = Size(pages, cur)
        BY <2>10 DEF Size
      <4> QED BY <1>2, <2>8, <3>1, <3>2, <4>1
    <3>3. CASE p # cur
      BY <2>10, <3>1, <3>3 DEF FullPages
    <3> QED BY <3>2, <3>3
  <2>19. Full'
    BY <2>3, <2>5, <2>18 DEF Full
  <2> QED BY <1>6, <1>7, <1>9, <1>12, <2>17, <2>19
<1>15. CASE ~Overflows(gs)
  <2>1. PICK qs, ds : qs = pages' /\ ds = contexts'
    OBVIOUS
  <2>2. /\ qs = WithFrames(pages, cur, gs)
        /\ ds = [b \in DOMAIN contexts \ {a} |-> contexts[b]]
        /\ currentPage' = currentPage
    BY <1>2, <1>5, <1>15, <2>1 DEF Call, WithFrames
  <2>3. /\ gs \in Seq(Frames) /\ Len(gs) = m + 1 /\ gs[m + 1] = frame
        /\ \A i \in 1..m : gs[i] = fs[i]
    BY <1>2, <1>5, <1>8
  <2>4. qs[cur].frames = gs /\ \A p \in Pages \ {cur} : qs[p].frames = pages[p].frames
    <3>1. NewFrames(pages, qs, cur, gs)
      BY <1>2, <2>2, <2>3, FramesReplaced
    <3> QED BY <3>1 DEF NewFrames, SameElsewhere
  <2>5. DOMAIN ds = DOMAIN contexts \ {a} /\ \A b \in DOMAIN ds : ds[b] = contexts[b]
    BY <2>2
  <2>6. Lies(qs, ds, cur, FirstPc, t, base, d)
    <3>1. FrameOnTop(pages, qs, cur, frame)
      <4>1. Size(qs, cur) = m + 1
        BY <2>3, <2>4 DEF Size
      <4> QED BY <1>2, <2>3, <2>4, <4>1 DEF FrameOnTop
    <3>2. BaseFound(pages, s, base, base, cur)
      BY <1>2, <1>4 DEF BaseFound
    <3>3. NewOnStack(s, frame, pc)
      BY <1>6, <1>7, <1>8, StackAssumption DEF Fresh, NewOnStack
    <3>4. NewContext(pages, contexts, ds, s, cur, frame.act)
      <4>1. Size(pages, cur) # 0
        BY <1>2
      <4> QED BY <1>8, <2>5, <4>1 DEF NewContext
    <3>5. Lies(pages, contexts, cur, pc, s, base, d) /\ \A p \in Pages : Size(pages, p) \in Nat
      BY <1>2, <1>3, <1>4
    <3> QED BY <1>10, <3>1, <3>2, <3>3, <3>4, <3>5, FramePut, Zenon
  <2>7. Represents(t)'
    <3>1. d > 0 => deep'
      BY <1>3, <1>12
    <3>2. Lies(pages', contexts', currentPage', pc', t, base, d)
      BY <1>2, <1>12, <2>1, <2>2, <2>6
    <3> QED BY <3>1, <3>2 DEF Represents
  <2>8. FullPages(qs, cur)
    <3>1. \A p \in Pages \ {cur} : Size(qs, p) = Size(pages, p)
      BY <2>4 DEF Size
    <3> QED BY <1>2, <3>1 DEF Full, FullPages
  <2>9. Full'
    BY <1>2, <2>1, <2>2, <2>8 DEF Full
  <2> QED BY <1>6, <1>7, <1>9, <1>12, <2>7, <2>9
<1> QED BY <1>14, <1>15

\* A return within a page takes the last activation off the stack.
LEMMA LocalReturnRefines ==
  ASSUME StackInv, Full, localReturnValue, NEW s, Represents(s)
  PROVE  Len(s) > 1 /\ Represents(SubSeq(s, 1, Len(s) - 1))' /\ Full'
<1>1. PICK list : Good(pages, contexts, currentPage, list)
  BY DEF StackInv
<1>2. PICK cur \in Pages, fs \in Seq(Frames), m \in 1..PageWords :
           /\ cur = currentPage /\ fs = pages[cur].frames /\ m = top
           /\ m = Len(fs) /\ m = Size(pages, cur) /\ fs[m] \in Frames /\ Current = fs[m]
           /\ Act(pages, cur, m) = fs[m].act /\ m \in Nat
           /\ pages \in [Pages -> PageRecords] /\ ContextTable(contexts)
  BY <1>1, CurrentFrames
<1>3. PICK base, d : Lies(pages, contexts, currentPage, pc, s, base, d) /\ (d > 0 => deep)
  BY DEF Represents
<1>4. PICK qs, ds, gs, a, u, t, r : /\ qs = pages' /\ ds = contexts' /\ gs = SubSeq(fs, 1, m - 1)
                                    /\ a = fs[m].act /\ u = m - 1 /\ t = SubSeq(s, 1, Len(s) - 1) /\ r = pc'
  OBVIOUS
<1>5. m > 1 /\ u \in Nat /\ u >= 1 /\ u + 1 = m
  <2>1. m > 1
    BY <1>2 DEF localReturnValue
  <2> QED BY <1>2, <1>4, <2>1
<1>6. /\ qs = WithFrames(pages, cur, gs) /\ ds = widowContext(contexts, a)
      /\ currentPage' = currentPage /\ r = fs[m].ret /\ deep' = deep
  BY <1>2, <1>4 DEF localReturnValue, WithFrames
<1>7. gs \in Seq(Frames) /\ Len(gs) = u /\ \A i \in 1..u : gs[i] = fs[i]
  <2>1. gs = SubSeq(fs, 1, u)
    BY <1>4, Zenon
  <2>2. fs \in Seq(Frames) /\ u \in Nat /\ u < Len(fs)
    BY <1>2, <1>5
  <2> QED BY <2>1, <2>2
<1>8. qs[cur].frames = gs /\ \A p \in Pages \ {cur} : qs[p].frames = pages[p].frames
  <2>1. NewFrames(pages, qs, cur, gs)
    BY <1>2, <1>6, <1>7, FramesReplaced
  <2> QED BY <2>1 DEF NewFrames, SameElsewhere
<1>9. FrameOffTop(pages, qs, cur) /\ Size(qs, cur) = u
  <2>1. Size(qs, cur) = u /\ Size(pages, cur) = m /\ u = m - 1
    BY <1>2, <1>4, <1>7, <1>8 DEF Size
  <2>2. \A i \in 1..u : qs[cur].frames[i] = pages[cur].frames[i]
    BY <1>2, <1>7, <1>8
  <2> QED BY <1>8, <2>1, <2>2 DEF FrameOffTop
<1>10. Widowed(contexts, ds, Act(pages, cur, Size(pages, cur)))
  <2>1. a = Act(pages, cur, Size(pages, cur))
    BY <1>2, <1>4
  <2>2. /\ DOMAIN ds = DOMAIN contexts /\ \A b \in DOMAIN ds \ {a} : ds[b] = contexts[b]
        /\ a \in DOMAIN ds => ds[a].sender = Nil
    BY <1>2, <1>6, Widowing
  <2> QED BY <2>1, <2>2 DEF Widowed
<1>11. /\ base[cur] + m = Len(s) /\ base[cur] \in Nat /\ Len(s) \in Nat
       /\ \A p \in Pages : Size(pages, p) \in Nat
  <2>1. \A p \in Pages : Size(pages, p) \in Nat
    BY <1>1, Facts
  <2>2. base \in [Pages -> Nat] /\ base[currentPage] + Size(pages, currentPage) = Len(s) /\ Len(s) \in Nat \ {0}
    BY <1>3, LiesFacts
  <2> QED BY <1>2, <2>1, <2>2
<1>12. TopLeft(s, base, qs, cur)
  <2>1. PICK b \in Nat, l \in Nat : b = base[cur] /\ l = Len(s)
    BY <1>11
  <2>2. b + m = l
    BY <1>11, <2>1
  <2>3. b + u = l - 1
    BY <1>5, <2>2
  <2> QED BY <1>5, <1>9, <2>1, <2>3 DEF TopLeft
<1>13. Lies(qs, ds, cur, r, t, base, d)
  <2>1. r = pages[cur].frames[Size(pages, cur)].ret
    BY <1>2, <1>6
  <2>2. Separate(pages)
    BY <1>1 DEF Good
  <2>3. Lies(pages, contexts, cur, pc, s, base, d) /\ \A p \in Pages : Size(pages, p) \in Nat
    BY <1>2, <1>3, <1>11
  <2>4. t = SubSeq(s, 1, Len(s) - 1) /\ Dropped(pages, contexts, cur, s, base, qs, ds, cur)
    BY <1>4, <1>9, <1>10, <1>12 DEF Dropped
  <2> QED BY <2>1, <2>2, <2>3, <2>4, FrameDropped
<1>14. Represents(t)'
  <2>1. Lies(pages', contexts', currentPage', pc', t, base, d)
    BY <1>2, <1>4, <1>6, <1>13
  <2>2. d > 0 => deep'
    BY <1>3, <1>6
  <2> QED BY <2>1, <2>2 DEF Represents
<1>15. Full'
  <2>1. \A p \in Pages \ {cur} : Size(qs, p) = Size(pages, p)
    BY <1>8 DEF Size
  <2>2. FullPages(qs, cur)
    BY <1>2, <2>1 DEF Full, FullPages
  <2> QED BY <1>2, <1>4, <1>6, <2>2 DEF Full
<1>16. Len(s) > 1
  <2>1. PICK b \in Nat, l \in Nat : b = base[cur] /\ l = Len(s)
    BY <1>11
  <2>2. b + m = l
    BY <1>11, <2>1
  <2> QED BY <1>2, <1>5, <2>1, <2>2
<1> QED BY <1>4, <1>14, <1>15, <1>16

\* A return from the first frame of a page takes the last activation off the stack.
LEMMA BaseReturnRefines ==
  ASSUME StackInv, Full, baseReturnValue, NEW s, Represents(s)
  PROVE  Len(s) > 1 /\ Represents(SubSeq(s, 1, Len(s) - 1))' /\ Full'
<1>1. PICK base, d : Lies(pages, contexts, currentPage, pc, s, base, d) /\ (d > 0 => deep)
  BY DEF Represents
<1>2. /\ MovedBack(pages, contexts, pages', contexts', currentPage, currentPage')
      /\ pc' = pages[currentPage].frames[1].ret
  BY BaseReturnStep
<1>3. PICK ps, cs, cur, qs, ds, q, r : /\ ps = pages /\ cs = contexts /\ cur = currentPage
                                       /\ qs = pages' /\ ds = contexts' /\ q = currentPage' /\ r = pc'
  OBVIOUS
<1>4. PICK list : Good(ps, cs, cur, list) /\ Len(list) >= 2 /\ q = list[2]
  BY <1>2, <1>3 DEF MovedBack
<1>5. /\ Size(ps, cur) = 1 /\ Size(qs, cur) = 0 /\ r = ps[cur].frames[1].ret
      /\ \A p \in Pages \ {cur} : qs[p].frames = ps[p].frames
      /\ DOMAIN ds = DOMAIN cs
      /\ \A b \in DOMAIN ds \ {Act(ps, cur, 1)} : ds[b] = cs[b]
      /\ Act(ps, cur, 1) \in DOMAIN ds => ds[Act(ps, cur, 1)].sender = Nil
  BY <1>2, <1>3 DEF MovedBack
<1>6. Lies(ps, cs, cur, pc, s, base, d)
  BY <1>1, <1>3
<1>7. /\ \A p \in Pages : Size(ps, p) \in Nat
      /\ Len(list) \in Nat \ {0} /\ list[1] = cur /\ cur \in Pages
      /\ \A n \in 1..Len(list) : list[n] \in Pages /\ Size(ps, list[n]) >= 1
      /\ \A i, n \in 1..Len(list) : list[i] = list[n] => i = n
  BY <1>4, Facts
<1>8. 1 \in 1..Len(list) /\ 2 \in 1..Len(list) /\ 1 < Len(list)
  <2>1. Len(list) \in Nat
    BY <1>7
  <2> QED BY <1>4, <2>1
<1>9. q \in Pages /\ q # cur /\ Size(ps, q) >= 1
  BY <1>4, <1>7, <1>8
<1>10. base[cur] = base[q] + Size(ps, q)
  <2>1. \A n \in 1..Len(list) : n < Len(list) =>
               base[list[n]] = base[list[n + 1]] + Size(ps, list[n + 1])
    BY <1>4, <1>6, PagesJoin
  <2>2. base[list[1]] = base[list[1 + 1]] + Size(ps, list[1 + 1])
    BY <1>8, <2>1
  <2> QED BY <1>4, <1>7, <2>2
<1>11. base \in [Pages -> Nat] /\ base[cur] + Size(ps, cur) = Len(s) /\ Len(s) \in Nat
  <2>1. base \in [Pages -> Nat] /\ base[cur] + Size(ps, cur) = Len(s) /\ Len(s) \in Nat \ {0}
    BY <1>6, LiesFacts
  <2> QED BY <2>1
<1>12. PICK b \in Nat, l \in Nat, z \in Nat : b = base[cur] /\ l = Len(s) /\ z = Size(ps, q)
  BY <1>7, <1>9, <1>11
<1>13. b + 1 = l /\ z >= 1 /\ base[q] + z = b /\ base[q] \in Nat
  BY <1>5, <1>7, <1>9, <1>10, <1>11, <1>12
<1>14. Size(qs, q) = z
  BY <1>5, <1>9, <1>12 DEF Size
<1>15. FrameOffTop(ps, qs, cur)
  <2>1. 0 = 1 - 1 /\ \A i \in 1..0 : FALSE
    OBVIOUS
  <2> QED BY <1>5, <2>1 DEF FrameOffTop
<1>16. TopLeft(s, base, qs, q)
  <2>1. base[q] + z = l - 1
    BY <1>13
  <2> QED BY <1>12, <1>13, <1>14, <2>1 DEF TopLeft
<1>17. Widowed(cs, ds, Act(ps, cur, Size(ps, cur)))
  BY <1>5 DEF Widowed
<1>18. PICK t : t = SubSeq(s, 1, Len(s) - 1)
  OBVIOUS
<1>19. Lies(qs, ds, q, r, t, base, d)
  <2>1. r = ps[cur].frames[Size(ps, cur)].ret
    BY <1>5
  <2>2. Separate(ps) /\ \A p \in Pages : Size(ps, p) \in Nat
    BY <1>4, <1>7 DEF Good
  <2>3. q \in Pages /\ Dropped(ps, cs, cur, s, base, qs, ds, q)
    BY <1>9, <1>15, <1>16, <1>17 DEF Dropped
  <2> QED BY <1>6, <1>18, <2>1, <2>2, <2>3, FrameDropped
<1>20. Represents(t)'
  <2>1. Lies(pages', contexts', currentPage', pc', t, base, d)
    BY <1>3, <1>19
  <2>2. deep' = deep
    BY DEF baseReturnValue
  <2> QED BY <1>1, <2>1, <2>2 DEF Represents
<1>21. Full'
  <2> SUFFICES ASSUME NEW p \in Pages \ {q}, Size(qs, p) >= 1 PROVE PageDepth <= Size(qs, p)
    BY <1>3 DEF Full, FullPages
  <2>1. p # cur
    BY <1>5
  <2>2. Size(qs, p) = Size(ps, p)
    BY <1>5, <2>1 DEF Size
  <2> QED BY <1>3, <2>1, <2>2 DEF Full, FullPages
<1>22. Len(s) > 1
  <2>1. l > 1
    BY <1>13
  <2> QED BY <1>12, <2>1
<1> QED BY <1>18, <1>20, <1>21, <1>22

\* The process aborts only when the activation below is left to a context.
LEMMA AbortRefines ==
  ASSUME StackInv, makeBaseFrame, NEW s, Represents(s)
  PROVE  Len(s) > 1 /\ deep
<1>1. PICK list : Good(pages, contexts, currentPage, list)
  BY DEF StackInv
<1>2. PICK base, d : Lies(pages, contexts, currentPage, pc, s, base, d) /\ (d > 0 => deep)
  BY DEF Represents
<1>3. PICK cur \in Pages, fs \in Seq(Frames), m \in 1..PageWords :
           /\ cur = currentPage /\ m = top /\ m = Size(pages, cur) /\ Current = fs[m]
           /\ Act(pages, cur, m) = fs[m].act
  BY <1>1, CurrentFrames
<1>4. PICK a : a = Act(pages, cur, 1)
  OBVIOUS
<1>5. m = 1 /\ Current.act = a /\ a # Terminal /\ 1 \in 1..Size(pages, cur)
  <2>1. m = 1 /\ Current.act # Terminal
    BY <1>3 DEF makeBaseFrame
  <2> QED BY <1>3, <1>4, <2>1
<1>6. /\ \A p \in Pages : Size(pages, p) \in Nat /\ Size(pages, p) <= PageWords
      /\ Len(list) \in Nat \ {0} /\ list[1] = cur
      /\ \A n \in 1..Len(list) : list[n] \in Pages /\ Size(pages, list[n]) >= 1
      /\ \A p \in Pages : \A i \in 1..Size(pages, p) : Act(pages, p, i) \in Acts \cup {Terminal}
  BY <1>1, <1>3, Facts
<1>7. Len(list) = 1
  <2> SUFFICES ASSUME Len(list) # 1 PROVE FALSE
    OBVIOUS
  <2>1. Len(list) \in Nat \ {0}
    BY <1>6
  <2>2. 1 \in 1..Len(list) /\ 2 \in 1..Len(list) /\ 1 < Len(list) /\ 1 + 1 = 2
    <3>1. PICK n \in Nat : n = Len(list)
      BY <2>1
    <3>2. n # 1 /\ n # 0
      BY <2>1, <3>1
    <3>3. 1 < n
      BY <3>2
    <3> QED BY <3>1, <3>3
  <2>3. PICK q \in Pages : q = list[2]
    BY <1>6, <2>2
  <2>4. LinkedTo(pages, contexts, cur, q)
    <3>1. \A n \in DOMAIN list : n < Len(list) => LinkedTo(pages, contexts, list[n], list[n + 1])
      <4>1. Linked(pages, contexts, list)
        BY <1>1 DEF Good
      <4> QED BY <4>1, Zenon DEF Linked, LinkedTo
    <3>2. DOMAIN list = 1..Len(list)
      BY <1>1, Facts
    <3>3. LinkedTo(pages, contexts, list[1], list[1 + 1])
      BY <2>2, <3>1, <3>2
    <3> QED BY <1>6, <2>2, <2>3, <3>3
  <2>5. PICK z, c : z = Size(pages, q) /\ c = Act(pages, q, z)
    OBVIOUS
  <2>6. z >= 2 /\ c \in DOMAIN contexts /\ contexts[a].sender = c
    BY <1>4, <2>4, <2>5 DEF LinkedTo
  <2>7. z \in Nat /\ z <= PageWords
    BY <1>6, <2>5
  <2>8. z \in 1..Size(pages, q) /\ z \in 1..PageWords /\ z > 1
    BY <2>5, <2>6, <2>7, FrameSizes
  <2>9. contexts[c].sender = <<q, z>>
    BY <1>1, <2>5, <2>6, <2>8 DEF Good, Wed
  <2>10. c # Nil
    BY <1>6, <2>5, <2>8, NamesDiffer
  <2>11. SenderOfBase = c
    BY <1>5, <2>6 DEF SenderOfBase
  <2>12. isMarriedOrWidowed(contexts[c])
    BY <2>8, <2>9 DEF isMarriedOrWidowed
  <2> QED BY <2>10, <2>11, <2>12 DEF makeBaseFrame
<1>8. base[cur] = d
  <2>1. base[list[Len(list)]] = d
    BY <1>1, <1>2, PagesJoin
  <2> QED BY <1>6, <1>7, <2>1
<1>9. /\ Shaped(s) /\ FramesLie(pages, s, base, d) /\ d \in Nat
      /\ s[1].act = Terminal /\ Len(s) \in Nat
  <2>1. /\ Shaped(s) /\ FramesLie(pages, s, base, d) /\ d \in Nat
        /\ s[1].act = Terminal /\ Len(s) \in Nat \ {0}
    BY <1>2, LiesFacts
  <2> QED BY <2>1
<1>10. PICK k \in 1..Len(s) : Holds(pages, s, base, d, cur, 1, k)
  BY <1>5, <1>6, <1>9, FrameAt
<1>11. k = d + 1 /\ s[k].act = a
  BY <1>4, <1>8, <1>10 DEF Holds
<1>12. d # 0
  <2>1. k # 1
    BY <1>5, <1>9, <1>11
  <2> QED BY <1>11, <2>1
<1> QED BY <1>2, <1>9, <1>11, <1>12

\* A step of the current frame changes the last activation.
LEMMA StepRefines ==
  ASSUME StackInv, Full, NEW r \in Pcs, NEW e \in Values, Step(r, e), NEW s, Represents(s)
  PROVE  /\ Len(s) > 1 /\ Full'
         /\ Represents(Moved(s, r, e))'
<1>1. PICK list : Good(pages, contexts, currentPage, list)
  BY DEF StackInv
<1>2. PICK cur \in Pages, fs \in Seq(Frames), m \in 1..PageWords :
           /\ cur = currentPage /\ fs = pages[cur].frames /\ m = top
           /\ m = Len(fs) /\ m = Size(pages, cur) /\ fs[m] \in Frames /\ m \in Nat
           /\ pages \in [Pages -> PageRecords]
  BY <1>1, CurrentFrames
<1>3. PICK base, d : Lies(pages, contexts, currentPage, pc, s, base, d) /\ (d > 0 => deep)
  BY DEF Represents
<1>4. PICK qs, gs, f, t : /\ qs = pages' /\ f = [fs[m] EXCEPT !.data = e] /\ gs = [fs EXCEPT ![m] = f]
                          /\ t = Moved(s, r, e)
  OBVIOUS
<1>5. f \in Frames /\ f.act = fs[m].act /\ f.ret = fs[m].ret /\ f.data = e
  BY <1>2, <1>4 DEF Frames
<1>6. m >= 1 /\ m \in 1..m
  BY <1>2, FrameSizes
<1>7. gs \in Seq(Frames) /\ Len(gs) = m /\ gs[m] = f /\ \A i \in 1..m : i # m => gs[i] = fs[i]
  <2>1. gs = [fs EXCEPT ![m] = f] /\ fs \in Seq(Frames) /\ m = Len(fs) /\ f \in Frames
    BY <1>2, <1>4, <1>5
  <2> QED BY <1>6, <2>1
<1>8. /\ qs = WithFrames(pages, cur, gs) /\ currentPage' = currentPage /\ contexts' = contexts
      /\ pc' = r /\ deep' = deep /\ pc # EndPc
  BY <1>2, <1>4 DEF Step, WithFrames
<1>9. qs[cur].frames = gs /\ \A p \in Pages \ {cur} : qs[p].frames = pages[p].frames
  <2>1. NewFrames(pages, qs, cur, gs)
    BY <1>2, <1>7, <1>8, FramesReplaced
  <2> QED BY <2>1 DEF NewFrames, SameElsewhere
<1>10. DataChanged(pages, qs, cur, e)
  <2>1. Size(qs, cur) = m /\ Size(pages, cur) = m
    BY <1>2, <1>7, <1>9 DEF Size
  <2>2. qs[cur].frames[m].data = e
    BY <1>5, <1>7, <1>9
  <2>3. ASSUME NEW i \in 1..m
        PROVE  /\ qs[cur].frames[i].act = pages[cur].frames[i].act
               /\ qs[cur].frames[i].ret = pages[cur].frames[i].ret
               /\ i # m => qs[cur].frames[i].data = pages[cur].frames[i].data
    <3>1. CASE i = m
      BY <1>2, <1>5, <1>7, <1>9, <3>1
    <3>2. CASE i # m
      BY <1>2, <1>7, <1>9, <3>2
    <3> QED BY <3>1, <3>2
  <2> QED BY <1>9, <2>1, <2>2, <2>3 DEF DataChanged
<1>11. Len(s) > 1 /\ Lies(qs, contexts, cur, r, t, base, d)
  <2>1. Separate(pages) /\ \A p \in Pages : Size(pages, p) \in Nat
    BY <1>1, Facts DEF Good
  <2>2. Lies(pages, contexts, cur, pc, s, base, d) /\ pc # EndPc
    BY <1>2, <1>3, <1>8
  <2>3. Len(s) > 1 /\ Lies(qs, contexts, cur, r, Moved(s, r, e), base, d)
    BY <1>10, <2>1, <2>2, StepTaken
  <2> QED BY <1>4, <2>3
<1>12. Represents(t)'
  <2>1. Lies(pages', contexts', currentPage', pc', t, base, d)
    BY <1>2, <1>4, <1>8, <1>11
  <2> QED BY <1>3, <1>8, <2>1 DEF Represents
<1>13. Full'
  <2>1. \A p \in Pages \ {cur} : Size(qs, p) = Size(pages, p)
    BY <1>9 DEF Size
  <2>2. FullPages(qs, cur)
    BY <1>2, <2>1 DEF Full, FullPages
  <2> QED BY <1>2, <1>4, <1>8, <2>2 DEF Full
<1> QED BY <1>4, <1>11, <1>12, <1>13

\* A marriage changes nothing that the program sees.
LEMMA MarriageRefines ==
  ASSUME StackInv, Full, Adjusted(pages, contexts, contexts'),
         UNCHANGED <<pages, currentPage, pc, deep>>, NEW s, Represents(s)
  PROVE  Represents(s)' /\ Full'
<1>1. PICK list : Good(pages, contexts, currentPage, list)
  BY DEF StackInv
<1>2. PICK base, d : Lies(pages, contexts, currentPage, pc, s, base, d) /\ (d > 0 => deep)
  BY DEF Represents
<1>3. PICK ds : ds = contexts'
  OBVIOUS
<1>4. \A p \in Pages : Size(pages, p) \in Nat
  BY <1>1, Facts
<1>5. Lies(pages, ds, currentPage, pc, s, base, d)
  <2>1. Adjusted(pages, contexts, ds)
    BY <1>3
  <2> QED BY <1>2, <1>4, <2>1, ContextsChanged DEF Adjusted
<1>6. Lies(pages', contexts', currentPage', pc', s, base, d)
  BY <1>3, <1>5
<1> QED BY <1>2, <1>6 DEF Represents, Full

\* A step that leaves the memory alone leaves the stack alone.
LEMMA NothingRefines ==
  ASSUME UNCHANGED <<pages, contexts, currentPage, pc, deep>>, Full, NEW s, Represents(s)
  PROVE  Represents(s)' /\ Full'
BY DEF Represents, Full

\* At first the memory holds the terminal activation.
LEMMA InitRefines ==
  ASSUME Init
  PROVE  Full /\ Represents(<<[act |-> Terminal, pc |-> EndPc, data |-> Fresh]>>)
<1>1. PICK ps, cs, cur, one, first, x, s, base :
        /\ ps = pages /\ cs = contexts /\ cur = currentPage
        /\ first = Frame(Terminal, EndPc, Fresh, TerminalWords) /\ one = <<first>>
        /\ x = [act |-> Terminal, pc |-> EndPc, data |-> Fresh] /\ s = <<x>>
        /\ base = [p \in Pages |-> 0]
  OBVIOUS
<1>2. cur = StackPageCount /\ cur \in Pages
  BY <1>1, StackAssumption DEF Init, Pages
<1>3. /\ first.act = Terminal /\ first.ret = EndPc /\ first.data = Fresh
      /\ x \in Activations /\ x.act = Terminal /\ x.pc = EndPc /\ x.data = Fresh
  BY <1>1, StackAssumption DEF Frame, Activations, Fresh
<1>4. /\ one[1] = first /\ Len(one) = 1
      /\ s \in Seq(Activations) /\ Len(s) = 1 /\ s[1] = x
  BY <1>1, <1>3
<1>5. /\ ps[cur].frames = one /\ \A p \in Pages \ {cur} : ps[p].frames = << >>
  <2>1. ps = [p \in Pages |-> IF p = cur THEN Page(one, 0, NoPage, NoPage) ELSE FreePage]
    BY <1>1, <1>2 DEF Init
  <2> QED BY <1>2, <2>1 DEF Page, FreePage
<1>6. /\ Size(ps, cur) = 1 /\ Act(ps, cur, 1) = Terminal /\ ps[cur].frames[1] = first
      /\ \A p \in Pages \ {cur} : Size(ps, p) = 0
  BY <1>3, <1>4, <1>5 DEF Size, Act
<1>7. \A p \in Pages : \A i \in 1..Size(ps, p) : p = cur /\ i = 1
  BY <1>6
<1>8. base \in [Pages -> Nat] /\ \A p \in Pages : base[p] = 0
  BY <1>1
<1>9. DOMAIN cs = {} /\ pc = EndPc
  BY <1>1 DEF Init
<1>10. Shaped(s)
  <2>1. \A j, k \in 1..1 : j = k
    OBVIOUS
  <2> QED BY <1>3, <1>4, <2>1 DEF Shaped
<1>11. FramesLie(ps, s, base, 0)
  <2>1. ASSUME NEW p \in Pages, NEW i \in 1..Size(ps, p), NEW k \in Nat, k = base[p] + i
        PROVE  /\ 0 < k /\ k <= Len(s)
               /\ s[k].act = Act(ps, p, i) /\ s[k].data = ps[p].frames[i].data
               /\ k > 1 => s[k - 1].pc = ps[p].frames[i].ret
    <3>1. p = cur /\ i = 1 /\ k = 1
      BY <1>7, <1>8, <2>1
    <3> QED BY <1>3, <1>4, <1>6, <3>1
  <2>2. ASSUME NEW k \in (0 + 1)..Len(s)
        PROVE  \E p \in Pages : \E i \in 1..Size(ps, p) : k = base[p] + i
    <3>1. k = base[cur] + 1 /\ 1 \in 1..Size(ps, cur)
      BY <1>2, <1>4, <1>6, <1>8
    <3> QED BY <1>2, <3>1
  <2> QED BY <1>8, <2>1, <2>2 DEF FramesLie
<1>12. BasesLie(ps, cs, s, base)
  BY <1>8 DEF BasesLie
<1>13. ContextsLie(cs, s, 0)
  <2>1. 0 \in Nat /\ 0 < Len(s) /\ \A k \in 1..0 : FALSE
    BY <1>4
  <2> QED BY <1>9, <2>1 DEF ContextsLie
<1>14. Lies(ps, cs, cur, pc, s, base, 0)
  <2>1. base[cur] + Size(ps, cur) = Len(s)
    BY <1>2, <1>4, <1>6, <1>8
  <2>2. s[Len(s)].pc = pc
    BY <1>3, <1>4, <1>9
  <2> QED BY <1>2, <1>6, <1>10, <1>11, <1>12, <1>13, <2>1, <2>2 DEF Lies
<1>15. Represents(s)
  <2>1. Lies(pages, contexts, currentPage, pc, s, base, 0) /\ (0 > 0 => deep)
    BY <1>1, <1>14
  <2> QED BY <2>1 DEF Represents
<1>16. Full
  BY <1>1, <1>6 DEF Full, FullPages
<1> QED BY <1>1, <1>15, <1>16

----------------------------------------------------------------------------
(***************************************************************************)
(* What the walks over pages and contexts find is the stack.               *)
(***************************************************************************)
\* Sequences that are built backwards and forwards.
LEMMA Downward ==
  ASSUME NEW last \in Nat, NEW f, NEW h, f[last] = h[last],
         \A n \in 0..last : n < last /\ f[n + 1] = h[n + 1] => f[n] = h[n]
  PROVE  f[0] = h[0]
<1> DEFINE S == {j \in Nat : j <= last => f[last - j] = h[last - j]}
<1>1. 0 \in S
  OBVIOUS
<1>2. ASSUME NEW j \in S PROVE j + 1 \in S
  <2> SUFFICES ASSUME j + 1 <= last PROVE f[last - (j + 1)] = h[last - (j + 1)]
    OBVIOUS
  <2>1. PICK n \in 0..last : n = last - (j + 1) /\ n < last /\ n + 1 = last - j
    OBVIOUS
  <2>2. f[last - j] = h[last - j]
    OBVIOUS
  <2> HIDE DEF S
  <2>3. f[n + 1] = h[n + 1]
    BY <2>1, <2>2
  <2>4. f[n] = h[n]
    BY <2>1, <2>3
  <2> QED BY <2>1, <2>4
<1>3. S \in SUBSET Nat
  OBVIOUS
<1>4. \A j \in Nat : (j \in S /\ j <= last) => f[last - j] = h[last - j]
  OBVIOUS
<1> HIDE DEF S
<1>5. S = Nat
  BY <1>1, <1>2, <1>3, SetInduction
<1>6. f[last - last] = h[last - last] /\ last - last = 0
  BY <1>4, <1>5
<1> QED BY <1>6

\* Two functions that agree at 0, and at each number after one at which they do, agree.
LEMMA Upward ==
  ASSUME NEW f, NEW h, f[0] = h[0], \A n \in Nat : f[n] = h[n] => f[n + 1] = h[n + 1]
  PROVE  \A n \in Nat : f[n] = h[n]
<1> DEFINE S == {n \in Nat : f[n] = h[n]}
<1>1. 0 \in S /\ S \in SUBSET Nat /\ \A n \in S : n + 1 \in S
  OBVIOUS
<1>2. \A n \in S : f[n] = h[n]
  OBVIOUS
<1> HIDE DEF S
<1>3. S = Nat
  BY <1>1, SetInduction
<1> QED BY <1>2, <1>3

\* The first n elements of g, and those that follow.
LEMMA CutJoined ==
  ASSUME NEW X, NEW g \in Seq(X), NEW f \in Seq(X), NEW n \in Nat, n + Len(f) <= Len(g),
         \A i \in 1..Len(f) : f[i] = g[n + i]
  PROVE  SubSeq(g, 1, n) \o f = SubSeq(g, 1, n + Len(f))
<1>1. Len(f) \in Nat /\ Len(g) \in Nat
  BY LenProperties
<1>2. PICK m \in Nat, l \in Nat : m = n + Len(f) /\ l = Len(f)
  BY <1>1
<1>3. \A i \in 1..m : i \in 1..Len(g) /\ g[i] \in X
  BY <1>1, <1>2, ElementOfSeq
<1>4. PICK c, h : c = SubSeq(g, 1, n) /\ h = SubSeq(g, 1, m)
  OBVIOUS
<1>5. c \in Seq(X) /\ Len(c) = n /\ \A i \in 1..n : c[i] = g[i]
  <2>1. \A i \in 1..n : g[i] \in X
    BY <1>2, <1>3
  <2>2. /\ SubSeq(g, 1, n) \in Seq(X) /\ Len(SubSeq(g, 1, n)) = IF 1 <= n THEN n - 1 + 1 ELSE 0
        /\ \A i \in 1..(n - 1 + 1) : SubSeq(g, 1, n)[i] = g[1 + i - 1]
    BY <2>1, SubSeqProperties
  <2> QED BY <1>4, <2>2
<1>6. h \in Seq(X) /\ Len(h) = m /\ \A i \in 1..m : h[i] = g[i]
  <2>1. /\ SubSeq(g, 1, m) \in Seq(X) /\ Len(SubSeq(g, 1, m)) = IF 1 <= m THEN m - 1 + 1 ELSE 0
        /\ \A i \in 1..(m - 1 + 1) : SubSeq(g, 1, m)[i] = g[1 + i - 1]
    BY <1>3, SubSeqProperties
  <2> QED BY <1>4, <2>1
<1>7. PICK j : j = c \o f
  OBVIOUS
<1>8. /\ j \in Seq(X) /\ Len(j) = m
      /\ \A i \in 1..m : j[i] = IF i <= n THEN c[i] ELSE f[i - n]
  <2>1. /\ c \o f \in Seq(X) /\ Len(c \o f) = Len(c) + Len(f)
        /\ \A i \in 1..(Len(c) + Len(f)) : (c \o f)[i] = IF i <= Len(c) THEN c[i] ELSE f[i - Len(c)]
    BY <1>5, ConcatProperties
  <2> QED BY <1>2, <1>5, <1>7, <2>1
<1>9. ASSUME NEW i \in 1..m PROVE j[i] = h[i]
  <2>1. CASE i <= n
    BY <1>5, <1>6, <1>8, <2>1
  <2>2. CASE ~(i <= n)
    <3>1. PICK k \in 1..l : k = i - n /\ n + k = i
      BY <1>1, <1>2, <2>2
    <3>2. f[k] = g[n + k]
      BY <1>2, <3>1
    <3> QED BY <1>6, <1>8, <2>2, <3>1, <3>2
  <2> QED BY <2>1, <2>2
<1>10. j = h
  BY <1>6, <1>8, <1>9, SeqEqual
<1> QED BY <1>2, <1>4, <1>7, <1>10

\* The frame of activation k.
FrameOf(base, k) ==
  CHOOSE f : \E p \in Pages : \E i \in 1..Size(pages, p) : k = base[p] + i /\ f = pages[p].frames[i]

FramesAbove(s, base, d) == [j \in 1..(Len(s) - d) |-> FrameOf(base, d + j)]

\* The frames of the activations above the first d.
LEMMA FramesHold ==
  ASSUME NEW list, Good(pages, contexts, currentPage, list),
         NEW r, NEW s, NEW base, NEW d, Lies(pages, contexts, currentPage, r, s, base, d)
  PROVE  /\ FramesAbove(s, base, d) \in Seq(Frames) /\ Len(FramesAbove(s, base, d)) = Len(s) - d
         /\ \A j \in 1..(Len(s) - d) :
              /\ FramesAbove(s, base, d)[j].act = s[d + j].act
              /\ FramesAbove(s, base, d)[j].data = s[d + j].data
              /\ d + j > 1 => FramesAbove(s, base, d)[j].ret = s[d + j - 1].pc
         /\ \A p \in Pages : \A i \in 1..Size(pages, p) : \A j \in Nat :
              d + j = base[p] + i => /\ j \in 1..(Len(s) - d)
                                     /\ FramesAbove(s, base, d)[j] = pages[p].frames[i]
<1>1. /\ Shaped(s) /\ FramesLie(pages, s, base, d) /\ base \in [Pages -> Nat]
      /\ Len(s) \in Nat \ {0} /\ d \in Nat /\ d < Len(s)
  BY LiesFacts
<1>2. pages \in [Pages -> PageRecords] /\ Separate(pages)
  BY DEF Good, Typed
<1>3. \A p \in Pages : Size(pages, p) \in Nat /\ \A i \in 1..Size(pages, p) : pages[p].frames[i] \in Frames
  BY <1>2, FramesOfPage
<1>4. PICK len \in Nat : len = Len(s) - d
  BY <1>1
<1>5. \A p \in Pages : \A i \in 1..Size(pages, p) : \E k \in 1..Len(s) : Holds(pages, s, base, d, p, i, k)
  BY <1>1, <1>3, FrameAt
<1>6. ASSUME NEW p \in Pages, NEW i \in 1..Size(pages, p), NEW q \in Pages, NEW n \in 1..Size(pages, q),
             base[p] + i = base[q] + n
      PROVE  p = q /\ i = n
  <2>1. PICK k \in 1..Len(s) : Holds(pages, s, base, d, p, i, k)
    BY <1>5
  <2>2. PICK h \in 1..Len(s) : Holds(pages, s, base, d, q, n, h)
    BY <1>5
  <2>3. k = h
    BY <1>6, <2>1, <2>2 DEF Holds
  <2>4. Act(pages, p, i) = Act(pages, q, n)
    BY <2>1, <2>2, <2>3 DEF Holds
  <2>5. \A x, y \in Pages : \A j \in 1..Size(pages, x), m \in 1..Size(pages, y) :
          Act(pages, x, j) = Act(pages, y, m) => x = y /\ j = m
    BY <1>2, Zenon DEF Separate
  <2> QED BY <2>4, <2>5
<1>7. ASSUME NEW p \in Pages, NEW i \in 1..Size(pages, p)
      PROVE  FrameOf(base, base[p] + i) = pages[p].frames[i]
  <2>1. PICK k, f : k = base[p] + i /\ f = pages[p].frames[i]
    OBVIOUS
  <2>2. \E e : \E q \in Pages : \E n \in 1..Size(pages, q) : k = base[q] + n /\ e = pages[q].frames[n]
    BY <2>1
  <2>3. PICK e : e = FrameOf(base, k) /\ \E q \in Pages : \E n \in 1..Size(pages, q) :
                                             k = base[q] + n /\ e = pages[q].frames[n]
    BY <2>2, Zenon DEF FrameOf
  <2>4. PICK q \in Pages : \E n \in 1..Size(pages, q) : k = base[q] + n /\ e = pages[q].frames[n]
    BY <2>3
  <2>5. PICK n \in 1..Size(pages, q) : k = base[q] + n /\ e = pages[q].frames[n]
    BY <2>4
  <2>6. p = q /\ i = n
    <3>1. base[p] + i = base[q] + n
      BY <2>1, <2>5
    <3> QED BY <1>6, <3>1
  <2> QED BY <2>1, <2>3, <2>5, <2>6
<1>8. PICK g : g = FramesAbove(s, base, d)
  OBVIOUS
<1>9. DOMAIN g = 1..len /\ \A j \in 1..len : g[j] = FrameOf(base, d + j)
  BY <1>4, <1>8 DEF FramesAbove
<1>10. ASSUME NEW p \in Pages, NEW i \in 1..Size(pages, p), NEW j \in Nat, d + j = base[p] + i
       PROVE  j \in 1..len /\ g[j] = pages[p].frames[i]
  <2>1. PICK k \in 1..Len(s) : Holds(pages, s, base, d, p, i, k)
    BY <1>5
  <2>2. k = d + j /\ k > d
    BY <1>10, <2>1 DEF Holds
  <2>3. j \in 1..len
    BY <1>1, <1>4, <2>2
  <2>4. FrameOf(base, d + j) = pages[p].frames[i]
    BY <1>7, <1>10
  <2> QED BY <1>9, <2>3, <2>4
<1>11. ASSUME NEW j \in 1..len
       PROVE  /\ g[j] \in Frames /\ g[j].act = s[d + j].act /\ g[j].data = s[d + j].data
              /\ d + j > 1 => g[j].ret = s[d + j - 1].pc
  <2>1. PICK k \in (d + 1)..Len(s) : k = d + j
    BY <1>1, <1>4
  <2>2. PICK p \in Pages : \E i \in 1..Size(pages, p) : k = base[p] + i
    BY <1>1 DEF FramesLie
  <2>3. PICK i \in 1..Size(pages, p) : k = base[p] + i
    BY <2>2
  <2>4. PICK h \in 1..Len(s) : Holds(pages, s, base, d, p, i, h)
    BY <1>5
  <2>5. h = k
    BY <2>3, <2>4 DEF Holds
  <2>6. g[j] = pages[p].frames[i]
    BY <1>10, <2>1, <2>3
  <2>7. /\ s[k].act = Act(pages, p, i) /\ s[k].data = pages[p].frames[i].data
        /\ k > 1 => s[k - 1].pc = pages[p].frames[i].ret
    BY <2>4, <2>5 DEF Holds
  <2>8. PICK f : f = pages[p].frames[i]
    OBVIOUS
  <2>9. /\ f \in Frames /\ s[k].act = f.act /\ s[k].data = f.data /\ (k > 1 => s[k - 1].pc = f.ret)
    BY <1>3, <2>7, <2>8 DEF Act
  <2>10. g[j] = f
    BY <2>6, <2>8
  <2>11. k - 1 = d + j - 1
    BY <1>1, <2>1
  <2> QED BY <2>1, <2>9, <2>10, <2>11
<1>12. g \in Seq(Frames) /\ Len(g) = len
  <2>1. g = [j \in 1..len |-> FrameOf(base, d + j)]
    BY <1>4, <1>8 DEF FramesAbove
  <2>2. g \in [1..len -> Frames]
    BY <1>9, <1>11, <2>1
  <2> QED BY <2>2
<1> QED BY <1>4, <1>8, <1>10, <1>11, <1>12

\* The recursive function of stackFrames is FromStep at n.
FromStep(f, n) ==
  IF n = StackPageCount \/ Back[n] = NoPage THEN << >> ELSE f[n + 1] \o HeadFrames(Back[n])

\* stackFramesDo visits them, each once and in order.
LEMMA FramesVisited ==
  ASSUME NEW list, Good(pages, contexts, currentPage, list),
         NEW r, NEW s, NEW base, NEW d, Lies(pages, contexts, currentPage, r, s, base, d)
  PROVE  stackFrames = FramesAbove(s, base, d)
<1>1. PICK g : g = FramesAbove(s, base, d)
  OBVIOUS
<1>2. /\ Len(s) \in Nat /\ d \in Nat /\ d < Len(s) /\ base \in [Pages -> Nat]
      /\ base[currentPage] + Size(pages, currentPage) = Len(s)
  <2>1. /\ Len(s) \in Nat \ {0} /\ d \in Nat /\ d < Len(s) /\ base \in [Pages -> Nat]
        /\ base[currentPage] + Size(pages, currentPage) = Len(s)
    BY LiesFacts
  <2> QED BY <2>1
<1>3. PICK tall \in Nat : tall = Len(s) - d
  BY <1>2
<1>4. /\ g \in Seq(Frames) /\ Len(g) = tall
      /\ \A p \in Pages : \A i \in 1..Size(pages, p) : \A j \in Nat :
           d + j = base[p] + i => j \in 1..tall /\ g[j] = pages[p].frames[i]
  BY <1>1, <1>3, FramesHold
<1>5. /\ Len(list) \in Nat \ {0} /\ list[1] = currentPage
      /\ \A n \in 1..Len(list) : list[n] \in Pages /\ Size(pages, list[n]) >= 1
      /\ \A p \in Pages : Size(pages, p) \in Nat /\ (Used(pages, p) <=> Size(pages, p) >= 1)
  BY Facts
<1>6. PICK len \in Nat : len = Len(list)
  <2>1. Len(list) \in Nat
    BY <1>5
  <2> QED BY <2>1
<1>7. /\ \A n \in Nat : n < len => Back[n] = list[n + 1] /\ n + 1 \in 1..len
      /\ \A n \in Nat : n >= len => Back[n] = NoPage
      /\ len <= StackPageCount /\ len >= 1
  <2>1. \A n \in 0..(len - 1) : Back[n] = list[n + 1]
    BY <1>6, BackIsTheList
  <2>2. \A n \in Nat : n < len => n \in 0..(len - 1) /\ n + 1 \in 1..len
    OBVIOUS
  <2>3. \A n \in Nat : n >= len => Back[n] = NoPage
    BY <1>6, BackIsTheList
  <2>4. len <= StackPageCount
    BY <1>6, ListIsShort
  <2>5. len >= 1
    BY <1>5, <1>6
  <2> QED BY <2>1, <2>2, <2>3, <2>4, <2>5
\* The frames of the page that n links lead to.
<1>8. ASSUME NEW n \in 1..len
      PROVE  /\ list[n] \in Pages /\ base[list[n]] \in Nat /\ base[list[n]] >= d
             /\ HeadFrames(list[n]) = pages[list[n]].frames
             /\ pages[list[n]].frames \in Seq(Frames)
             /\ n < len => base[list[n]] = base[list[n + 1]] + Size(pages, list[n + 1])
             /\ n = len => base[list[n]] = d
  <2>1. PICK p \in Pages : p = list[n] /\ Size(pages, p) >= 1
    BY <1>5, <1>6
  <2>2. 1 \in 1..Size(pages, p)
    BY <1>5, <2>1
  <2>3. PICK k \in 1..Len(s) : Holds(pages, s, base, d, p, 1, k)
    <3>1. Shaped(s) /\ FramesLie(pages, s, base, d)
      BY LiesFacts
    <3> QED BY <1>2, <1>5, <2>2, <3>1, FrameAt
  <2>4. base[p] \in Nat /\ base[p] >= d
    BY <2>3 DEF Holds
  <2>5. pages[p].frames \in Seq(Frames)
    BY FramesOfPage DEF Good, Typed
  <2>6. HeadFrames(p) = pages[p].frames
    <3>1. PICK fs \in Seq(Frames) : fs = pages[p].frames
      BY <2>5
    <3>2. p # currentPage => pages[p].head = Len(fs)
      BY <1>5, <2>1, <3>1 DEF Good, Headed, Size
    <3>3. SubSeq(fs, 1, Len(fs)) = fs
      BY SubSeqFull
    <3> QED BY <3>1, <3>2, <3>3 DEF HeadFrames
  <2>7. /\ n < len => base[list[n]] = base[list[n + 1]] + Size(pages, list[n + 1])
        /\ n = len => base[list[n]] = d
    BY <1>6, PagesJoin
  <2> QED BY <2>1, <2>4, <2>5, <2>6, <2>7
\* How many of the frames are found after n links.
<1> DEFINE e == [n \in 0..StackPageCount |->
                   IF n < len THEN (base[list[n + 1]] + Size(pages, list[n + 1])) - d ELSE 0]
<1>9. StackPageCount \in Nat
  BY StackAssumption
<1>10. e[0] = tall
  <2>1. 0 < len /\ 0 \in 0..StackPageCount /\ 0 + 1 = 1
    BY <1>7, <1>9
  <2>2. e[0] = (base[list[1]] + Size(pages, list[1])) - d
    BY <2>1
  <2> HIDE DEF e
  <2>3. PICK c \in Nat : c = base[currentPage] + Size(pages, currentPage) /\ c = Len(s)
    BY <1>2
  <2>4. e[0] = c - d
    <3>1. list[1] = currentPage
      BY <1>5
    <3>2. base[list[1]] + Size(pages, list[1]) = c
      BY <2>3, <3>1, Zenon
    <3>3. PICK x : x = base[list[1]] + Size(pages, list[1])
      OBVIOUS
    <3>4. e[0] = x - d /\ x = c
      BY <2>2, <3>2, <3>3, Zenon
    <3> QED BY <3>4
  <2> QED BY <1>3, <2>3, <2>4
<1>11. ASSUME NEW n \in 0..StackPageCount, n < len
       PROVE  n + 1 \in 0..StackPageCount /\ e[n + 1] = base[list[n + 1]] - d
  <2>1. n + 1 \in 1..len /\ n + 1 \in 0..StackPageCount /\ (n + 1 < len \/ n + 1 = len)
    BY <1>7, <1>9, <1>11
  <2>2. CASE n + 1 < len
    <3>1. e[n + 1] = (base[list[(n + 1) + 1]] + Size(pages, list[(n + 1) + 1])) - d
      BY <2>1, <2>2
    <3> HIDE DEF e
    <3>2. PICK c : c = base[list[(n + 1) + 1]] + Size(pages, list[(n + 1) + 1])
      OBVIOUS
    <3>3. base[list[n + 1]] = c
      BY <1>8, <2>1, <2>2, <3>2
    <3>4. e[n + 1] = c - d
      BY <3>1, <3>2, Zenon
    <3> QED BY <2>1, <3>3, <3>4
  <2>3. CASE n + 1 = len
    <3>1. e[n + 1] = 0
      BY <2>1, <2>3
    <3>2. base[list[n + 1]] = d
      BY <1>8, <2>1, <2>3
    <3> HIDE DEF e
    <3> QED BY <1>2, <2>1, <3>1, <3>2
  <2> QED BY <2>1, <2>2, <2>3
<1>12. \A n \in 0..StackPageCount :
         /\ n < len => e[n] = (base[list[n + 1]] + Size(pages, list[n + 1])) - d
         /\ n >= len => e[n] = 0
  BY <1>9
<1> HIDE DEF e
<1> DEFINE h == [n \in 0..StackPageCount |-> SubSeq(g, 1, e[n])]
<1>13. ASSUME NEW n \in 0..StackPageCount PROVE h[n] = FromStep(h, n)
  <2>1. CASE n < len
    <3>1. PICK p \in Pages, fs \in Seq(Frames) :
            p = list[n + 1] /\ fs = pages[p].frames /\ HeadFrames(p) = fs /\ base[p] \in Nat /\ base[p] >= d
      BY <1>7, <1>8, <2>1
    <3>2. Back[n] = p /\ n # StackPageCount /\ p # NoPage
      BY <1>7, <2>1, <3>1, NamesDiffer
    <3>3. PICK b \in Nat, z \in Nat : b = base[p] - d /\ z = Len(fs)
      BY <1>2, <3>1
    <3>4. n + 1 \in 0..StackPageCount /\ e[n + 1] = b /\ e[n] = b + z /\ Size(pages, p) = z
      <4>1. Size(pages, p) = z
        BY <3>1, <3>3 DEF Size
      <4>2. e[n] = (base[p] + z) - d
        BY <1>12, <2>1, <3>1, <4>1
      <4>3. e[n + 1] = base[p] - d /\ n + 1 \in 0..StackPageCount
        BY <1>11, <2>1, <3>1
      <4>4. PICK c \in Nat : c = base[p]
        BY <3>1
      <4>5. b = c - d /\ e[n] = (c + z) - d /\ e[n + 1] = c - d
        BY <3>3, <4>2, <4>3, <4>4, Zenon
      <4>6. b + z = (c + z) - d
        BY <1>2, <4>5
      <4> QED BY <4>1, <4>3, <4>5, <4>6, Zenon
    <3>5. ASSUME NEW i \in 1..z PROVE b + i \in 1..tall /\ fs[i] = g[b + i]
      <4>1. PICK j \in Nat : j = b + i
        OBVIOUS
      <4>2. d + j = base[p] + i
        <5>1. PICK c \in Nat : c = base[p]
          BY <3>1
        <5>2. b = c - d
          BY <3>3, <5>1
        <5>3. i \in Nat /\ d + (b + i) = c + i
          BY <1>2, <5>2
        <5> QED BY <4>1, <5>1, <5>3
      <4>3. i \in 1..Size(pages, p)
        BY <3>4
      <4>4. j \in 1..tall /\ g[j] = pages[p].frames[i]
        BY <1>4, <4>2, <4>3
      <4> QED BY <3>1, <4>1, <4>4
    <3>6. b + z <= tall
      <4>1. z >= 1 /\ z \in 1..z
        BY <1>5, <1>6, <1>7, <2>1, <3>1, <3>4
      <4>2. b + z \in 1..tall
        BY <3>5, <4>1
      <4> QED BY <4>2
    <3>7. SubSeq(g, 1, b) \o fs = SubSeq(g, 1, b + z)
      BY <1>4, <3>3, <3>5, <3>6, CutJoined
    <3>8. h[n] = SubSeq(g, 1, b + z) /\ h[n + 1] = SubSeq(g, 1, b)
      BY <3>4
    <3> HIDE DEF h
    <3> QED BY <3>1, <3>2, <3>7, <3>8 DEF FromStep
  <2>2. CASE ~(n < len)
    <3>1. n >= len /\ n \in Nat
      BY <1>9, <2>2
    <3>2. e[n] = 0 /\ Back[n] = NoPage
      BY <1>7, <1>12, <3>1
    <3>3. SubSeq(g, 1, 0) = << >>
      BY SubSeqEmpty
    <3>4. h[n] = << >>
      BY <3>2, <3>3
    <3> HIDE DEF h
    <3> QED BY <3>2, <3>4 DEF FromStep
  <2> QED BY <2>1, <2>2
<1>14. h[0] = g
  <2>1. SubSeq(g, 1, Len(g)) = g
    BY <1>4, SubSeqFull
  <2>2. 0 \in 0..StackPageCount
    BY <1>9
  <2>3. h[0] = SubSeq(g, 1, e[0])
    BY <2>2
  <2> QED BY <1>4, <1>10, <2>1, <2>3
<1>15. h = [n \in 0..StackPageCount |-> FromStep(h, n)]
  <2>1. h = [n \in 0..StackPageCount |-> h[n]]
    OBVIOUS
  <2> HIDE DEF h
  <2> QED BY <1>13, <2>1, Zenon
<1> HIDE DEF h
<1>16. PICK f : f = (CHOOSE v : v = [n \in 0..StackPageCount |-> FromStep(v, n)])
  OBVIOUS
<1>17. f = [n \in 0..StackPageCount |-> FromStep(f, n)]
  <2>1. \E v : v = [n \in 0..StackPageCount |-> FromStep(v, n)]
    BY <1>15, Zenon
  <2> QED BY <1>16, <2>1, Zenon
<1>18. \A n \in 0..StackPageCount : f[n] = FromStep(f, n)
  <2>1. \A n \in 0..StackPageCount : [x \in 0..StackPageCount |-> FromStep(f, x)][n] = FromStep(f, n)
    OBVIOUS
  <2> QED BY <1>17, <2>1, Zenon
<1>19. f[0] = h[0]
  <2>1. StackPageCount \in 0..StackPageCount
    BY <1>9
  <2>2. f[StackPageCount] = h[StackPageCount]
    BY <1>13, <1>18, <2>1 DEF FromStep
  <2>3. ASSUME NEW n \in 0..StackPageCount, f[n + 1] = h[n + 1] PROVE f[n] = h[n]
    <3>1. FromStep(f, n) = FromStep(h, n)
      BY <2>3, Zenon DEF FromStep
    <3> QED BY <1>13, <1>18, <3>1
  <2> QED BY <1>9, <2>2, <2>3, Downward
<1>20. stackFrames = f[0]
  <2>1. stackFrames = (CHOOSE v : v = [n \in 0..StackPageCount |-> FromStep(v, n)])[0]
    BY Zenon DEF stackFrames, FromStep
  <2> QED BY <1>16, <2>1, Zenon
<1> QED BY <1>1, <1>14, <1>19, <1>20

\* The recursive functions of divorcedContexts are AboveStep and UpToStep at n.
SenderIn(a) == IF a \in DOMAIN contexts THEN contexts[a].sender ELSE Nil

AboveStep(f, n) == IF n = 0 THEN SenderIn(stackFrames[1].act) ELSE SenderIn(f[n - 1])

Above == CHOOSE f : f = [n \in Nat |-> AboveStep(f, n)]

UpToStep(u, n) ==
  IF n > Cardinality(Acts) \/ Above[n] \notin Acts \cup {Terminal} THEN << >>
  ELSE u[n + 1] \o <<[act |-> Above[n], pc |-> contexts[Above[n]].pc, data |-> contexts[Above[n]].data]>>

\* The walk along the divorced contexts, as a function on all natural numbers.
LEMMA DivorcedWalk ==
  divorcedContexts = (CHOOSE u : u = [n \in Nat |-> UpToStep(u, n)])[0]
BY Zenon DEF divorcedContexts, UpToStep, Above, AboveStep, SenderIn

\* From sender to sender: the activations that are left to contexts, then no activation.
LEMMA SendersFound ==
  ASSUME NEW list, Good(pages, contexts, currentPage, list),
         NEW r, NEW s, NEW base, NEW d, Lies(pages, contexts, currentPage, r, s, base, d)
  PROVE  /\ \A n \in Nat : n < d => Above[n] = s[d - n].act
         /\ \A n \in Nat : n >= d => Above[n] \notin Acts \cup {Terminal}
<1>1. /\ BasesLie(pages, contexts, s, base) /\ ContextsLie(contexts, s, d)
      /\ Len(s) \in Nat /\ d \in Nat /\ d < Len(s) /\ s[1].act = Terminal
      /\ \A k \in 1..Len(s) : s[k].act \in Acts \cup {Terminal}
  <2>1. /\ BasesLie(pages, contexts, s, base) /\ ContextsLie(contexts, s, d)
        /\ Len(s) \in Nat \ {0} /\ d \in Nat /\ d < Len(s) /\ s[1].act = Terminal
        /\ \A k \in 1..Len(s) : s[k].act \in Acts \cup {Terminal}
    BY LiesFacts
  <2> QED BY <2>1
<1>2. DOMAIN contexts \subseteq Acts \cup {Terminal}
  BY DEF Good, Typed
<1>3. PICK last : last = SenderIn(Terminal)
  OBVIOUS
<1>4. last \notin Acts \cup {Terminal}
  <2>1. CASE Terminal \in DOMAIN contexts
    <3>1. contexts[Terminal].sender \notin Acts \cup {Terminal, Nil}
      BY <1>1, <2>1 DEF ContextsLie
    <3> QED BY <1>3, <2>1, <3>1 DEF SenderIn
  <2>2. CASE Terminal \notin DOMAIN contexts
    BY <1>3, <2>2, NamesDiffer DEF SenderIn
  <2> QED BY <2>1, <2>2
<1>5. Nil \notin Acts \cup {Terminal} /\ SenderIn(Nil) = Nil /\ SenderIn(last) = Nil
  BY <1>2, <1>4, NamesDiffer DEF SenderIn
<1>6. \A k \in 1..d : k > 1 => SenderIn(s[k].act) = s[k - 1].act
  BY <1>1 DEF ContextsLie, SenderIn
<1>7. stackFrames[1].act = s[d + 1].act
  <2>1. PICK g : g = FramesAbove(s, base, d)
    OBVIOUS
  <2>2. \A j \in 1..(Len(s) - d) : g[j].act = s[d + j].act
    BY <2>1, FramesHold
  <2>3. 1 \in 1..(Len(s) - d)
    BY <1>1
  <2>4. stackFrames = g
    BY <2>1, FramesVisited
  <2> QED BY <2>2, <2>3, <2>4
<1>8. SenderIn(s[d + 1].act) = IF d = 0 THEN last ELSE s[d].act
  <2>1. CASE d = 0
    BY <1>1, <1>3, <2>1
  <2>2. CASE d # 0
    <3>1. Len(list) \in Nat \ {0} /\ \A n \in 1..Len(list) : list[n] \in Pages /\ Size(pages, list[n]) >= 1
      BY Facts
    <3>2. Len(list) \in 1..Len(list)
      BY <3>1
    <3>3. PICK p \in Pages : p = list[Len(list)] /\ Size(pages, p) >= 1
      BY <3>1, <3>2
    <3>4. base[p] = d
      BY <3>3, PagesJoin
    <3>5. d >= 1
      BY <1>1, <2>2
    <3>6. Act(pages, p, 1) \in DOMAIN contexts /\ contexts[Act(pages, p, 1)].sender = s[d].act
      BY <1>1, <3>3, <3>4, <3>5 DEF BasesLie
    <3>7. Act(pages, p, 1) = s[d + 1].act
      <4>1. Shaped(s) /\ FramesLie(pages, s, base, d) /\ Size(pages, p) \in Nat
        BY LiesFacts, Facts
      <4>2. 1 \in 1..Size(pages, p)
        BY <3>3, <4>1
      <4>3. PICK k \in 1..Len(s) : Holds(pages, s, base, d, p, 1, k)
        BY <1>1, <4>1, <4>2, FrameAt
      <4>4. k = d + 1 /\ s[k].act = Act(pages, p, 1)
        BY <3>4, <4>3 DEF Holds
      <4> QED BY <4>4
    <3> QED BY <2>2, <3>6, <3>7 DEF SenderIn
  <2> QED BY <2>1, <2>2
<1> DEFINE w == [n \in Nat |-> IF n < d THEN s[d - n].act ELSE IF n = d THEN last ELSE Nil]
<1>9. \A n \in Nat : w[n] = IF n < d THEN s[d - n].act ELSE IF n = d THEN last ELSE Nil
  OBVIOUS
<1>10. w = [n \in Nat |-> w[n]]
  OBVIOUS
<1> HIDE DEF w
<1>11. ASSUME NEW n \in Nat PROVE w[n] = AboveStep(w, n)
  <2>1. CASE n = 0
    <3>1. w[0] = IF d = 0 THEN last ELSE s[d].act
      BY <1>1, <1>9
    <3>2. AboveStep(w, 0) = SenderIn(s[d + 1].act)
      BY <1>7 DEF AboveStep
    <3> QED BY <1>8, <2>1, <3>1, <3>2
  <2>2. CASE n # 0
    <3>1. PICK m \in Nat : m = n - 1 /\ n = m + 1
      BY <2>2
    <3>2. AboveStep(w, n) = SenderIn(w[m])
      BY <2>2, <3>1 DEF AboveStep
    <3>3. CASE n < d
      <4>1. PICK k \in 1..d : k = d - m /\ k > 1 /\ k - 1 = d - n
        BY <1>1, <3>1, <3>3
      <4>2. w[m] = s[k].act /\ w[n] = s[k - 1].act
        <5>1. m < d
          BY <1>1, <3>1, <3>3
        <5>2. w[m] = s[d - m].act /\ w[n] = s[d - n].act
          BY <1>9, <3>3, <5>1
        <5> QED BY <4>1, <5>2, Zenon
      <4> QED BY <1>6, <3>2, <4>1, <4>2
    <3>4. CASE n = d
      <4>1. d - m = 1 /\ m < d
        BY <1>1, <3>1, <3>4
      <4>2. w[m] = Terminal /\ w[n] = last
        BY <1>1, <1>9, <3>4, <4>1
      <4> QED BY <1>3, <3>2, <4>2
    <3>5. CASE n > d
      <4>1. m >= d /\ m \in Nat
        BY <1>1, <3>1, <3>5
      <4>2. w[n] = Nil /\ (w[m] = last \/ w[m] = Nil)
        BY <1>1, <1>9, <3>5, <4>1
      <4> QED BY <1>5, <3>2, <4>2
    <3> QED BY <1>1, <3>3, <3>4, <3>5
  <2> QED BY <2>1, <2>2
<1>12. w = [n \in Nat |-> AboveStep(w, n)]
  BY <1>10, <1>11, Zenon
<1>13. PICK f : f = Above
  OBVIOUS
<1>14. \A n \in Nat : f[n] = AboveStep(f, n)
  <2>1. f = [n \in Nat |-> AboveStep(f, n)]
    BY <1>12, <1>13, Zenon DEF Above
  <2>2. \A n \in Nat : [x \in Nat |-> AboveStep(f, x)][n] = AboveStep(f, n)
    OBVIOUS
  <2> QED BY <2>1, <2>2, Zenon
<1>15. \A n \in Nat : f[n] = w[n]
  <2>1. f[0] = w[0]
    BY <1>11, <1>14 DEF AboveStep
  <2>2. ASSUME NEW n \in Nat, f[n] = w[n] PROVE f[n + 1] = w[n + 1]
    <3>1. n + 1 \in Nat /\ n + 1 # 0 /\ (n + 1) - 1 = n
      OBVIOUS
    <3>2. AboveStep(f, n + 1) = AboveStep(w, n + 1)
      BY <2>2, <3>1 DEF AboveStep
    <3> QED BY <1>11, <1>14, <3>1, <3>2
  <2> QED BY <2>1, <2>2, Upward
<1>16. \A n \in Nat : n < d => Above[n] = s[d - n].act
  BY <1>9, <1>13, <1>15
<1>17. \A n \in Nat : n >= d => Above[n] \notin Acts \cup {Terminal}
  <2>1. \A n \in Nat : n >= d => w[n] = last \/ w[n] = Nil
    BY <1>1, <1>9
  <2> QED BY <1>4, <1>5, <1>13, <1>15, <2>1
<1> QED BY <1>16, <1>17

\* The contexts that are divorced hold the first d activations.
LEMMA DivorcedFound ==
  ASSUME IsFiniteSet(Acts), NEW list, Good(pages, contexts, currentPage, list),
         NEW r, NEW s, NEW base, NEW d, Lies(pages, contexts, currentPage, r, s, base, d)
  PROVE  divorcedContexts = SubSeq(s, 1, d)
<1>1. /\ Shaped(s) /\ ContextsLie(contexts, s, d) /\ s \in Seq(Activations)
      /\ Len(s) \in Nat /\ d \in Nat /\ d < Len(s)
      /\ \A k \in 1..Len(s) : s[k] \in Activations /\ s[k].act \in Acts \cup {Terminal}
  <2>1. /\ Shaped(s) /\ ContextsLie(contexts, s, d) /\ s \in Seq(Activations)
        /\ Len(s) \in Nat \ {0} /\ d \in Nat /\ d < Len(s)
        /\ \A k \in 1..Len(s) : s[k] \in Activations /\ s[k].act \in Acts \cup {Terminal}
    BY LiesFacts
  <2> QED BY <2>1
<1>2. Cardinality(Acts) \in Nat /\ d <= Cardinality(Acts)
  <2>1. Cardinality(Acts) \in Nat /\ Len(s) <= Cardinality(Acts) + 1
    BY <1>1, StackIsBounded
  <2> QED BY <1>1, <2>1
<1>3. /\ \A n \in Nat : n < d => Above[n] = s[d - n].act
      /\ \A n \in Nat : n >= d => Above[n] \notin Acts \cup {Terminal}
  BY SendersFound
<1>4. \A n \in Nat : n >= d => \A u : UpToStep(u, n) = << >>
  BY <1>3 DEF UpToStep
<1>5. ASSUME NEW n \in Nat, n < d, NEW u
      PROVE  UpToStep(u, n) = u[n + 1] \o <<s[d - n]>>
  <2>1. PICK k \in 1..d : k = d - n
    BY <1>1, <1>5
  <2>2. k \in 1..Len(s)
    BY <1>1
  <2>3. Above[n] = s[k].act /\ s[k].act \in Acts \cup {Terminal} /\ s[k] \in Activations
    BY <1>1, <1>3, <1>5, <2>1, <2>2
  <2>4. contexts[s[k].act].pc = s[k].pc /\ contexts[s[k].act].data = s[k].data
    BY <1>1 DEF ContextsLie
  <2>5. s[k] = [act |-> s[k].act, pc |-> s[k].pc, data |-> s[k].data]
    BY <2>3 DEF Activations
  <2>6. ~(n > Cardinality(Acts))
    BY <1>1, <1>2, <1>5
  <2>7. UpToStep(u, n) = u[n + 1] \o <<[act |-> Above[n], pc |-> contexts[Above[n]].pc, data |-> contexts[Above[n]].data]>>
    BY <2>3, <2>6 DEF UpToStep
  <2>8. [act |-> Above[n], pc |-> contexts[Above[n]].pc, data |-> contexts[Above[n]].data] = s[k]
    BY <2>3, <2>4, <2>5, Zenon
  <2> QED BY <2>1, <2>7, <2>8, Zenon
<1> DEFINE v == [n \in Nat |-> IF n <= d THEN SubSeq(s, 1, d - n) ELSE << >>]
<1>6. \A n \in Nat : v[n] = IF n <= d THEN SubSeq(s, 1, d - n) ELSE << >>
  OBVIOUS
<1>7. v = [n \in Nat |-> v[n]]
  OBVIOUS
<1> HIDE DEF v
<1>8. ASSUME NEW n \in Nat PROVE v[n] = UpToStep(v, n)
  <2>1. CASE n < d
    <3>1. PICK k \in Nat : k = d - n /\ k \in 1..Len(s) /\ k >= 1
      BY <1>1, <2>1
    <3>2. PICK j \in Nat : j = k - 1 /\ k = j + 1 /\ j = d - (n + 1)
      BY <1>1, <3>1
    <3>3. n + 1 \in Nat /\ n + 1 <= d /\ n <= d
      BY <1>1, <2>1
    <3>4. v[n + 1] = SubSeq(s, 1, j) /\ v[n] = SubSeq(s, 1, k)
      BY <1>6, <3>1, <3>2, <3>3
    <3>5. SubSeq(s, 1, k) = SubSeq(s, 1, j) \o <<s[k]>>
      <4>1. 1 \in 1..Len(s) /\ k \in 1..Len(s)
        BY <3>1
      <4>2. SubSeq(s, 1, k) = SubSeq(s, 1, k - 1) \o <<s[k]>>
        <5>1. k \in 1..Len(s) /\ 1 <= k
          BY <3>1
        <5> QED BY <1>1, <4>1, <5>1, SubSeqRecursiveSecond
      <4> QED BY <3>2, <4>2
    <3>6. UpToStep(v, n) = v[n + 1] \o <<s[d - n]>>
      BY <1>5, <2>1
    <3> QED BY <3>1, <3>4, <3>5, <3>6
  <2>2. CASE n = d
    <3>1. v[n] = SubSeq(s, 1, 0)
      <4>1. n <= d /\ d - n = 0
        BY <1>1, <2>2
      <4>2. v[n] = SubSeq(s, 1, d - n)
        BY <1>6, <4>1
      <4> QED BY <4>1, <4>2, Zenon
    <3>2. SubSeq(s, 1, 0) = << >>
      BY SubSeqEmpty
    <3>3. UpToStep(v, n) = << >>
      BY <1>1, <1>4, <2>2
    <3> QED BY <3>1, <3>2, <3>3
  <2>3. CASE n > d
    <3>1. v[n] = << >>
      BY <1>1, <1>6, <2>3
    <3>2. UpToStep(v, n) = << >>
      BY <1>1, <1>4, <2>3
    <3> QED BY <3>1, <3>2
  <2> QED BY <1>1, <2>1, <2>2, <2>3
<1>9. v = [n \in Nat |-> UpToStep(v, n)]
  BY <1>7, <1>8, Zenon
<1>10. PICK u : u = (CHOOSE x : x = [n \in Nat |-> UpToStep(x, n)])
  OBVIOUS
<1>11. \A n \in Nat : u[n] = UpToStep(u, n)
  <2>1. u = [n \in Nat |-> UpToStep(u, n)]
    BY <1>9, <1>10, Zenon
  <2>2. \A n \in Nat : [x \in Nat |-> UpToStep(u, x)][n] = UpToStep(u, n)
    OBVIOUS
  <2> QED BY <2>1, <2>2, Zenon
<1>12. u[0] = v[0]
  <2>1. u[d] = v[d]
    BY <1>1, <1>4, <1>8, <1>11
  <2>2. ASSUME NEW n \in 0..d, n < d, u[n + 1] = v[n + 1] PROVE u[n] = v[n]
    <3>1. n \in Nat
      BY <1>1
    <3>2. UpToStep(u, n) = u[n + 1] \o <<s[d - n]>> /\ UpToStep(v, n) = v[n + 1] \o <<s[d - n]>>
      BY <1>5, <2>2, <3>1
    <3> QED BY <1>8, <1>11, <2>2, <3>1, <3>2
  <2> QED BY <1>1, <2>1, <2>2, Downward
<1>13. v[0] = SubSeq(s, 1, d)
  <2>1. 0 <= d /\ d - 0 = d
    BY <1>1
  <2>2. v[0] = SubSeq(s, 1, d - 0)
    BY <1>6, <2>1
  <2> QED BY <2>1, <2>2, Zenon
<1> QED BY <1>10, <1>12, <1>13, DivorcedWalk

TheStack == divorcedContexts \o ActivationsOf(stackFrames)

\* The refinement mapping: what the walks find is the stack that the memory holds.
LEMMA StackIsFound ==
  ASSUME IsFiniteSet(Acts), StackInv, NEW s, Represents(s)
  PROVE  TheStack = s
<1>1. PICK list : Good(pages, contexts, currentPage, list)
  BY DEF StackInv
<1>2. PICK base, d : Lies(pages, contexts, currentPage, pc, s, base, d)
  BY DEF Represents
<1>3. /\ s \in Seq(Activations) /\ Len(s) \in Nat /\ d \in Nat /\ d < Len(s) /\ s[Len(s)].pc = pc
      /\ \A k \in 1..Len(s) : s[k] \in Activations
  <2>1. /\ s \in Seq(Activations) /\ Len(s) \in Nat \ {0} /\ d \in Nat /\ d < Len(s) /\ s[Len(s)].pc = pc
        /\ \A k \in 1..Len(s) : s[k] \in Activations
    BY <1>2, LiesFacts
  <2> QED BY <2>1
<1>4. PICK g, tall : g = FramesAbove(s, base, d) /\ tall \in Nat /\ tall = Len(s) - d
  <2>1. Len(s) - d \in Nat
    BY <1>3
  <2> QED BY <2>1
<1>5. /\ Len(g) = tall
      /\ \A j \in 1..tall : /\ g[j].act = s[d + j].act /\ g[j].data = s[d + j].data
                            /\ d + j > 1 => g[j].ret = s[d + j - 1].pc
  BY <1>1, <1>2, <1>4, FramesHold
<1>6. PICK acts : acts = ActivationsOf(g)
  OBVIOUS
<1>7. ASSUME NEW j \in 1..tall PROVE acts[j] = s[d + j] /\ acts[j] \in Activations
  <2>1. PICK k \in 1..Len(s) : k = d + j
    BY <1>3, <1>4
  <2>2. s[k] = [act |-> s[k].act, pc |-> s[k].pc, data |-> s[k].data]
    BY <1>3 DEF Activations
  <2>3. (IF j = tall THEN pc ELSE g[j + 1].ret) = s[k].pc
    <3>1. CASE j = tall
      <4>1. k = Len(s)
        BY <1>3, <1>4, <2>1, <3>1
      <4> QED BY <1>3, <3>1, <4>1
    <3>2. CASE j # tall
      <4>1. PICK i \in 1..tall : i = j + 1 /\ d + i > 1 /\ d + i - 1 = k
        BY <1>3, <1>4, <2>1, <3>2
      <4>2. g[i].ret = s[d + i - 1].pc
        BY <1>5, <4>1
      <4>3. g[i].ret = s[k].pc
        BY <4>1, <4>2, Zenon
      <4> QED BY <3>2, <4>1, <4>3, Zenon
    <3> QED BY <3>1, <3>2
  <2>4. acts[j] = [act |-> g[j].act, pc |-> IF j = tall THEN pc ELSE g[j + 1].ret, data |-> g[j].data]
    BY <1>5, <1>6 DEF ActivationsOf
  <2>5. g[j].act = s[k].act /\ g[j].data = s[k].data
    BY <1>5, <2>1
  <2>6. acts[j] = s[k]
    BY <2>2, <2>3, <2>4, <2>5, Zenon
  <2> QED BY <1>3, <2>1, <2>6
<1>8. acts \in Seq(Activations) /\ Len(acts) = tall
  <2>1. /\ acts = [j \in 1..tall |-> acts[j]]
    BY <1>5, <1>6 DEF ActivationsOf
  <2>2. acts \in [1..tall -> Activations]
    BY <1>7, <2>1
  <2> QED BY <1>4, <2>2
<1>9. SubSeq(s, 1, d) \o acts = SubSeq(s, 1, d + tall)
  <2>1. d + tall <= Len(s)
    BY <1>3, <1>4
  <2> QED BY <1>3, <1>7, <1>8, <2>1, CutJoined
<1>10. SubSeq(s, 1, d + tall) = s
  <2>1. d + tall = Len(s)
    BY <1>3, <1>4
  <2>2. SubSeq(s, 1, Len(s)) = s
    BY <1>3, SubSeqFull
  <2> QED BY <2>1, <2>2
<1>11. divorcedContexts = SubSeq(s, 1, d)
  BY <1>1, <1>2, DivorcedFound
<1>12. stackFrames = g
  BY <1>1, <1>2, <1>4, FramesVisited
<1> QED BY <1>6, <1>9, <1>10, <1>11, <1>12 DEF TheStack

(***************************************************************************)
(* The memory implements CallStack.                                        *)
(***************************************************************************)
Refined == Full /\ \E s : Represents(s)

Mapped == \A s : Represents(s) => TheStack = s

\* The refinement mapping finds the stack that the memory holds.
LEMMA MappingHolds == ASSUME IsFiniteSet(Acts) PROVE StackInv => Mapped
BY StackIsFound DEF Mapped

\* At first the memory maps to an initial stack.
LEMMA InitAbstract ==
  ASSUME Init, Mapped
  PROVE  Refined /\ Abstract!Init
<1>1. PICK s : s = <<[act |-> Terminal, pc |-> EndPc, data |-> Fresh]>>
  OBVIOUS
<1>2. Full /\ Represents(s)
  BY <1>1, InitRefines
<1>3. TheStack = s
  BY <1>2 DEF Mapped
<1>4. divorcedContexts \o ActivationsOf(stackFrames) = <<Abstract!Activation(Terminal, Abstract!EndPc, Abstract!Fresh)>>
  BY <1>1, <1>3 DEF TheStack, Abstract!Activation, Abstract!EndPc, Abstract!Fresh, EndPc, Fresh
<1>5. deep = FALSE /\ aborted = FALSE
  BY DEF Init
<1> QED BY <1>2, <1>4, <1>5 DEF Refined, Abstract!Init

\* A step from the stack s to the stack t.
LEMMA NextAbstract ==
  ASSUME StackInv, Refined, Mapped, Mapped', [Next]_vars
  PROVE  Refined' /\ (Abstract!Next \/ UNCHANGED <<TheStack, deep, aborted>>)
<1>1. PICK s : Full /\ Represents(s)
  BY DEF Refined
<1>2. TheStack = s
  BY <1>1 DEF Mapped
<1>3. \A t : Represents(t)' => TheStack' = t
  BY DEF Mapped
<1>4. s \in Seq(Activations) /\ Len(s) \in Nat /\ DOMAIN s = 1..Len(s)
  <2>1. PICK base, d : Lies(pages, contexts, currentPage, pc, s, base, d)
    BY <1>1 DEF Represents
  <2>2. s \in Seq(Activations)
    BY <2>1, LiesFacts
  <2> QED BY <2>2
<1> DEFINE stack == divorcedContexts \o ActivationsOf(stackFrames)
<1>5. stack = s /\ \A t : Represents(t)' => stack' = t
  BY <1>2, <1>3 DEF TheStack
<1>6. ASSUME NEW w \in FrameWords, Call(w) PROVE Refined' /\ Abstract!Next
  <2>1. PICK a, t : /\ a \in Acts /\ (\A k \in 1..Len(s) : s[k].act # a)
                    /\ t = Append(s, [act |-> a, pc |-> FirstPc, data |-> Fresh])
                    /\ Represents(t)' /\ Full' /\ deep' = (deep \/ Len(t) > StackPageCount * PageDepth)
    BY <1>1, <1>6, CallRefines
  <2>2. stack' = t
    BY <1>5, <2>1
  <2>3. ~aborted /\ aborted' = aborted
    BY <1>6 DEF Call
  <2>4. Abstract!Call(a)
    <3>1. \A k \in DOMAIN stack : stack[k].act # a
      BY <1>4, <1>5, <2>1
    <3>2. stack' = Append(stack, Abstract!Activation(a, Abstract!FirstPc, Abstract!Fresh))
      BY <1>5, <2>1, <2>2 DEF Abstract!Activation, Abstract!FirstPc, Abstract!Fresh, FirstPc, Fresh
    <3>3. deep' = (deep \/ Len(stack') > StackPageCount * ((PageWords - OverflowWords) \div OverflowWords))
      BY <2>1, <2>2 DEF PageDepth
    <3> QED BY <2>3, <3>1, <3>2, <3>3, Zenon DEF Abstract!Call
  <2>5. Abstract!Next
    BY <2>1, <2>3, <2>4, Zenon DEF Abstract!Next
  <2> QED BY <2>1, <2>5 DEF Refined
<1>7. ASSUME localReturnValue \/ baseReturnValue PROVE Refined' /\ Abstract!Next
  <2>1. PICK t : t = SubSeq(s, 1, Len(s) - 1)
    OBVIOUS
  <2>2. Len(s) > 1 /\ Represents(t)' /\ Full'
    BY <1>1, <1>7, <2>1, LocalReturnRefines, BaseReturnRefines
  <2>3. ~aborted /\ aborted' = aborted /\ deep' = deep
    BY <1>7 DEF localReturnValue, baseReturnValue
  <2>4. stack' = t
    BY <1>5, <2>2
  <2>5. Abstract!Return
    <3>1. Len(stack) > 1 /\ stack' = SubSeq(stack, 1, Len(stack) - 1)
      BY <1>5, <2>1, <2>2, <2>4
    <3> QED BY <2>3, <3>1 DEF Abstract!Return
  <2>6. Abstract!Next
    BY <2>3, <2>5, Zenon DEF Abstract!Next
  <2> QED BY <2>2, <2>6 DEF Refined
<1>8. ASSUME makeBaseFrame PROVE Refined' /\ Abstract!Next
  <2>1. Len(s) > 1 /\ deep
    BY <1>1, <1>8, AbortRefines
  <2>2. UNCHANGED <<pages, contexts, currentPage, pc, deep>> /\ ~aborted /\ aborted' = TRUE
    BY <1>8 DEF makeBaseFrame
  <2>3. Represents(s)' /\ Full'
    BY <1>1, <2>2, NothingRefines
  <2>4. stack' = stack
    BY <1>5, <2>3
  <2>5. Abstract!Stop
    <3>1. Len(stack) > 1
      BY <1>5, <2>1
    <3> QED BY <2>1, <2>2, <2>4, <3>1 DEF Abstract!Stop
  <2>6. Abstract!Next
    BY <2>2, <2>5, Zenon DEF Abstract!Next
  <2> QED BY <2>3, <2>6 DEF Refined
<1>9. ASSUME NEW r \in Pcs, NEW e \in Values, Step(r, e) PROVE Refined' /\ Abstract!Next
  <2>1. PICK t : t = Moved(s, r, e)
    OBVIOUS
  <2>2. Len(s) > 1 /\ Full' /\ Represents(t)'
    BY <1>1, <1>9, <2>1, StepRefines
  <2>3. stack' = t
    BY <1>5, <2>2
  <2>4. ~aborted /\ aborted' = aborted /\ deep' = deep
    BY <1>9 DEF Step
  <2>5. Abstract!Step(r, e)
    <3>1. Len(stack) > 1
      BY <1>5, <2>2
    <3>2. stack' = [stack EXCEPT ![Len(stack)] = Abstract!Activation(@.act, r, e)]
      BY <1>5, <2>1, <2>3 DEF Moved, Abstract!Activation
    <3> QED BY <2>4, <3>1, <3>2 DEF Abstract!Step
  <2>6. Abstract!Next
    BY <2>4, <2>5, Zenon DEF Abstract!Next
  <2> QED BY <2>2, <2>6 DEF Refined
<1>10. ASSUME PushThisContext \/ (\E a \in DOMAIN contexts : pushLongReceiverVariable(a))
       PROVE  Refined' /\ UNCHANGED <<TheStack, deep, aborted>>
  <2>1. Adjusted(pages, contexts, contexts')
    BY <1>10, PushStep, SenderStep
  <2>2. UNCHANGED <<pages, currentPage, pc, deep, aborted>>
    BY <1>10 DEF PushThisContext, pushLongReceiverVariable
  <2>3. Represents(s)' /\ Full'
    BY <1>1, <2>1, <2>2, MarriageRefines
  <2> QED BY <1>2, <1>3, <2>2, <2>3 DEF Refined
<1>11. ASSUME UNCHANGED vars PROVE Refined' /\ UNCHANGED <<TheStack, deep, aborted>>
  <2>1. UNCHANGED <<pages, contexts, currentPage, pc, deep, aborted>>
    BY <1>11 DEF vars
  <2>2. Represents(s)' /\ Full'
    BY <1>1, <2>1, NothingRefines
  <2> QED BY <1>2, <1>3, <2>1, <2>2 DEF Refined
<1> QED BY <1>6, <1>7, <1>8, <1>9, <1>10, <1>11, Zenon DEF Next

\* The pages and contexts implement one stack of activations: each call,
\* return, overflow, divorce and marriage of a frame is a step of CallStack or
\* changes nothing the program sees, and the process aborts only in a program
\* that has been deeper than the pool.
THEOREM PagesImplementCallStack == ASSUME IsFiniteSet(Acts) PROVE Spec => CallStackSpec
<1>1. Init => StackInv /\ Mapped /\ Refined /\ Abstract!Init
  BY InitStack, MappingHolds, InitAbstract
<1>2. StackInv => Mapped
  BY MappingHolds
<1>3. StackInv /\ [Next]_vars => StackInv'
  BY NextStack
<1>4. StackInv /\ Refined /\ Mapped /\ Mapped' /\ [Next]_vars
        => Refined' /\ [Abstract!Next]_<<divorcedContexts \o ActivationsOf(stackFrames), deep, aborted>>
  BY NextAbstract DEF TheStack
<1> QED BY <1>1, <1>2, <1>3, <1>4, PTL DEF Spec, CallStackSpec, Abstract!Spec
=============================================================================
