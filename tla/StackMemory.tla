----------------------------- MODULE StackMemory -----------------------------
(***************************************************************************)
(* vm/StackMemory.cpp with the calls and returns of vm/StackInterpreter:   *)
(* activations live as frames in a fixed pool of stack pages.  When a page *)
(* overflows, the new frame moves to another page and is linked to its     *)
(* caller by contexts: objects that a frame is married to.  When no page   *)
(* is free, all frames of the least used page are divorced: what they hold *)
(* is left to their contexts alone and the page is taken.                  *)
(*                                                                         *)
(* A frame is named by its page and its position in the page, and the      *)
(* words from its operands to its receiver are counted, not their values:  *)
(* the temporaries and operands of an activation are one value.            *)
(***************************************************************************)
EXTENDS Integers, Sequences, FiniteSets

CONSTANTS
  StackPageCount,   \* pages of the pool
  PageWords,        \* words of a page
  OverflowWords,    \* words below which a page has overflowed (overflowLimit)
  FrameWords,       \* sizes of the frames
  TerminalWords,    \* size of the terminal frame
  Acts,             \* activations (and the contexts they may be married to)
  Terminal,         \* the activation of the terminal frame
  Pcs,              \* return addresses
  Values,           \* temporaries and operands of an activation
  Nil, NoPage

\* A frame fits in the reserve under the overflow limit, and two frames fit in
\* a page above it: methods have at most LargeContextSlots arguments and temporaries.
ASSUME StackAssumption ==
  /\ StackPageCount \in Nat /\ StackPageCount >= 2
  /\ PageWords \in Nat /\ OverflowWords \in Nat
  /\ FrameWords \subseteq 1..OverflowWords
  /\ TerminalWords \in 1..OverflowWords
  /\ \A v, w \in FrameWords \cup {TerminalWords} : v + w + OverflowWords <= PageWords
  /\ Terminal \notin Acts /\ Nil \notin Acts \cup {Terminal}
  /\ NoPage \notin 1..StackPageCount
  /\ \A a \in Acts \cup {Terminal, Nil} : a \notin (1..StackPageCount) \X (1..PageWords)
  /\ Pcs \subseteq Nat \ {0} /\ 1 \in Pcs
  /\ Values \subseteq Nat /\ 0 \in Values

VARIABLES
  pages,        \* page -> frames in it, headFrame, its neighbours in the list
  freePages,    \* the pages that are free, the last one is taken first
  currentPage,  \* the page of the running frame, which is its last one
  contexts,     \* activation -> the context it is or was married to
  pc,           \* the instruction pointer of the interpreter
  aborted,      \* the process has aborted
  deep          \* history: the stack has been deeper than the pool can ever need

vars == <<pages, freePages, currentPage, contexts, pc, aborted, deep>>

Pages   == 1..StackPageCount
EndPc   == 0
FirstPc == 1
Fresh   == 0
NoPc    == 0   \* what a context of a married or widowed frame has as pc

(***************************************************************************)
(* Frames and pages.                                                       *)
(***************************************************************************)
Frame(a, ret, data, words) == [act |-> a, ret |-> ret, data |-> data, words |-> words]

Page(frames, head, prev, next) == [frames |-> frames, head |-> head, prev |-> prev, next |-> next]

FreePage == Page(<< >>, 0, NoPage, NoPage)

inUse(p) == pages[p].frames # << >>

top     == Len(pages[currentPage].frames)
Current == pages[currentPage].frames[top]

\* Words of the first n of the frames.
Words(frames) ==
  LET w[n \in 0..Len(frames)] == IF n = 0 THEN 0 ELSE w[n - 1] + frames[n].words
  IN w[Len(frames)]

(***************************************************************************)
(* Contexts.  The sender of a context is the frame pointer of the frame it *)
(* is married to, or the context of the caller, or nil.                    *)
(***************************************************************************)
\* Faulty variant: a context is married to the frame below its own.
FramePointerBelow(p, i) == <<p, i - 1>>

FramePointer(p, i) == <<p, i>>

isMarriedOrWidowed(c) == c.sender \in Pages \X (1..PageWords)

Context(sender, retpc, data) == [sender |-> sender, pc |-> retpc, data |-> data]

With(cs, a, c) == [b \in DOMAIN cs \cup {a} |-> IF b = a THEN c ELSE cs[b]]

marryFrame(cs, p, i) ==
  With(cs, pages[p].frames[i].act, Context(FramePointer(p, i), NoPc, Fresh))

ensureFrameIsMarried(cs, p, i) ==
  IF pages[p].frames[i].act \in DOMAIN cs THEN cs ELSE marryFrame(cs, p, i)

ensureHasUpdatedMarriedSpouse(cs, p, i) ==
  LET f == pages[p].frames[i]
  IN [ensureFrameIsMarried(cs, p, i) EXCEPT ![f.act].data = f.data]

\* Faulty variant: the widow keeps its frame pointer.
WidowKeepsFrame(cs, a) == IF a \in DOMAIN cs THEN [cs EXCEPT ![a].pc = NoPc] ELSE cs

widowContext(cs, a) ==
  IF a \in DOMAIN cs THEN [cs EXCEPT ![a] = Context(Nil, NoPc, Fresh)] ELSE cs

\* Activations that are on the stack, in a frame or in a divorced context.
Busy ==
  (UNION {{pages[p].frames[i].act : i \in DOMAIN pages[p].frames} : p \in Pages})
    \cup {a \in DOMAIN contexts : contexts[a].sender # Nil}

----------------------------------------------------------------------------
(***************************************************************************)
(* A thread gets its stack memory: a page with the terminal frame.         *)
(***************************************************************************)
Init ==
  /\ pages = [p \in Pages |-> IF p = StackPageCount
                              THEN Page(<<Frame(Terminal, EndPc, Fresh, TerminalWords)>>, 0, NoPage, NoPage)
                              ELSE FreePage]
  /\ freePages = [i \in 1..(StackPageCount - 1) |-> i]
  /\ currentPage = StackPageCount
  /\ contexts = [a \in {} |-> Nil]
  /\ pc = EndPc
  /\ aborted = FALSE /\ deep = FALSE

----------------------------------------------------------------------------
(***************************************************************************)
(* Overflow.                                                               *)
(***************************************************************************)
\* Faulty variant: the limit is the end of the page.
OverflowsAtTheEnd(frames) == Words(frames) > PageWords

\* The stack pointer is below the stack limit of the page.
Overflows(frames) == PageWords - Words(frames) < OverflowWords

\* The page at the end of the list.
LeastUsed == CHOOSE p \in Pages : inUse(p) /\ pages[p].prev = NoPage

\* Faulty variant: a context gets the address its own frame returns to.
DivorceWithOwnReturn(p) ==
  LET fs == pages[p].frames
      At(a) == CHOOSE i \in 1..pages[p].head : fs[i].act = a
      base  == ensureFrameIsMarried(contexts, p, 1)[fs[1].act]
      spouses == {fs[i].act : i \in 1..pages[p].head}
  IN [a \in DOMAIN contexts \cup spouses |->
        IF a \in spouses
        THEN Context(IF At(a) = 1 THEN base.sender ELSE fs[At(a) - 1].act, fs[At(a)].ret, fs[At(a)].data)
        ELSE contexts[a]]

\* The frames of page p leave their state to their contexts: sender, pc, data.
divorceAllFrames(p) ==
  LET fs     == pages[p].frames
      head   == pages[p].head
      nextPc == pages[pages[p].next].frames[1].ret
      At(a)  == CHOOSE i \in 1..head : fs[i].act = a
      base   == ensureFrameIsMarried(contexts, p, 1)[fs[1].act]
      Divorced(i) == Context(IF i = 1 THEN base.sender ELSE fs[i - 1].act,
                             IF i = head THEN nextPc ELSE fs[i + 1].ret,
                             fs[i].data)
      spouses == {fs[i].act : i \in 1..head}
  IN [a \in DOMAIN contexts \cup spouses |-> IF a \in spouses THEN Divorced(At(a)) ELSE contexts[a]]

\* Faulty variant: the next page keeps its link to the page.
FreedKeepsLink(ps, p) ==
  LET Unlinked(q) == [ps[q] EXCEPT !.next = IF @ = p THEN ps[p].next ELSE @]
  IN [q \in Pages |-> IF q = p THEN FreePage ELSE Unlinked(q)]

\* Page p leaves the list.
freed(ps, p) ==
  LET Unlinked(q) == [ps[q] EXCEPT !.next = IF @ = p THEN ps[p].next ELSE @,
                                   !.prev = IF @ = p THEN ps[p].prev ELSE @]
  IN [q \in Pages |-> IF q = p THEN FreePage ELSE Unlinked(q)]

\* The new frame goes to another page, and the previous frame heads this one.
stackOverflow(frame) ==
  LET previous == pages[currentPage].frames[top]
      full     == freePages = << >>
      pool     == IF full THEN <<LeastUsed>> ELSE freePages
      nextPage == pool[Len(pool)]
      left     == IF full THEN freed(pages, LeastUsed) ELSE pages
      kept     == IF full THEN divorceAllFrames(LeastUsed) ELSE contexts
  IN /\ pages' = [left EXCEPT ![currentPage].head = top, ![currentPage].next = nextPage,
                              ![nextPage] = Page(<<frame>>, 1, currentPage, NoPage)]
     /\ freePages' = SubSeq(pool, 1, Len(pool) - 1)
     /\ currentPage' = nextPage
     /\ contexts' = With(ensureHasUpdatedMarriedSpouse(kept, currentPage, top),
                         frame.act, Context(previous.act, NoPc, frame.data))

\* activateMethodFrame: a new activation is pushed on the page, or overflows it.
Call(words) ==
  LET a     == CHOOSE b \in Acts \ Busy : TRUE
      frame == Frame(a, pc, Fresh, words)
  IN /\ ~aborted
     /\ Acts \ Busy # {}
     /\ pc' = FirstPc
     /\ deep' = (deep \/ Cardinality(Busy \cup {a, Terminal})
                           > StackPageCount * ((PageWords - OverflowWords) \div OverflowWords))
     /\ IF Overflows(Append(pages[currentPage].frames, frame))
        THEN stackOverflow(frame)
        ELSE /\ pages' = [pages EXCEPT ![currentPage].frames = Append(@, frame)]
             /\ contexts' = [b \in DOMAIN contexts \ {a} |-> contexts[b]]
             /\ UNCHANGED <<freePages, currentPage>>
     /\ UNCHANGED aborted

----------------------------------------------------------------------------
(***************************************************************************)
(* Returns.                                                                *)
(***************************************************************************)
\* useNewPageFor: the page that has been returned from is free again.
useNewPageFor(fp) ==
  /\ pages' = [freed(pages, currentPage) EXCEPT ![fp[1]].frames = SubSeq(@, 1, fp[2])]
  /\ freePages' = Append(freePages, currentPage)
  /\ currentPage' = fp[1]

\* localReturnValue, to a caller on the same page.
localReturnValue ==
  /\ ~aborted
  /\ top > 1
  /\ pc' = Current.ret
  /\ contexts' = widowContext(contexts, Current.act)
  /\ pages' = [pages EXCEPT ![currentPage].frames = SubSeq(@, 1, top - 1)]
  /\ UNCHANGED <<freePages, currentPage, aborted, deep>>

SenderOfBase == contexts[Current.act].sender

\* baseReturnValue, to a caller that is still married.
baseReturnValue ==
  /\ ~aborted
  /\ top = 1 /\ Current.act # Terminal
  /\ SenderOfBase # Nil
  /\ isMarriedOrWidowed(contexts[SenderOfBase])
  /\ pc' = Current.ret
  /\ contexts' = widowContext(contexts, Current.act)
  /\ useNewPageFor(contexts[SenderOfBase].sender)
  /\ UNCHANGED <<aborted, deep>>

\* baseReturnValue, to a caller that is divorced: makeBaseFrame is not
\* implemented and the process aborts.
makeBaseFrame ==
  /\ ~aborted
  /\ top = 1 /\ Current.act # Terminal
  /\ SenderOfBase # Nil => ~isMarriedOrWidowed(contexts[SenderOfBase])
  /\ aborted' = TRUE
  /\ UNCHANGED <<pages, freePages, currentPage, contexts, pc, deep>>

----------------------------------------------------------------------------
(***************************************************************************)
(* The running method.                                                     *)
(***************************************************************************)
\* It jumps to r and leaves d in its temporaries and operands.
Step(r, d) ==
  /\ ~aborted /\ pc # EndPc
  /\ pc' = r
  /\ pages' = [pages EXCEPT ![currentPage].frames[top].data = d]
  /\ UNCHANGED <<freePages, currentPage, contexts, aborted, deep>>

\* It pushes thisContext, or creates a block.
PushThisContext ==
  /\ ~aborted /\ pc # EndPc
  /\ contexts' = ensureFrameIsMarried(contexts, currentPage, top)
  /\ UNCHANGED <<pages, freePages, currentPage, pc, aborted, deep>>

\* It reads the sender of the context of a: the frame below gets married too.
\* (The terminal context has no frame below it, and its page may be gone.)
pushLongReceiverVariable(a) ==
  /\ ~aborted /\ pc # EndPc
  /\ a # Terminal /\ isMarriedOrWidowed(contexts[a])
  /\ LET fp == contexts[a].sender
     IN /\ fp[2] > 1
        /\ contexts' = ensureFrameIsMarried(contexts, fp[1], fp[2] - 1)
  /\ UNCHANGED <<pages, freePages, currentPage, pc, aborted, deep>>

----------------------------------------------------------------------------
Next ==
  \/ \E w \in FrameWords : Call(w)
  \/ localReturnValue \/ baseReturnValue \/ makeBaseFrame
  \/ \E r \in Pcs, d \in Values : Step(r, d)
  \/ PushThisContext
  \/ \E a \in DOMAIN contexts : pushLongReceiverVariable(a)

Spec == Init /\ [][Next]_vars

----------------------------------------------------------------------------
(***************************************************************************)
(* The walk of stackFramesDo, which shows the frames to the garbage        *)
(* collector: the pages from the current one on, the frames of each from   *)
(* its head on.                                                            *)
(***************************************************************************)
\* The page n links behind the current one.
Back[n \in Nat] ==
  IF n = 0 THEN currentPage
  ELSE IF Back[n - 1] = NoPage THEN NoPage ELSE pages[Back[n - 1]].prev

HeadFrames(p) == IF p = currentPage THEN pages[p].frames ELSE SubSeq(pages[p].frames, 1, pages[p].head)

\* The frames it visits, the oldest one first.
stackFrames ==
  LET from[n \in 0..StackPageCount] ==
        IF n = StackPageCount \/ Back[n] = NoPage THEN << >> ELSE from[n + 1] \o HeadFrames(Back[n])
  IN from[0]

(***************************************************************************)
(* The stack the program sees: the contexts that are divorced, found from  *)
(* sender to sender, then the frames.                                      *)
(***************************************************************************)
divorcedContexts ==
  LET base    == stackFrames[1].act
      SenderOf(a) == IF a \in DOMAIN contexts THEN contexts[a].sender ELSE Nil
      from[n \in Nat] == IF n = 0 THEN SenderOf(base) ELSE SenderOf(from[n - 1])
      upTo[n \in Nat] ==
        IF n > Cardinality(Acts) \/ from[n] \notin Acts \cup {Terminal} THEN << >>
        ELSE upTo[n + 1] \o <<[act |-> from[n], pc |-> contexts[from[n]].pc, data |-> contexts[from[n]].data]>>
  IN upTo[0]

ActivationsOf(fs) ==
  [i \in 1..Len(fs) |-> [act |-> fs[i].act, pc |-> IF i = Len(fs) THEN pc ELSE fs[i + 1].ret,
                         data |-> fs[i].data]]

----------------------------------------------------------------------------
(***************************************************************************)
(* Properties.                                                             *)
(***************************************************************************)
Frames == [act : Acts \cup {Terminal}, ret : Pcs \cup {EndPc}, data : Values,
           words : FrameWords \cup {TerminalWords}]

\* The fields of StackMemory, StackPage, StackFrame and Context have their types.
TypeOK ==
  /\ pages \in [Pages -> [frames : Seq(Frames), head : Nat, prev : Pages \cup {NoPage},
                          next : Pages \cup {NoPage}]]
  /\ freePages \in Seq(Pages) /\ currentPage \in Pages
  /\ DOMAIN contexts \subseteq Acts \cup {Terminal}
  /\ \A a \in DOMAIN contexts :
        /\ contexts[a].sender \in (Pages \X (1..PageWords)) \cup Acts \cup {Terminal, Nil}
        /\ contexts[a].pc \in Pcs \cup {EndPc} /\ contexts[a].data \in Values
  /\ pc \in Pcs \cup {EndPc} /\ aborted \in BOOLEAN /\ deep \in BOOLEAN

\* No page is lost or used twice: the free pages are the pages that are not in
\* use, each one once, and the pages in use are one list from the current page
\* back, linked in both directions.
PoolIntact ==
  /\ \A i, j \in DOMAIN freePages : i # j => freePages[i] # freePages[j]
  /\ \A p \in Pages : inUse(p) <=> \A i \in DOMAIN freePages : freePages[i] # p
  /\ \A p \in Pages : inUse(p) => \E n \in 0..(StackPageCount - 1) : Back[n] = p
  /\ \A p \in Pages : pages[p].prev # NoPage => pages[pages[p].prev].next = p
  /\ pages[currentPage].next = NoPage

\* The check for overflow comes after the frame of a call is pushed; still that
\* frame is never written below the lowest address of the page, which is the
\* memory of another page.
NoOverrun ==
  ~aborted => \A w \in FrameWords : Words(pages[currentPage].frames) + w <= PageWords

\* A context that names a frame pointer names the frame that is married to it;
\* it never names a frame that has returned, moved or been divorced.
MarriedToTheirFrames ==
  \A a \in DOMAIN contexts \ {Terminal} : isMarriedOrWidowed(contexts[a]) =>
    LET fp == contexts[a].sender
    IN fp[2] <= Len(pages[fp[1]].frames) /\ pages[fp[1]].frames[fp[2]].act = a

\* The pages and contexts implement one stack of activations: each is resumed
\* where it called and with the temporaries it had, whichever page its frame is
\* on; the frames that the garbage collector is shown are those that are not
\* divorced; and a program that is never deep is never aborted.
Abstract ==
  INSTANCE CallStack WITH
    Capacity <- StackPageCount * ((PageWords - OverflowWords) \div OverflowWords),
    stack    <- divorcedContexts \o ActivationsOf(stackFrames),
    stopped  <- aborted

CallStackSpec == Abstract!Spec
=============================================================================
