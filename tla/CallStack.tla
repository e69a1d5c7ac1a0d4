----------------------------- MODULE CallStack -----------------------------
(***************************************************************************)
(* What the stack memory promises to the interpreter: one stack of         *)
(* activations of any depth.  A return resumes the caller at the pc and    *)
(* with the temporaries it had when it called, whatever happened meanwhile *)
(* to the memory its frame was in.  The machine may stop at a return, but  *)
(* only for a program that has been deeper than Capacity activations.      *)
(***************************************************************************)
EXTENDS Integers, Sequences

CONSTANTS
  Acts,      \* names of the activations the program makes
  Terminal,  \* the activation of no method, at the bottom
  Pcs,       \* where in its method an activation can be
  Values,    \* what its temporaries and operands can be
  Capacity   \* depth up to which nothing is ever stopped

VARIABLES
  stack,     \* the activations, the oldest one first
  deep,      \* the stack has been deeper than Capacity
  stopped    \* the machine has aborted

EndPc   == 0  \* pc of the terminal activation: nothing to execute
FirstPc == 1
Fresh   == 0  \* temporaries of a new activation

Activation(a, pc, data) == [act |-> a, pc |-> pc, data |-> data]

Top == stack[Len(stack)]

Init ==
  /\ stack = <<Activation(Terminal, EndPc, Fresh)>>
  /\ deep = FALSE /\ stopped = FALSE

\* The running activation executes instructions of its own.
Step(r, d) ==
  /\ Len(stack) > 1
  /\ stack' = [stack EXCEPT ![Len(stack)] = Activation(@.act, r, d)]
  /\ UNCHANGED <<deep, stopped>>

Call(a) ==
  /\ \A i \in DOMAIN stack : stack[i].act # a
  /\ stack' = Append(stack, Activation(a, FirstPc, Fresh))
  /\ deep' = (deep \/ Len(stack') > Capacity)
  /\ UNCHANGED stopped

Return ==
  /\ Len(stack) > 1
  /\ stack' = SubSeq(stack, 1, Len(stack) - 1)
  /\ UNCHANGED <<deep, stopped>>

Stop ==
  /\ Len(stack) > 1 /\ deep
  /\ stopped' = TRUE
  /\ UNCHANGED <<stack, deep>>

Next ==
  /\ ~stopped
  /\ \/ \E r \in Pcs, d \in Values : Step(r, d)
     \/ \E a \in Acts : Call(a)
     \/ Return
     \/ Stop

Spec == Init /\ [][Next]_<<stack, deep, stopped>>
=============================================================================
