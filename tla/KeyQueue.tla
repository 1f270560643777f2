------------------------------ MODULE KeyQueue -------------------------------
(***************************************************************************)
(* What the keyboard buffer promises: a bounded FIFO of characters.  A key *)
(* is queued if there is room and lost otherwise; a reader gets the oldest *)
(* character.                                                              *)
(***************************************************************************)
EXTENDS Integers, Sequences

CONSTANTS Chars, Capacity

VARIABLES
  q,      \* characters typed and not read
  out,    \* characters read, in order
  lost    \* number of characters lost

vars == <<q, out, lost>>

Init == q = <<>> /\ out = <<>> /\ lost = 0

Put(c) == Len(q) < Capacity /\ q' = Append(q, c) /\ UNCHANGED <<out, lost>>

Lose == Len(q) = Capacity /\ lost' = lost + 1 /\ UNCHANGED <<q, out>>

Get == q # <<>> /\ out' = Append(out, Head(q)) /\ q' = Tail(q) /\ UNCHANGED lost

Next == (\E c \in Chars : Put(c)) \/ Lose \/ Get

Spec == Init /\ [][Next]_vars
=============================================================================
