---------------------------- MODULE BoundedFifo ----------------------------
(***************************************************************************)
(* What every queue of this repository promises its two clients: a bounded *)
(* first-in first-out sequence.  The producer appends one or more elements *)
(* in one visible step, the consumer takes the oldest one, and nothing is  *)
(* lost, repeated or reordered in between.                                 *)
(***************************************************************************)
EXTENDS Integers, Sequences

CONSTANTS Elem,      \* what can be queued
          Capacity   \* most elements the queue holds at once

VARIABLES queue,     \* published and not yet taken, oldest first
          out,       \* the element the consumer was handed last
          life       \* flips whenever the whole content is replaced

vars == <<queue, out, life>>

TypeOK == queue \in Seq(Elem) /\ Len(queue) <= Capacity

Init == TypeOK /\ life \in BOOLEAN

\* A batch becomes visible behind everything that is already queued.
Enqueue == /\ queue' \in Seq(Elem)
           /\ Len(queue') \in Len(queue) .. Capacity
           /\ SubSeq(queue', 1, Len(queue)) = queue
           /\ UNCHANGED <<out, life>>

\* The oldest element goes to the consumer.
Dequeue == /\ queue # <<>>
           /\ out' = Head(queue)
           /\ queue' = Tail(queue)
           /\ UNCHANGED life

\* Construction, assignment and destruction replace the content; they are
\* not concurrent with either client.
Replace == TypeOK' /\ life' = ~life /\ UNCHANGED out

Next == Enqueue \/ Dequeue \/ Replace

Spec == Init /\ [][Next]_vars
=============================================================================
