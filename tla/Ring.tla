-------------------------------- MODULE Ring --------------------------------
(***************************************************************************)
(* A ring of Size slots, as the index queues have it: indices that start   *)
(* over at Size.                                                           *)
(***************************************************************************)
EXTENDS Integers

CONSTANT Size            \* number of slots

ASSUME SizeAssumption == Size \in Nat /\ Size >= 1

Slots == 0 .. Size - 1

\* The index after i.
Next1(i) == IF i + 1 = Size THEN 0 ELSE i + 1

\* Steps from slot a forward to slot b.
Dist(a, b) == IF b >= a THEN b - a ELSE b - a + Size
=============================================================================
