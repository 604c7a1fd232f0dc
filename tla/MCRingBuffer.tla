----------------------------- MODULE MCRingBuffer -----------------------------
(* Instances of RingBuffer for TLC. *)
EXTENDS RingBuffer

Variant(masked, cached, ops, steady) ==
  [masked |-> masked, cached |-> cached, ops |-> ops, steady |-> steady]

\* Each variant with the operations that may be mixed in it, and with clients
\* that give up as with clients that do not.
SoundVariants ==
  UNION {{Variant(TRUE, TRUE, {"consume"}, steady),
          Variant(TRUE, FALSE, {"consume", "consume_all"}, steady),
          Variant(FALSE, TRUE, {"consume"}, steady),
          Variant(FALSE, FALSE, {"consume"}, steady)} : steady \in BOOLEAN}

\* consume_all with offsets.
DrainedVariants == {Variant(FALSE, FALSE, {"consume_all"}, TRUE)}
=============================================================================
