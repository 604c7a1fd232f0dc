--------------------------- MODULE MCFlagQueueTest ---------------------------
(* Instances of FlagQueueTest for TLC. *)
EXTENDS FlagQueueTest

\* The classes of the repository.
AllClasses ==
  {FastForward1, FastForward2, FastForward3, FastForward4, FastForward5,
   FastForward6, GFFQueue1, GFFQueue2, GFFQueue3, GFFQueue4, GFFQueue5,
   ce_queue, ce_queue2}
=============================================================================
