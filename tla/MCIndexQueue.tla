---------------------------- MODULE MCIndexQueue ----------------------------
(* Instances of IndexQueue for TLC. *)
EXTENDS IndexQueue

\* The classes of the repository.
AllClasses ==
  {LamportQueue2, LamportQueue3, LamportQueue4, LamportQueue5, LamportQueue6,
   LamportQueue7, LamportQueue8, LamportQueue9, MCRingBuffer1, MCRingBuffer2,
   MCRingBuffer3, MCRingBuffer4, MCRingBuffer5, MCRingBuffer6, MCRingBuffer7,
   spsc_queue, spsc_queue_cached, spsc_queue_cached_ptr}
=============================================================================
