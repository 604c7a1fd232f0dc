---------------------------- MODULE MCChunkedQueue ----------------------------
(* Instances of ChunkedQueue for TLC. *)
EXTENDS ChunkedQueueFifo, TLC

\* The classes of the benchmarks, and those of the library; the latter without
\* refusals, is_empty and consume_all behave like ChunkedQueue3.
BenchmarkClasses == {ChunkedQueue1, ChunkedQueue2, ChunkedQueue3, ChunkedQueue4,
                     ChunkedQueue5, ChunkedQueue6, ChunkedQueue7}
LibraryClasses == {spsc_queue_chunked, spsc_queue_chunked_ptr}
SafetyClasses == {ChunkedQueue1, ChunkedQueue2} \cup LibraryClasses

\* Consumers keep to one of the functions that remove elements.
SteadyConsumers == {{"dequeue", "is_empty"}, {"pop"}, {"consume_all"}}
DequeuingConsumers == {{"dequeue"}}

Symmetry == Permutations(Elem)
=============================================================================
