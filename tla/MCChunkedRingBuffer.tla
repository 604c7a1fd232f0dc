------------------------ MODULE MCChunkedRingBuffer ------------------------
(* Instances of ChunkedRingBuffer for TLC. *)
EXTENDS ChunkedRingBuffer

Instance(size, count, client) == [size |-> size, count |-> count, client |-> client]

\* Two chunks that records of different lengths wrap in, and three of one
\* record at most, where a chunk can be left behind.
SmallInstances == {Instance(8, 2, "wavering"),
                   Instance(4, 3, "firm"), Instance(4, 3, "wavering")}
=============================================================================
