--------------------------- MODULE ChunkedQueueFifo ---------------------------
(* ChunkedQueue implements the bounded FIFO: the chunks, read in ring order  *)
(* from the consumer's on, hold the queued elements oldest first.            *)
EXTENDS ChunkedQueue

ChunkContents(c) ==
  [k \in 1 .. Dist(Cursor(c), tail[c]) |->
     buffer[c][(Cursor(c) + k - 1) % ChunkSize]]

Contents ==
  LET chunks[k \in 0 .. ChunkCount] ==
        IF k = 0 THEN <<>>
        ELSE chunks[k - 1] \o ChunkContents((headChunk + k - 1) % ChunkCount)
  IN chunks[ChunkCount]

Fifo == INSTANCE BoundedFifo
          WITH queue <- Contents, life <- FALSE,
               Capacity <- ChunkCount * (ChunkSize - 1)

\* FifoSpec: across chunks too, publication appends one element and taking
\* removes and hands over the oldest.
FifoSpec == Fifo!Spec
=============================================================================
