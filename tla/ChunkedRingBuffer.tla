-------------------------- MODULE ChunkedRingBuffer --------------------------
(***************************************************************************)
(* spsc_ring_buffer_chunked: a ring of chunks, each a ring buffer of       *)
(* records with positions of its own.  The producer fills the chunk _head, *)
(* the consumer empties the chunk _tail; when a record does not fit, the   *)
(* producer goes on to the next chunk unless that is the consumer's.       *)
(*                                                                         *)
(* As in ChunkedQueue, each thread sees a prefix of the other's release    *)
(* stores, in the order they were made.                                    *)
(***************************************************************************)
EXTENDS Integers, Sequences

CONSTANTS
  Header,       \* sizeof(difference_type)
  Align,        \* 1 << content_align_log2
  Elem,         \* what a payload can be filled with
  Raw,          \* a byte that holds nothing of use
  Lengths,      \* record lengths the producer asks for
  Instances     \* [size, count, client]: chunk_size in bytes, chunk_count, and
                \* how callbacks answer: "firm" ones, asked twice about a record
                \* in one call, answer the same; "wavering" ones may not

ASSUME AlignAssumption == Align \in Nat \ {0}
ASSUME HeaderAssumption == Header \in 1 .. Align
ASSUME ElemAssumption == Raw \notin Elem
ASSUME InstancesAssumption ==
  \A i \in Instances : /\ i.size \in Nat \ {0} /\ i.size % Align = 0
                       /\ i.count \in Nat \ {0} /\ i.client \in {"firm", "wavering"}

VARIABLES
  instance,                      \* the instance in use
  producePos, consumePosCache,   \* chunk by chunk, the producer's
  consumePos, producePosCache,   \* chunk by chunk, the consumer's
  headChunk, tailChunk,          \* _head and _tail
  toConsumer, toProducer,        \* stores not yet visible to the other thread
  produceSeen, headSeen,         \* what the consumer's acquire loads return
  consumeSeen, tailSeen,         \* what the producer's acquire loads return
  buffer,                        \* _buffer, chunk by chunk, byte by byte
  pPc, pChunk, pPos, pLen,       \* the producer's call and its locals
  cPc, cChunk, cPos, cHead,      \* the consumer's call and its locals
  records,                       \* published and not yet taken, oldest first
  out                            \* the record the consumer was handed last

positions == <<producePos, consumePos, headChunk, tailChunk, toConsumer, toProducer>>
caches    == <<consumePosCache, producePosCache>>
seen      == <<produceSeen, headSeen, consumeSeen, tailSeen>>
producer  == <<pPc, pChunk, pPos, pLen>>
consumer  == <<cPc, cChunk, cPos, cHead>>
history   == <<records, out>>
vars == <<instance, producePos, consumePosCache, consumePos, producePosCache,
          headChunk, tailChunk, toConsumer, toProducer, produceSeen, headSeen,
          consumeSeen, tailSeen, buffer, pPc, pChunk, pPos, pLen, cPc, cChunk,
          cPos, cHead, records, out>>

ChunkSize == instance.size
ChunkCount == instance.count
Firm == instance.client = "firm"

Chunks == 0 .. ChunkCount - 1
Bytes == 0 .. ChunkSize - 1

\* chunk::_next, set up by the constructor.
NextChunk(c) == (c + 1) % ChunkCount

\* round_up_bits(length + sizeof(difference_type), content_align_log2)
Rounded(length) == ((length + Header + Align - 1) \div Align) * Align

\* Records of more than half a chunk, rounded, are left out: the test of
\* produce forgets the header and lets a few of them through, which an empty
\* chunk may be too small to take in one piece.
ASSUME LengthsAssumption ==
  \A length \in Lengths : /\ length \in Nat
    /\ \A i \in Instances : length < i.size \div 2 => 2 * Rounded(length) <= i.size

\* Release stores: to a position of a chunk, or to _head or _tail.
PositionStore(c, p) == [position |-> TRUE, chunk |-> c, value |-> p]
ChunkStore(c) == [position |-> FALSE, chunk |-> c, value |-> 0]

\* (pos + rounded_length) & chunk_mask
Advance(p, length) == (p + Rounded(length)) % ChunkSize

\* A call ends, and with it its locals.
ProducerReturns == pPc' = "idle" /\ pChunk' = 0 /\ pPos' = 0 /\ pLen' = 0
ConsumerReturns == cPc' = "idle" /\ cChunk' = 0 /\ cPos' = 0 /\ cHead' = 0

-----------------------------------------------------------------------------
(* produce                                                                 *)

\* Slip: the positions may meet from behind.
CrowdedShort(c, p, length) == c # p /\ (c - p) % ChunkSize < Rounded(length)

\* With the consumer at c and the producer at p, not enough bytes are free.
Crowded(c, p, length) == c # p /\ (c - p) % ChunkSize <= Rounded(length)

\* length <= 0 || length >= chunk_size/2 returns at once.
Produce ==
  /\ pPc = "idle"
  /\ \E length \in Lengths :
       /\ 0 < length /\ length < ChunkSize \div 2
       /\ pLen' = length
       /\ pPc' = IF Crowded(consumePosCache[headChunk], producePos[headChunk], length)
                 THEN "reload" ELSE "wrap"
  /\ pChunk' = headChunk /\ pPos' = producePos[headChunk]
  /\ UNCHANGED <<instance, positions, caches, seen, buffer, consumer, history>>

LoadConsumePos ==
  consumePosCache' = [consumePosCache EXCEPT ![pChunk] = consumeSeen[pChunk]]

Reload ==
  /\ pPc = "reload"
  /\ LoadConsumePos
  /\ pPc' = IF Crowded(consumeSeen[pChunk], pPos, pLen) THEN "cross" ELSE "wrap"
  /\ UNCHANGED <<instance, positions, producePosCache, seen, buffer, pChunk, pPos,
                 pLen, consumer, history>>

Write(p, number) == [buffer EXCEPT ![pChunk][p] = number]

WrapDistance(p) == ChunkSize - p

WriteLength == /\ WrapDistance(pPos) >= Rounded(pLen)
               /\ buffer' = Write(pPos, pLen)
               /\ pPc' = "fill" /\ UNCHANGED pPos

\* The rest of the chunk is skipped: the marker goes there.
WriteMarker == /\ WrapDistance(pPos) < Rounded(pLen)
               /\ buffer' = [Write(pPos, -WrapDistance(pPos)) EXCEPT ![pChunk][0] = pLen]
               /\ pPc' = "fill" /\ pPos' = 0

\* Slip: the start of the chunk is taken for free.
WrapUnchecked ==
  /\ pPc = "wrap"
  /\ WriteLength \/ WriteMarker
  /\ UNCHANGED <<instance, positions, caches, seen, pChunk, pLen, consumer, history>>

\* The start of the chunk must be free if the record goes there.
Wrap ==
  /\ pPc = "wrap"
  /\ \/ WriteLength
     \/ consumePosCache[pChunk] > Rounded(pLen) /\ WriteMarker
     \/ /\ WrapDistance(pPos) < Rounded(pLen)
        /\ consumePosCache[pChunk] <= Rounded(pLen)
        /\ pPc' = "reloadWrap" /\ UNCHANGED <<buffer, pPos>>
  /\ UNCHANGED <<instance, positions, caches, seen, pChunk, pLen, consumer, history>>

ReloadWrap ==
  /\ pPc = "reloadWrap"
  /\ LoadConsumePos
  /\ \/ consumeSeen[pChunk] > Rounded(pLen) /\ WriteMarker
     \/ /\ consumeSeen[pChunk] <= Rounded(pLen)
        /\ pPc' = "cross" /\ UNCHANGED <<buffer, pPos>>
  /\ UNCHANGED <<instance, positions, producePosCache, seen, pChunk, pLen,
                 consumer, history>>

\* next_chunk: it may still be the consumer's.
Cross ==
  /\ pPc = "cross"
  /\ \/ NextChunk(pChunk) = tailSeen /\ ProducerReturns
     \/ /\ NextChunk(pChunk) # tailSeen
        /\ pChunk' = NextChunk(pChunk) /\ pPos' = producePos[NextChunk(pChunk)]
        /\ pPc' = "enter" /\ UNCHANGED pLen
  /\ UNCHANGED <<instance, positions, caches, seen, buffer, consumer, history>>

\* The next chunk is taken to be empty: nothing is compared.
Enter ==
  /\ pPc = "enter"
  /\ LoadConsumePos
  /\ WriteLength \/ WriteMarker
  /\ UNCHANGED <<instance, positions, producePosCache, seen, pChunk, pLen,
                 consumer, history>>

\* The bytes of a payload of the given length behind the header at p.
Payload(p, length) == p + Header .. p + Header + length - 1

\* The callback fills in the payload.
Fill ==
  /\ pPc = "fill"
  /\ \E e \in Elem :
       buffer' = [buffer EXCEPT ![pChunk] = [i \in Bytes |->
                    IF i \in Payload(pPos, pLen) THEN e ELSE @[i]]]
  /\ pPc' = "publish"
  /\ UNCHANGED <<instance, positions, caches, seen, pChunk, pPos, pLen, consumer,
                 history>>

\* The callback gives up: length and marker stay in the buffer, unpublished.
Refuse ==
  /\ pPc = "fill"
  /\ ProducerReturns
  /\ UNCHANGED <<instance, positions, caches, seen, buffer, consumer, history>>

\* A record as it is in chunk c at p.
RecordAt(c, p, length) ==
  [length |-> length, data |-> {buffer[c][i] : i \in Payload(p, length) \cap Bytes}]

\* The release store of _produce_pos.
Publish ==
  /\ pPc = "publish"
  /\ LET p == Advance(pPos, pLen) IN
       /\ producePos' = [producePos EXCEPT ![pChunk] = p]
       /\ toConsumer' = Append(toConsumer, PositionStore(pChunk, p))
  /\ records' = Append(records, RecordAt(pChunk, pPos, pLen))
  /\ \/ pChunk = headChunk /\ ProducerReturns
     \/ /\ pChunk # headChunk
        /\ pPc' = "publishHead" /\ UNCHANGED <<pChunk, pPos, pLen>>
  /\ UNCHANGED <<instance, consumePos, headChunk, tailChunk, toProducer, caches,
                 seen, buffer, consumer, out>>

\* The release store of _head, after the record went into the next chunk.
PublishHead ==
  /\ pPc = "publishHead"
  /\ headChunk' = pChunk
  /\ toConsumer' = Append(toConsumer, ChunkStore(pChunk))
  /\ ProducerReturns
  /\ UNCHANGED <<instance, producePos, consumePos, tailChunk, toProducer, caches,
                 seen, buffer, consumer, history>>

-----------------------------------------------------------------------------
(* consume; consume_all has no body but "return true" and changes nothing. *)

Consume ==
  /\ cPc = "idle"
  /\ cChunk' = tailChunk /\ cPos' = consumePos[tailChunk]
  /\ cPc' = IF producePosCache[tailChunk] # consumePos[tailChunk]
            THEN "take" ELSE "loadHead"
  /\ UNCHANGED <<instance, positions, caches, seen, buffer, producer, cHead, history>>

\* _head is loaded before the chunk is looked at once more.
LoadHead ==
  /\ cPc = "loadHead"
  /\ cHead' = headSeen
  /\ cPc' = "reload"
  /\ UNCHANGED <<instance, positions, caches, seen, buffer, producer, cChunk, cPos,
                 history>>

LoadProducePos(c) ==
  producePosCache' = [producePosCache EXCEPT ![c] = produceSeen[c]]

\* Slip: the chunk is not looked at once more.
ReloadNotCompared ==
  /\ cPc = "reload"
  /\ LoadProducePos(cChunk)
  /\ \/ cChunk # cHead /\ cPc' = "cross" /\ UNCHANGED <<cChunk, cPos, cHead>>
     \/ cChunk = cHead /\ ConsumerReturns
  /\ UNCHANGED <<instance, positions, consumePosCache, seen, buffer, producer, history>>

ReloadProducePos ==
  /\ cPc = "reload"
  /\ LoadProducePos(cChunk)
  /\ \/ /\ produceSeen[cChunk] # cPos
        /\ cPc' = "take" /\ UNCHANGED <<cChunk, cPos, cHead>>
     \/ /\ produceSeen[cChunk] = cPos /\ cChunk # cHead
        /\ cPc' = "cross" /\ UNCHANGED <<cChunk, cPos, cHead>>
     \/ produceSeen[cChunk] = cPos /\ cChunk = cHead /\ ConsumerReturns
  /\ UNCHANGED <<instance, positions, consumePosCache, seen, buffer, producer, history>>

\* The consumer's chunk is empty and not the producer's: on to the next one.
CrossChunk ==
  /\ cPc = "cross"
  /\ LET next == NextChunk(cChunk) IN
       /\ LoadProducePos(next)
       /\ \/ produceSeen[next] = consumePos[next] /\ ConsumerReturns
          \/ /\ produceSeen[next] # consumePos[next]
             /\ cChunk' = next /\ cPos' = consumePos[next]
             /\ cPc' = "takeFirst" /\ UNCHANGED cHead
  /\ UNCHANGED <<instance, positions, consumePosCache, seen, buffer, producer, history>>

\* A negative length says that the record is at the start.
Unmarked(p) == IF buffer[cChunk][p] >= 0 THEN p ELSE 0
LengthAt(p) == buffer[cChunk][Unmarked(p)]

\* The bytes of the record at p, its rounding included.
Extent(p, length) == p .. p + Rounded(length) - 1

\* The callback is called a second time for this record.
Again == cPc = "take" /\ cChunk # tailChunk

\* The record is handed to the callback, which accepts it.  Its bytes hold
\* nothing of use from now on.
Take ==
  /\ \/ cPc = "take" /\ cPc' = "release" /\ (Firm => ~Again)
     \/ cPc = "takeFirst" /\ cPc' = "releaseFirst"
  /\ out' = RecordAt(cChunk, Unmarked(cPos), LengthAt(cPos))
  /\ records' = SubSeq(records, 2, Len(records))
  /\ cPos' = Advance(Unmarked(cPos), LengthAt(cPos))
  /\ buffer' = [buffer EXCEPT ![cChunk] = [i \in Bytes |->
                  IF i = cPos \/ i \in Extent(Unmarked(cPos), LengthAt(cPos))
                  THEN Raw ELSE @[i]]]
  /\ UNCHANGED <<instance, positions, caches, seen, producer, cChunk, cHead>>

\* The callback declines.  In a chunk just entered the call goes on, from
\* behind the marker, and asks again.
Decline ==
  /\ \/ cPc = "take" /\ ConsumerReturns
     \/ /\ cPc = "takeFirst" /\ cPc' = "take" /\ cPos' = Unmarked(cPos)
        /\ UNCHANGED <<cChunk, cHead>>
  /\ UNCHANGED <<instance, positions, caches, seen, buffer, producer, history>>

\* Slip: the consumer's chunk stays the one before.
ReleaseTailKept ==
  /\ cPc \in {"release", "releaseFirst"}
  /\ consumePos' = [consumePos EXCEPT ![cChunk] = cPos]
  /\ toProducer' = Append(toProducer, PositionStore(cChunk, cPos))
  /\ ConsumerReturns
  /\ UNCHANGED <<instance, producePos, headChunk, tailChunk, toConsumer, caches,
                 seen, buffer, producer, history>>

\* The release store of _consume_pos.
Release ==
  /\ cPc \in {"release", "releaseFirst"}
  /\ consumePos' = [consumePos EXCEPT ![cChunk] = cPos]
  /\ toProducer' = Append(toProducer, PositionStore(cChunk, cPos))
  /\ \/ cPc = "release" /\ ConsumerReturns
     \/ /\ cPc = "releaseFirst" /\ cPc' = "releaseTail"
        /\ UNCHANGED <<cChunk, cPos, cHead>>
  /\ UNCHANGED <<instance, producePos, headChunk, tailChunk, toConsumer, caches,
                 seen, buffer, producer, history>>

\* The release store of _tail, for a record the callback accepted at once.
ReleaseTail ==
  /\ cPc = "releaseTail"
  /\ tailChunk' = cChunk
  /\ toProducer' = Append(toProducer, ChunkStore(cChunk))
  /\ ConsumerReturns
  /\ UNCHANGED <<instance, producePos, consumePos, headChunk, toConsumer, caches,
                 seen, buffer, producer, history>>

-----------------------------------------------------------------------------
(* The next store of the one thread becomes visible to the other.          *)

PropagateProduce ==
  /\ toConsumer # <<>>
  /\ LET s == Head(toConsumer) IN
       IF s.position
       THEN produceSeen' = [produceSeen EXCEPT ![s.chunk] = s.value] /\ UNCHANGED headSeen
       ELSE headSeen' = s.chunk /\ UNCHANGED produceSeen
  /\ toConsumer' = Tail(toConsumer)
  /\ UNCHANGED <<instance, producePos, consumePos, headChunk, tailChunk, toProducer,
                 caches, consumeSeen, tailSeen, buffer, producer, consumer, history>>

PropagateConsume ==
  /\ toProducer # <<>>
  /\ LET s == Head(toProducer) IN
       IF s.position
       THEN consumeSeen' = [consumeSeen EXCEPT ![s.chunk] = s.value] /\ UNCHANGED tailSeen
       ELSE tailSeen' = s.chunk /\ UNCHANGED consumeSeen
  /\ toProducer' = Tail(toProducer)
  /\ UNCHANGED <<instance, producePos, consumePos, headChunk, tailChunk, toConsumer,
                 caches, produceSeen, headSeen, buffer, producer, consumer, history>>

-----------------------------------------------------------------------------
Zeros == [c \in Chunks |-> 0]
NoRecord == [length |-> 0, data |-> {}]

Init ==
  /\ instance \in Instances
  /\ producePos = Zeros /\ consumePosCache = Zeros
  /\ consumePos = Zeros /\ producePosCache = Zeros
  /\ headChunk = 0 /\ tailChunk = 0 /\ toConsumer = <<>> /\ toProducer = <<>>
  /\ produceSeen = Zeros /\ headSeen = 0 /\ consumeSeen = Zeros /\ tailSeen = 0
  /\ buffer = [c \in Chunks |-> [i \in Bytes |-> Raw]]
  /\ pPc = "idle" /\ pChunk = 0 /\ pPos = 0 /\ pLen = 0
  /\ cPc = "idle" /\ cChunk = 0 /\ cPos = 0 /\ cHead = 0
  /\ records = <<>> /\ out = NoRecord

ProducerStep == \/ Produce \/ Reload \/ Wrap \/ ReloadWrap \/ Cross \/ Enter
                \/ Fill \/ Refuse \/ Publish \/ PublishHead

ConsumerStep == \/ Consume \/ LoadHead \/ ReloadProducePos \/ CrossChunk \/ Take
                \/ Decline \/ Release \/ ReleaseTail

Next == ProducerStep \/ ConsumerStep \/ PropagateProduce \/ PropagateConsume

Spec == Init /\ [][Next]_vars

-----------------------------------------------------------------------------
(* Correctness.                                                            *)

\* What a length or a marker can be in the buffer.
Numbers == 1 - ChunkSize .. ChunkSize - 1

\* TypeOK: every position stays inside its chunk, and aligned.
TypeOK ==
  /\ instance \in Instances
  /\ \A f \in {producePos, consumePosCache, consumePos, producePosCache,
               produceSeen, consumeSeen} :
       \A c \in Chunks : f[c] \in Bytes /\ f[c] % Align = 0
  /\ {headChunk, tailChunk, headSeen, tailSeen, pChunk, cChunk, cHead} \subseteq Chunks
  /\ \A c \in Chunks : \A i \in Bytes : buffer[c][i] \in Elem \cup {Raw} \cup Numbers
  /\ {pPos, cPos} \subseteq Bytes /\ pLen \in Lengths \cup {0}

\* The bytes of a chunk from position c up to position p.
Region(c, p) == {(c + k) % ChunkSize : k \in 0 .. ((p - c) % ChunkSize) - 1}

\* HandedOver: the plain accesses never race and stay in the chunk, in the
\* chunks the two threads share and in those they enter without comparing
\* positions.  The record the consumer reads, marker included, was published
\* and acquired, and what it takes for a length is one; the bytes the producer
\* writes were released and acquired.
HandedOver ==
  /\ TypeOK
  /\ cPc \in {"take", "takeFirst"} =>
       /\ buffer[cChunk][cPos] \in Numbers
       /\ LengthAt(cPos) \in Lengths
       /\ {cPos} \cup Extent(Unmarked(cPos), LengthAt(cPos))
            \subseteq Region(consumePos[cChunk], produceSeen[cChunk])
                      \cup (IF Again THEN {cPos} ELSE {})
  /\ pPc = "fill" =>
       /\ Extent(pPos, pLen) \subseteq Bytes
       /\ ({producePos[pChunk]} \cup Extent(pPos, pLen))
            \cap Region(consumeSeen[pChunk], producePos[pChunk]) = {}

\* What consume, called now, finds something to hand over.
Reachable ==
  \/ produceSeen[tailChunk] # consumePos[tailChunk]
  \/ /\ tailChunk # headSeen
     /\ produceSeen[NextChunk(tailChunk)] # consumePos[NextChunk(tailChunk)]

\* NothingStranded: once every store is visible, the consumer finds a record
\* exactly when there is one, however many chunks away the producer is.  With
\* three chunks or more it takes a callback that answers the second of two
\* calls for a record as it answered the first: one that then accepts makes the
\* consumer's chunk stay behind, and the next chunk but one is never found.
NothingStranded ==
  /\ Firm \/ ChunkCount <= 2
  /\ toConsumer = <<>> /\ pPc # "publishHead" /\ cPc = "idle"
  => (Reachable <=> records # <<>>)

\* What produce, called now, accepts: a record of this length.
Accepted(length) ==
  LET p == producePos[headChunk] c == consumeSeen[headChunk] IN
    \/ /\ ~Crowded(c, p, length)
       /\ WrapDistance(p) >= Rounded(length) \/ c > Rounded(length)
    \/ NextChunk(headChunk) # tailSeen

\* NeverWedged: once every record was taken and every store is visible, any
\* record is accepted: a producer that is turned down need only wait.
NeverWedged ==
  /\ Firm \/ ChunkCount <= 2
  /\ toConsumer = <<>> /\ toProducer = <<>>
  /\ pPc = "idle" /\ cPc = "idle" /\ records = <<>>
  => \A length \in Lengths : length < ChunkSize \div 2 => Accepted(length)

\* NeverStuck: neither client is turned away for ever while the other has what
\* it waits for, in whichever chunks the two are.
NeverStuck == NothingStranded /\ NeverWedged

\* EmptyMeansNothing: is_empty() looks at the producer's chunk alone.  True to
\* the consumer, it says that consume will return false; true to the producer,
\* that every record was taken.
EmptyMeansNothing ==
  /\ cPc = "idle" /\ produceSeen[headSeen] = consumePos[headSeen] => ~Reachable
  /\ pPc = "idle" /\ producePos[headChunk] = consumeSeen[headChunk] => records = <<>>

Fifo == INSTANCE BoundedFifo
          WITH queue <- records, life <- FALSE,
               Capacity <- ChunkCount * (ChunkSize \div Align),
               Elem <- [length : Lengths, data : {{e} : e \in Elem}]

\* FifoSpec: whole records go in and come out, each once and in order, across
\* chunks and also when the callback is asked twice.
FifoSpec == Fifo!Spec
=============================================================================
