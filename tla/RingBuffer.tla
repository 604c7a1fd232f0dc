------------------------------ MODULE RingBuffer ------------------------------
(***************************************************************************)
(* The ring buffers of records: spsc_ring_buffer, spsc_ring_buffer_masked, *)
(* spsc_ring_buffer_cached, spsc_ring_buffer_cached_masked and             *)
(* spsc_ring_buffer_heap.  A record is its length and then its payload,    *)
(* rounded up; it never wraps: when the rest of the buffer is too short, a *)
(* negative length there sends the consumer on to the start.               *)
(*                                                                         *)
(* The variants differ in two ways.  Masked: positions run on through all  *)
(* of size_t and are masked when used, or they are offsets that start over *)
(* at Size.  Cached: each thread keeps the other's position from one call  *)
(* to the next; otherwise consumePosCache stands for the local produce     *)
(* loads it into.                                                          *)
(***************************************************************************)
EXTENDS Integers, Sequences

CONSTANTS
  Size,         \* size, in bytes
  Header,       \* sizeof(difference_type)
  Align,        \* 1 << content_align_log2
  Word,         \* size_t counts modulo Word (2^64 in the code)
  Elem,         \* what a payload can be filled with
  Raw,          \* a byte nothing was written to
  Lengths,      \* record lengths the producer asks for, and is not refused at once
  Variants      \* [masked, cached, ops, steady]: the code and its clients

ASSUME SizeAssumption ==
  Size \in Nat \ {0} /\ Align \in Nat \ {0} /\ Size % Align = 0
ASSUME HeaderAssumption == Header \in 1 .. Align
ASSUME WordAssumption == Word \in Nat /\ Word % Size = 0 /\ Word > 2 * Size
ASSUME ElemAssumption == Raw \notin Elem
ASSUME VariantsAssumption ==
  Variants \subseteq [masked : BOOLEAN, cached : BOOLEAN,
                     ops : SUBSET {"consume", "consume_all"}, steady : BOOLEAN]

VARIABLES
  variant,                      \* which of the five is instantiated
  producePos, consumePosCache,  \* the producer's line
  consumePos, producePosCache,  \* the consumer's line
  produceSeen, consumeSeen,     \* what an acquire load by the other returns
  buffer,                       \* _buffer, byte by byte
  pPc, pLen, pPos,              \* the producer's call and its locals
  cPc, cPos, cGoal,             \* the consumer's call and its locals
  records,                      \* published and not yet taken, oldest first
  out                           \* the record the consumer was handed last

producerLine == <<producePos, consumePosCache>>
consumerLine == <<consumePos, producePosCache>>
given    == <<variant, produceSeen, consumeSeen>>  \* not changed by a call
producer == <<pPc, pLen, pPos>>
consumer == <<cPc, cPos, cGoal>>
history  == <<records, out>>
vars == <<variant, producePos, consumePosCache, consumePos, producePosCache,
          produceSeen, consumeSeen, buffer, pPc, pLen, pPos, cPc, cPos, cGoal,
          records, out>>

Masked == variant.masked
Cached == variant.cached
ConsumerOps == variant.ops

\* Steady clients go on for ever: their callbacks never give up, and no record
\* takes more than half the buffer.
Steady == variant.steady

Bytes == 0 .. Size - 1

-----------------------------------------------------------------------------
(* Positions.                                                              *)

Sub(a, b) == IF a >= b THEN a - b ELSE a - b + Word
Add(a, b) == IF a + b >= Word THEN a + b - Word ELSE a + b

\* round_up_bits(length + sizeof(difference_type), content_align_log2)
Rounded(length) == ((length + Header + Align - 1) \div Align) * Align

\* if (length <= 0 || length >= size) return false;
ASSUME LengthsAssumption == Lengths \subseteq 1 .. Size - 1

\* Every record fits into the buffer.  That test does not ask for it: it looks at
\* the length without header and rounding.  For a record that rounds up to more
\* than Size, Sub(Size, Rounded(length)) wraps around to a number so large that
\* Fits lets it through, whatever the buffer holds.
RecordsFit == \A length \in Lengths : Rounded(length) <= Size

\* Where position p is in the buffer.
Index(p) == p % Size

\* The position n bytes on, n reaching the end of the buffer at most.
Advance(p, n) == IF Masked THEN Add(p, n)
                 ELSE IF p + n = Size THEN 0 ELSE p + n

\* What is left of the buffer at p, and the start after it.
WrapDistance(p) == Size - Index(p)
Wrapped(p) == IF Masked THEN Add(p, WrapDistance(p)) ELSE 0

\* Slip: fill_level is not corrected.
UsedUncorrected(p, c) == Sub(p, c)

\* fill_level, corrected when the subtraction wrapped.
Used(p, c) == IF ~Masked /\ Sub(p, c) > Size THEN Add(Sub(p, c), Size)
              ELSE Sub(p, c)

\* Slip: offsets are compared as positions are, and may meet from behind.
FitsExactly(used, n) == used <= Sub(Size, n)

\* Offsets that start over must never meet when the buffer is not empty.
Fits(used, n) == IF Masked THEN used <= Sub(Size, n) ELSE used < Sub(Size, n)

-----------------------------------------------------------------------------
(* produce                                                                 *)

\* The first test, against the cached position if there is one.
Produce ==
  /\ pPc = "idle"
  /\ \E length \in Lengths :
       /\ Steady => 2 * Rounded(length) <= Size
       /\ pLen' = length /\ pPos' = producePos
       /\ pPc' = IF Cached /\ Fits(Used(producePos, consumePosCache), Rounded(length))
                 THEN "wrap" ELSE "reload"
  /\ UNCHANGED <<producerLine, consumerLine, given, buffer, consumer, history>>

\* The test against the consumer's position itself.
Reload ==
  /\ pPc = "reload"
  /\ consumePosCache' = consumeSeen
  /\ pPc' = IF Fits(Used(producePos, consumeSeen), Rounded(pLen))
            THEN "wrap" ELSE "idle"
  /\ UNCHANGED <<producePos, consumerLine, given, buffer, pLen, pPos, consumer,
                 history>>

\* The length goes in front of the record at p.
Write(p, number) == [buffer EXCEPT ![Index(p)] = number]

WriteLength ==
  /\ buffer' = Write(pPos, pLen)
  /\ pPc' = "fill" /\ UNCHANGED pPos

\* The rest is skipped: the marker goes there, the length to the start.
WriteMarker ==
  /\ buffer' = [Write(pPos, -WrapDistance(pPos)) EXCEPT ![0] = pLen]
  /\ pPc' = "fill" /\ pPos' = Wrapped(pPos)

\* fill_level + wrap_distance
Skipping(c) == Used(producePos, c) + WrapDistance(pPos)

\* Slip: the skipped rest is not counted.
WrapUncounted ==
  /\ pPc = "wrap"
  /\ IF WrapDistance(pPos) < Rounded(pLen) THEN WriteMarker ELSE WriteLength
  /\ UNCHANGED <<producerLine, consumerLine, given, pLen, consumer, history>>

\* Slip: the second test trusts the cached position.
WrapNotReloaded ==
  /\ pPc = "wrap"
  /\ \/ WrapDistance(pPos) >= Rounded(pLen) /\ WriteLength
     \/ /\ WrapDistance(pPos) < Rounded(pLen)
        /\ \/ Fits(Skipping(consumePosCache), Rounded(pLen)) /\ WriteMarker
           \/ /\ ~Fits(Skipping(consumePosCache), Rounded(pLen))
              /\ pPc' = "idle" /\ UNCHANGED <<buffer, pPos>>
  /\ UNCHANGED <<producerLine, consumerLine, given, pLen, consumer, history>>

\* Room for the record may not be room for it in one piece.
Wrap ==
  /\ pPc = "wrap"
  /\ \/ WrapDistance(pPos) >= Rounded(pLen) /\ WriteLength
     \/ /\ WrapDistance(pPos) < Rounded(pLen)
        /\ \/ Fits(Skipping(consumePosCache), Rounded(pLen)) /\ WriteMarker
           \/ /\ ~Fits(Skipping(consumePosCache), Rounded(pLen))
              /\ pPc' = IF Cached THEN "reloadWrap" ELSE "idle"
              /\ UNCHANGED <<buffer, pPos>>
  /\ UNCHANGED <<producerLine, consumerLine, given, pLen, consumer, history>>

ReloadWrap ==
  /\ pPc = "reloadWrap"
  /\ consumePosCache' = consumeSeen
  /\ \/ Fits(Skipping(consumeSeen), Rounded(pLen)) /\ WriteMarker
     \/ /\ ~Fits(Skipping(consumeSeen), Rounded(pLen))
        /\ pPc' = "idle" /\ UNCHANGED <<buffer, pPos>>
  /\ UNCHANGED <<producePos, consumerLine, given, pLen, consumer, history>>

\* The bytes of a payload of the given length behind the header at p.
Payload(p, length) == Index(p) + Header .. Index(p) + Header + length - 1

\* The callback fills in the payload.  What it writes behind the end of the
\* buffer, where RecordsFit does not hold, overwrites something else; HandedOver
\* is broken by then, and what comes after it is not followed.
Fill ==
  /\ pPc = "fill"
  /\ \E e \in Elem :
       buffer' = [i \in Bytes |-> IF i \in Payload(pPos, pLen) THEN e ELSE buffer[i]]
  /\ pPc' = "publish"
  /\ UNCHANGED <<producerLine, consumerLine, given, pLen, pPos, consumer,
                 history>>

\* The callback gives up: length and marker stay in the buffer, unpublished.
Refuse ==
  /\ ~Steady /\ pPc = "fill"
  /\ pPc' = "idle"
  /\ UNCHANGED <<producerLine, consumerLine, given, buffer, pLen, pPos,
                 consumer, history>>

\* A record as it is in the buffer at p.
RecordAt(p, length) ==
  [length |-> length, data |-> {buffer[i] : i \in Payload(p, length) \cap Bytes}]

\* The release store of _produce_pos.
Publish ==
  /\ pPc = "publish"
  /\ producePos' = Advance(pPos, Rounded(pLen))
  /\ records' = Append(records, RecordAt(pPos, pLen))
  /\ pPc' = "idle"
  /\ UNCHANGED <<consumePosCache, consumerLine, given, buffer, pLen, pPos,
                 consumer, out>>

-----------------------------------------------------------------------------
(* consume and consume_all                                                 *)

Consume ==
  /\ cPc = "idle" /\ "consume" \in ConsumerOps
  /\ cPos' = consumePos
  /\ cPc' = IF Cached /\ producePosCache # consumePos THEN "take" ELSE "reload"
  /\ UNCHANGED <<producerLine, consumerLine, given, buffer, producer, cGoal, history>>

ReloadProducePos ==
  /\ cPc = "reload"
  /\ producePosCache' = IF Cached THEN produceSeen ELSE producePosCache
  /\ cPc' = IF produceSeen = cPos THEN "idle" ELSE "take"
  /\ UNCHANGED <<producerLine, consumePos, given, buffer, producer, cPos, cGoal,
                 history>>

\* A negative length says that the record is at the start.
Unmarked(p) ==
  IF buffer[Index(p)] >= 0 THEN p
  ELSE IF Masked THEN Add(p, -buffer[Index(p)]) ELSE 0

LengthAt(p) == buffer[Index(Unmarked(p))]

HandOver == /\ out' = RecordAt(Unmarked(cPos), LengthAt(cPos))
            /\ records' = SubSeq(records, 2, Len(records))

Take ==
  /\ cPc = "take"
  /\ HandOver
  /\ cPos' = Advance(Unmarked(cPos), Rounded(LengthAt(cPos)))
  /\ cPc' = "release"
  /\ UNCHANGED <<producerLine, consumerLine, given, buffer, producer, cGoal>>

\* consume_all loads the producer's position, and no cache.
ConsumeAll ==
  /\ cPc = "idle" /\ "consume_all" \in ConsumerOps
  /\ cPos' = consumePos /\ cGoal' = produceSeen
  /\ cPc' = IF produceSeen = consumePos THEN "idle" ELSE "drain"
  /\ UNCHANGED <<producerLine, consumerLine, given, buffer, producer, history>>

\* "if (consume_pos = size) consume_pos = 0;" in the variants with offsets.
DrainAdvance(p, n) == IF Masked THEN Add(p, n) ELSE 0

Drain ==
  /\ cPc = "drain" /\ cPos # cGoal
  /\ HandOver
  /\ cPos' = DrainAdvance(Unmarked(cPos), Rounded(LengthAt(cPos)))
  /\ UNCHANGED <<producerLine, consumerLine, given, buffer, producer, cPc, cGoal>>

\* At its goal it looks again, and returns once there is nothing new.
DrainAgain ==
  /\ cPc = "drain" /\ cPos = cGoal
  /\ cGoal' = produceSeen
  /\ cPc' = IF cPos = produceSeen THEN "release" ELSE "drain"
  /\ UNCHANGED <<producerLine, consumerLine, given, buffer, producer, cPos, history>>

\* The callback gives up.  consume_all still stores its position, behind the
\* marker if there was one.
Decline ==
  /\ ~Steady
  /\ \/ /\ cPc = "take"
        /\ cPc' = "idle" /\ UNCHANGED cPos
     \/ /\ cPc = "drain" /\ cPos # cGoal
        /\ cPc' = "release" /\ cPos' = Unmarked(cPos)
  /\ UNCHANGED <<producerLine, consumerLine, given, buffer, producer, cGoal, history>>

\* The release store of _consume_pos.
Release ==
  /\ cPc = "release"
  /\ consumePos' = cPos
  /\ cPc' = "idle" /\ cGoal' = 0
  /\ UNCHANGED <<producerLine, producePosCache, given, buffer, producer,
                 cPos, history>>

-----------------------------------------------------------------------------
(* A release store reaches the other thread some time after it was made.   *)

PropagateProducePos ==
  /\ produceSeen # producePos
  /\ produceSeen' = producePos
  /\ UNCHANGED <<variant, producerLine, consumerLine, consumeSeen, buffer, producer,
                 consumer, history>>

PropagateConsumePos ==
  /\ consumeSeen # consumePos
  /\ consumeSeen' = consumePos
  /\ UNCHANGED <<variant, producerLine, consumerLine, produceSeen, buffer, producer,
                 consumer, history>>

-----------------------------------------------------------------------------
NoRecord == [length |-> 0, data |-> {}]

Init ==
  /\ variant \in Variants
  /\ producePos = 0 /\ consumePosCache = 0 /\ consumePos = 0 /\ producePosCache = 0
  /\ produceSeen = 0 /\ consumeSeen = 0
  /\ buffer = [i \in Bytes |-> Raw]
  /\ pPc = "idle" /\ pLen = 0 /\ pPos = 0
  /\ cPc = "idle" /\ cPos = 0 /\ cGoal = 0
  /\ records = <<>> /\ out = NoRecord

ProducerStep == Produce \/ Reload \/ Wrap \/ ReloadWrap \/ Fill \/ Refuse \/ Publish

ConsumerStep == \/ Consume \/ ReloadProducePos \/ Take \/ ConsumeAll \/ Drain
                \/ DrainAgain \/ Decline \/ Release

Next == ProducerStep \/ ConsumerStep \/ PropagateProducePos \/ PropagateConsumePos

Spec == Init /\ [][Next]_vars

\* Both client threads loop over their calls, and a store becomes visible to
\* the other thread in finite time.
Fairness == /\ WF_vars(ProducerStep) /\ WF_vars(ConsumerStep)
            /\ WF_vars(PropagateProducePos) /\ WF_vars(PropagateConsumePos)

FairSpec == Spec /\ Fairness

-----------------------------------------------------------------------------
(* Correctness.                                                            *)

\* The bytes from position c up to position p; offsets that meet leave none.
Region(c, p) ==
  {Index(c + k) : k \in 0 .. (IF Masked THEN Sub(p, c) ELSE (p - c) % Size) - 1}

\* The bytes of the record at p, its rounding included.
Extent(p, length) == Index(p) .. Index(p) + Rounded(length) - 1

ConsumerReads == cPc = "take" \/ (cPc = "drain" /\ cPos # cGoal)

\* What a length or a marker can be in the buffer.
Numbers == 1 - Size .. Size - 1

Positions == {p \in 0 .. (IF Masked THEN Word ELSE Size) - 1 : p % Align = 0}

\* TypeOK: positions stay aligned and, where they are offsets, inside the buffer.
TypeOK ==
  /\ producePos \in Positions /\ consumePosCache \in Positions
  /\ consumePos \in Positions /\ producePosCache \in Positions
  /\ produceSeen \in Positions /\ consumeSeen \in Positions
  /\ pPos \in Positions /\ cPos \in Positions /\ cGoal \in Positions
  /\ pLen \in Lengths \cup {0}
  /\ \A i \in Bytes : buffer[i] \in Elem \cup {Raw} \cup Numbers

\* HandedOver: as long as every record fits into the buffer (RecordsFit), the
\* plain accesses never race and stay in the buffer.  The record the consumer
\* reads, marker included, was published and acquired, and what it takes for a
\* length is one; the bytes the producer writes were released and acquired.
HandedOver ==
  /\ TypeOK
  /\ ConsumerReads =>
       /\ buffer[Index(cPos)] \in Numbers
       /\ buffer[Index(Unmarked(cPos))] \in Numbers
       /\ {Index(cPos)} \cup Extent(Unmarked(cPos), LengthAt(cPos))
            \subseteq Region(consumePos, produceSeen)
  /\ pPc = "fill" =>
       /\ Extent(pPos, pLen) \subseteq Bytes
       /\ ({Index(producePos)} \cup Extent(pPos, pLen))
            \cap Region(consumeSeen, producePos) = {}

\* TakesARecord: what consume and consume_all hand over was published and not
\* yet taken.
TakesARecord == ConsumerReads => records # <<>>

\* The bytes a record at p takes, those skipped to keep it in one piece too.
Needed(p, length) ==
  IF WrapDistance(p) >= Rounded(length) THEN Extent(p, length)
  ELSE (Index(p) .. Size - 1) \cup Extent(0, length)

\* Where the two parts of Needed would overlap, or free bytes are missing, or
\* offsets would meet.
NoRoom(p, length, free) ==
  \/ WrapDistance(p) < Rounded(length) /\ Index(p) < Rounded(length)
  \/ ~(Needed(p, length) \subseteq free)
  \/ ~Masked /\ Needed(p, length) = free

\* RefusedMeansFull: produce turns a record down only when the free bytes have
\* no room for it in one piece, or with offsets just that room, going by the
\* consumer's position that it loaded in this call, not by a cached one.
RefusedMeansFull ==
  [][/\ pPc' = "idle"
     /\ pPc \in {"reload", "wrap", "reloadWrap"}
     => NoRoom(producePos, pLen, Bytes \ Region(
          IF Cached THEN consumeSeen ELSE consumePosCache', producePos))]_vars

Fifo == INSTANCE BoundedFifo
          WITH queue <- records, life <- FALSE, Capacity <- Size \div Align,
               Elem <- [length : Lengths, data : {{e} : e \in Elem}]

\* FifoSpec: as long as every record fits into the buffer (RecordsFit), whole
\* records go in and come out, each once and in order.
FifoSpec == Fifo!Spec

\* Flow: with both clients calling for ever, callbacks that accept and records
\* of at most half the buffer, both positions keep moving.
Flow == Steady => /\ []<><<producePos' # producePos>>_vars
                  /\ []<><<consumePos' # consumePos>>_vars
=============================================================================
