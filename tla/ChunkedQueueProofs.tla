-------------------------- MODULE ChunkedQueueProofs --------------------------
(***************************************************************************)
(* Theorems about ChunkedQueue, for every class, every number and size of  *)
(* chunks, and whichever callbacks give up.  A consumer may mix Dequeue,   *)
(* pop and is_empty, or consume_all and is_empty, but not consume_all with *)
(* the others: consume_all does not keep the caches the others rely on.    *)
(***************************************************************************)
EXTENDS ChunkedQueueFifo, FiniteSetTheorems, SequenceTheorems, TLAPS

\* What the theorems ask of the consumers.
KeepToOne == \A o \in Consumers : "consume_all" \in o => o \cap {"dequeue", "pop"} = {}

-----------------------------------------------------------------------------
(* The invariant.                                                          *)

\* Positions inside chunk c, counted from the oldest one anybody remembers.
Origin(c) == IF class.cached THEN headCache[c] ELSE headSeen[c]
Off(c, i) == Dist(Origin(c), i)

\* Chunks, counted from the one the producer believes the consumer to be in.
ChunkDist(a, b) == IF b >= a THEN b - a ELSE b - a + ChunkCount
Ahead(c) == ChunkDist(headChunkSeen, c)

\* The chunk the consumer is in.
Consuming == IF cPc \in {"idle", "isEmpty"} THEN headChunk ELSE hc

\* In every chunk the views and caches may be late, never ahead.
Window ==
  \A c \in Chunks :
    /\ Off(c, headSeen[c]) <= Off(c, head[c])
    /\ Off(c, head[c]) <= Off(c, tailSeen[c])
    /\ Off(c, tailSeen[c]) <= Off(c, tail[c])
    /\ class.cached /\ "consume_all" \notin ops =>
         /\ Off(c, head[c]) <= Off(c, tailCache[c])
         /\ Off(c, tailCache[c]) <= Off(c, tailSeen[c])

\* So it is with the chunks: neither thread overtakes the other.
Order ==
  /\ Ahead(headChunk) <= Ahead(Consuming)
  /\ Ahead(Consuming) <= Ahead(tailChunkSeen)
  /\ Ahead(tailChunkSeen) <= Ahead(tailChunk)
  /\ Ahead(tailChunk) <= Ahead(tc)

\* The consumer leaves a chunk empty, and a chunk the producer has not entered
\* is empty, as the producer sees it too.
Left == \A c \in Chunks : Ahead(c) < Ahead(Consuming) => head[c] = tail[c]
Unentered == \A c \in Chunks :
  Ahead(c) > Ahead(tailChunk) /\ ~(pPc = "publishChunk" /\ c = tc) =>
    headSeen[c] = tail[c]

\* The producer has stored its last to a chunk when the next one is seen, and
\* its first to that one, which the consumer has not taken before it is there.
Final == \A c \in Chunks : Ahead(c) < Ahead(tailChunkSeen) => tailSeen[c] = tail[c]
Filled == \A c \in Chunks : Ahead(Consuming) < Ahead(c) =>
  /\ Ahead(c) <= Ahead(tailChunkSeen) => head[c] # tailSeen[c]
  /\ Ahead(c) <= Ahead(tailChunk) => head[c] # tail[c]

\* Stores on their way are in the order of what they say.
Before(r, s) ==
  /\ r.index /\ s.index /\ r.chunk = s.chunk =>
       Off(r.chunk, r.value) < Off(r.chunk, s.value)
  /\ ~r.index /\ ~s.index => Ahead(r.chunk) < Ahead(s.chunk)
  /\ ~r.index /\ s.index => Ahead(r.chunk) <= Ahead(s.chunk)

InOrder(q) == \A k \in 1 .. Len(q) : \A j \in k + 1 .. Len(q) : Before(q[k], q[j])

\* They lie between what is seen and what is stored, and end there.
Within(s, seenIndex, index, seenChunk, chunk) ==
  IF s.index
  THEN /\ Off(s.chunk, seenIndex[s.chunk]) < Off(s.chunk, s.value)
       /\ Off(s.chunk, s.value) <= Off(s.chunk, index[s.chunk])
  ELSE Ahead(seenChunk) < Ahead(s.chunk) /\ Ahead(s.chunk) <= Ahead(chunk)

Between(q, seenIndex, index, seenChunk, chunk) ==
  /\ class.seqCst => q = <<>>
  /\ \A k \in 1 .. Len(q) : Within(q[k], seenIndex, index, seenChunk, chunk)
  /\ \A c \in Chunks : \/ seenIndex[c] = index[c]
                       \/ \E k \in 1 .. Len(q) : q[k] = IndexStore(c, index[c])
  /\ \/ seenChunk = chunk
     \/ \E k \in 1 .. Len(q) : q[k] = ChunkStore(chunk)

\* A chunk is seen only after its first element.
FirstElement ==
  \A k \in 1 .. Len(toConsumer) : ~toConsumer[k].index =>
    LET c == toConsumer[k].chunk IN
    \/ tailSeen[c] # head[c]
    \/ \E j \in 1 .. k - 1 : toConsumer[j].index /\ toConsumer[j].chunk = c

ConsumerView == /\ InOrder(toConsumer) /\ FirstElement
                /\ Between(toConsumer, tailSeen, tail, tailChunkSeen, tailChunk)
ProducerView == /\ InOrder(toProducer)
                /\ Between(toProducer, headSeen, head, headChunkSeen, headChunk)

ProducerFrame ==
  /\ tc \in {tailChunk, NextChunk(tailChunk)}
  /\ pPc \in {"reload", "cross"} => tc = tailChunk
  /\ pPc \in {"refresh", "publishChunk"} => tc # tailChunk
  /\ pPc = "refresh" => class.cached
  /\ pPc \in {"construct", "publish"} => Off(tc, tail[tc]) < ChunkSize - 1
  /\ pPc = "publishChunk" => tail[tc] # head[tc]

\* The tail_chunk the consumer loaded is as late as any view.
LastFrame == Ahead(Consuming) <= Ahead(last) /\ Ahead(last) <= Ahead(tailChunkSeen)

ConsumerFrame ==
  /\ "consume_all" \in ops => ops \cap {"dequeue", "pop"} = {}
  /\ cPc \in {"loadChunk", "reload"} => hc = headChunk
  /\ cPc \in {"enter", "take"} => hc \in {headChunk, NextChunk(headChunk)}
  /\ cPc \in {"loadChunk", "reload", "enter", "take"} => h = head[hc]
  /\ cPc \in {"reload", "drainChunk", "drain", "isEmpty"} => LastFrame
  /\ cPc \in {"enter", "take", "release"} => head[hc] # tailSeen[hc]
  /\ cPc \in {"take", "release"} /\ class.cached => head[hc] # tailCache[hc]
  /\ cPc = "release" => h = Next1(head[hc])
  /\ cPc \in {"drainChunk", "drain"} => "consume_all" \in ops
  /\ cPc = "drain" =>
       /\ Off(hc, head[hc]) <= Off(hc, h) /\ Off(hc, h) <= Off(hc, t)
       /\ Off(hc, t) <= Off(hc, tailSeen[hc])
       /\ hc # last => t = tail[hc]

\* After is_empty() answered false there is an element to be found.
Some ==
  cSome => /\ head[Consuming] # tailSeen[Consuming] \/ Consuming # tailChunkSeen
           /\ cPc = "reload" => head[hc] # tailSeen[hc] \/ hc # last

Invariant == /\ TypeOK /\ Window /\ Order
             /\ Left /\ Unentered /\ Final /\ Filled
             /\ ConsumerView /\ ProducerView
             /\ ProducerFrame /\ ConsumerFrame /\ Some /\ LiveExactly
-----------------------------------------------------------------------------
(* Rings.                                                                  *)

\* Distances between slots, and what moving their origin does to them.
LEMMA DistBasics ==
  ASSUME NEW a \in Slots, NEW b \in Slots, NEW i \in Slots
  PROVE  /\ Dist(a, i) \in Nat /\ Dist(a, i) <= ChunkSize - 1
         /\ Dist(a, a) = 0
         /\ Dist(a, b) = Dist(a, i) <=> b = i
         /\ Dist(a, b) <= Dist(a, i) => Dist(b, i) = Dist(a, i) - Dist(a, b)
         /\ Dist(a, b) > Dist(a, i) =>
              Dist(b, i) = Dist(a, i) - Dist(a, b) + ChunkSize
BY ChunkSizeAssumption DEF Slots, Dist

LEMMA DistRange ==
  ASSUME NEW a \in Slots, NEW i \in Slots
  PROVE  Dist(a, i) \in Nat /\ Dist(a, i) <= ChunkSize - 1
BY DistBasics

LEMMA NextBasics ==
  ASSUME NEW a \in Slots, NEW b \in Slots
  PROVE  /\ Next1(b) \in Slots /\ Next1(b) # b
         /\ Dist(a, b) < ChunkSize - 1 => Dist(a, Next1(b)) = Dist(a, b) + 1
         /\ Next1(b) = a <=> Dist(a, b) = ChunkSize - 1
BY ChunkSizeAssumption DEF Slots, Dist, Next1

\* The same of the ring of chunks.
LEMMA ChunkDistBasics ==
  ASSUME NEW a \in Chunks, NEW b \in Chunks, NEW c \in Chunks
  PROVE  /\ ChunkDist(a, c) \in Nat /\ ChunkDist(a, c) <= ChunkCount - 1
         /\ ChunkDist(a, a) = 0
         /\ ChunkDist(a, b) = ChunkDist(a, c) <=> b = c
         /\ ChunkDist(a, b) <= ChunkDist(a, c) =>
              ChunkDist(b, c) = ChunkDist(a, c) - ChunkDist(a, b)
         /\ ChunkDist(a, b) > ChunkDist(a, c) =>
              ChunkDist(b, c) = ChunkDist(a, c) - ChunkDist(a, b) + ChunkCount
BY ChunkCountAssumption DEF Chunks, ChunkDist

LEMMA NextChunkBasics ==
  ASSUME NEW a \in Chunks, NEW b \in Chunks
  PROVE  /\ NextChunk(b) \in Chunks
         /\ NextChunk(b) # a => ChunkDist(a, NextChunk(b)) = ChunkDist(a, b) + 1
         /\ ChunkDist(a, b) < ChunkCount - 1 => NextChunk(b) # a
BY ChunkCountAssumption DEF Chunks, ChunkDist, NextChunk

-----------------------------------------------------------------------------
(* Types.                                                                  *)

LEMMA Ranges ==
  ASSUME TypeOK
  PROVE  /\ tail \in [Chunks -> Slots] /\ headCache \in [Chunks -> Slots]
         /\ head \in [Chunks -> Slots] /\ tailCache \in [Chunks -> Slots]
         /\ tailSeen \in [Chunks -> Slots] /\ headSeen \in [Chunks -> Slots]
         /\ tailChunk \in Chunks /\ headChunk \in Chunks
         /\ tailChunkSeen \in Chunks /\ headChunkSeen \in Chunks
         /\ tc \in Chunks /\ hc \in Chunks /\ last \in Chunks
         /\ h \in Slots /\ t \in Slots
         /\ toConsumer \in Seq(Store) /\ toProducer \in Seq(Store)
         /\ buffer \in [Chunks -> [Slots -> Value]]
         /\ Consuming \in Chunks
BY DEF TypeOK, Consuming

\* The other way round, to establish it of a next state.
LEMMA TypedIf ==
  ASSUME TypeOK, UNCHANGED <<class, ops>>,
         tail' \in [Chunks -> Slots], headCache' \in [Chunks -> Slots],
         head' \in [Chunks -> Slots], tailCache' \in [Chunks -> Slots],
         tailSeen' \in [Chunks -> Slots], headSeen' \in [Chunks -> Slots],
         {tailChunk, headChunk, tailChunkSeen, headChunkSeen, tc, hc, last}'
           \subseteq Chunks,
         h' \in Slots, t' \in Slots, cSome' \in BOOLEAN, out' \in Value,
         toConsumer' \in Seq(Store), toProducer' \in Seq(Store),
         buffer' \in [Chunks -> [Slots -> Value]],
         pPc' \in {"idle", "reload", "cross", "refresh", "construct", "publish",
                   "publishChunk"},
         cPc' \in {"idle", "loadChunk", "reload", "enter", "take", "release",
                   "releaseChunk", "drainChunk", "drain", "isEmpty"}
  PROVE  TypeOK'
BY DEF TypeOK

LEMMA OffRanges ==
  ASSUME TypeOK, NEW c \in Chunks, NEW i \in Slots
  PROVE  Origin(c) \in Slots /\ Off(c, i) \in Nat /\ Off(c, i) <= ChunkSize - 1
BY Ranges, DistRange DEF Origin, Off

LEMMA AheadRanges ==
  ASSUME TypeOK, NEW c \in Chunks
  PROVE  Ahead(c) \in Nat /\ Ahead(c) <= ChunkCount - 1
BY Ranges, ChunkDistBasics DEF Ahead

-----------------------------------------------------------------------------
(* What most steps leave alone.                                            *)

\* The views are about shared variables and the producer's caches.
LEMMA ViewsStay ==
  ASSUME Invariant, UNCHANGED <<shared, seen, headCache, class>>
  PROVE  /\ Final' /\ ConsumerView' /\ ProducerView'
         /\ \A c \in Chunks : Ahead(c)' = Ahead(c)
         /\ \A c \in Chunks, i \in Slots : Off(c, i)' = Off(c, i)
<1>1. Final' /\ \A c \in Chunks : Ahead(c)' = Ahead(c)
  BY DEF Invariant, Final, Ahead, shared, seen
<1>2. \A c \in Chunks, i \in Slots : Off(c, i)' = Off(c, i)
  BY DEF Off, Origin, shared, seen
<1>3. ConsumerView'
  BY DEF Invariant, ConsumerView, InOrder, Before, FirstElement, Between, Within,
         Ahead, Off, Origin, shared, seen
<1>4. ProducerView'
  BY DEF Invariant, ProducerView, InOrder, Before, Between, Within, Ahead, Off, Origin,
         shared, seen
<1> QED BY <1>1, <1>2, <1>3, <1>4

LEMMA WindowStays ==
  ASSUME Invariant, UNCHANGED <<shared, seen, caches, class, ops>>
  PROVE  Window'
BY DEF Invariant, Window, Off, Origin, shared, seen, caches

\* A slot is live as long as neither thread's position has moved.
LEMMA LiveStays ==
  ASSUME LiveExactly, UNCHANGED buffer,
         \A c \in Chunks : Cursor(c)' = Cursor(c) /\ Built(c)' = Built(c)
  PROVE  LiveExactly'
BY DEF LiveExactly

\* A step of the producer that stores nothing.
LEMMA ProducerLocal ==
  ASSUME Invariant, UNCHANGED <<shared, seen, headCache, tailCache, consumer>>,
         pPc # "publishChunk", pPc' # "publishChunk",
         tc' \in Chunks, Ahead(tailChunk) <= Ahead(tc')
  PROVE  /\ Window' /\ Order' /\ Left' /\ Unentered' /\ Final' /\ Filled'
         /\ ConsumerView' /\ ProducerView' /\ ConsumerFrame' /\ Some'
         /\ \A c \in Chunks : Cursor(c)' = Cursor(c)
<1> USE DEF consumer, client, shared, seen
<1>v. Final' /\ ConsumerView' /\ ProducerView'
  BY ViewsStay
<1>w. Window'
  BY WindowStays DEF caches
<1>c. Consuming' = Consuming
  BY DEF Consuming
<1>1. Order'
  BY <1>c DEF Invariant, Order, Ahead
<1>2. Left' /\ Filled' /\ Unentered'
  BY <1>c DEF Invariant, Left, Filled, Unentered, Ahead
<1>3. ConsumerFrame' /\ Some'
  BY <1>c DEF Invariant, ConsumerFrame, LastFrame, Some, Ahead, Off, Origin
<1>4. \A c \in Chunks : Cursor(c)' = Cursor(c)
  BY DEF Cursor
<1> QED BY <1>v, <1>w, <1>1, <1>2, <1>3, <1>4

-----------------------------------------------------------------------------
(* The producer's steps that store nothing.                                *)

\* An index that does not come up to the cached head leaves one slot more.
LEMMA EnqueueStep ==
  ASSUME Invariant, Enqueue
  PROVE  Invariant'
<1> USE DEF Enqueue, caches
<1>a. TypeOK /\ ProducerFrame /\ Order
  BY DEF Invariant
<1>p. pPc' \in {"construct", "reload"} /\ tc' = tailChunk
  OBVIOUS
<1>l. /\ Window' /\ Order' /\ Left' /\ Unentered' /\ Final' /\ Filled'
      /\ ConsumerView' /\ ProducerView' /\ ConsumerFrame' /\ Some'
      /\ \A c \in Chunks : Cursor(c)' = Cursor(c)
  <2>1. Ahead(tailChunk) <= Ahead(tc') /\ tc' \in Chunks
    BY <1>p, <1>a, Ranges, AheadRanges
  <2> QED BY <2>1, <1>p, ProducerLocal
<1>1. TypeOK'
  BY <1>a, <1>p, Ranges DEF TypeOK, shared, seen, consumer, client
<1>2. ProducerFrame'
  <2>1. pPc' = "construct" => class.cached /\ Next1(tail[tc']) # headCache[tc']
    BY <1>p
  <2>2. tail[tc'] \in Slots /\ headCache[tc'] \in Slots
    BY <1>a, <1>p, Ranges
  <2>3. pPc' = "construct" => Dist(headCache[tc'], tail[tc']) < ChunkSize - 1
    BY <2>1, <2>2, NextBasics, DistRange, ChunkSizeAssumption
  <2>4. pPc' = "construct" => Off(tc, tail[tc])' < ChunkSize - 1
    BY <2>1, <2>3 DEF Off, Origin, shared, seen, consumer, client
  <2> QED BY <1>p, <2>4 DEF ProducerFrame, shared
<1>3. LiveExactly'
  BY <1>l, <1>p, LiveStays DEF Invariant, Built, shared
<1> QED BY <1>l, <1>1, <1>2, <1>3 DEF Invariant

\* The chunk after a full one is entered only while the consumer is elsewhere.
LEMMA CrossToNextStep ==
  ASSUME Invariant, CrossToNext
  PROVE  Invariant'
<1> USE DEF CrossToNext, caches
<1>a. TypeOK /\ ProducerFrame /\ Order /\ Unentered /\ tc = tailChunk
  BY DEF Invariant, ProducerFrame
<1>p. /\ pPc' \in {"idle", "construct", "refresh"}
      /\ tc' \in {tc, NextChunk(tc)}
      /\ pPc' # "idle" => tc' = NextChunk(tc) /\ NextChunk(tc) # headChunkSeen
      /\ pPc' = "idle" => tc' = tc
  OBVIOUS
<1>n. NextChunk(tc) # headChunkSeen => Ahead(NextChunk(tc)) = Ahead(tc) + 1
  BY <1>a, Ranges, NextChunkBasics DEF Ahead
<1>l. /\ Window' /\ Order' /\ Left' /\ Unentered' /\ Final' /\ Filled'
      /\ ConsumerView' /\ ProducerView' /\ ConsumerFrame' /\ Some'
      /\ \A c \in Chunks : Cursor(c)' = Cursor(c)
  <2>1. Ahead(tailChunk) <= Ahead(tc') /\ tc' \in Chunks
    BY <1>p, <1>n, <1>a, Ranges, AheadRanges, NextChunkBasics
  <2> QED BY <2>1, <1>p, ProducerLocal
<1>1. TypeOK'
  BY <1>a, <1>p, Ranges, NextChunkBasics DEF TypeOK, shared, seen, consumer, client
<1>2. ProducerFrame'
  <2>1. pPc' # "idle" => tc' # tailChunk /\ headSeen[tc'] = tail[tc'] /\ tc' \in Chunks
    BY <1>p, <1>n, <1>a, Ranges, AheadRanges, NextChunkBasics DEF Unentered
  <2>2. pPc' = "construct" => ~class.cached
    BY <1>p
  <2>3. pPc' = "construct" => Off(tc, tail[tc])' = 0
    <3>1. pPc' = "construct" => Off(tc, tail[tc])' = Dist(headSeen[tc'], tail[tc'])
      BY <2>2 DEF Off, Origin, shared, seen, consumer, client
    <3>2. tail[tc'] \in Slots => Dist(tail[tc'], tail[tc']) = 0
      BY DistBasics
    <3> QED BY <2>1, <3>1, <3>2, <1>a, Ranges
  <2> QED BY <1>a, <1>p, <2>1, <2>2, <2>3, ChunkSizeAssumption
         DEF ProducerFrame, shared, consumer, client
<1>3. LiveExactly'
  BY <1>l, <1>p, LiveStays DEF Invariant, Built, shared
<1> QED BY <1>l, <1>1, <1>2, <1>3 DEF Invariant

\* A constructor that throws has left nothing in the slot.
LEMMA ThrowStep ==
  ASSUME Invariant, Throw
  PROVE  Invariant'
<1> USE DEF Throw, caches
<1>a. TypeOK /\ ProducerFrame /\ Order
  BY DEF Invariant
<1>l. /\ Window' /\ Order' /\ Left' /\ Unentered' /\ Final' /\ Filled'
      /\ ConsumerView' /\ ProducerView' /\ ConsumerFrame' /\ Some'
      /\ \A c \in Chunks : Cursor(c)' = Cursor(c)
  BY <1>a, Ranges, ProducerLocal DEF Order
<1>1. TypeOK'
  BY <1>a, Ranges DEF TypeOK, shared, seen, consumer, client
<1>2. ProducerFrame'
  BY <1>a DEF ProducerFrame, shared
<1>3. LiveExactly'
  BY <1>l, LiveStays DEF Invariant, Built, shared
<1> QED BY <1>l, <1>1, <1>2, <1>3 DEF Invariant

-----------------------------------------------------------------------------
(* The order of the positions in a chunk.                                  *)

\* The window in terms of numbers.
LEMMA InWindow ==
  ASSUME TypeOK, Window, NEW c \in Chunks
  PROVE  /\ Off(c, headSeen[c]) \in Nat /\ Off(c, head[c]) \in Nat
         /\ Off(c, tailSeen[c]) \in Nat /\ Off(c, tail[c]) \in Nat
         /\ Off(c, tailCache[c]) \in Nat
         /\ headSeen[c] \in Slots /\ head[c] \in Slots /\ tailSeen[c] \in Slots
         /\ tail[c] \in Slots /\ tailCache[c] \in Slots
         /\ Off(c, headSeen[c]) <= Off(c, head[c])
         /\ Off(c, head[c]) <= Off(c, tailSeen[c])
         /\ Off(c, tailSeen[c]) <= Off(c, tail[c])
         /\ Off(c, tail[c]) <= ChunkSize - 1
BY Ranges, OffRanges DEF Window

\* Positions are the same when their distances are.
LEMMA OffTells ==
  ASSUME TypeOK, NEW c \in Chunks, NEW i \in Slots, NEW j \in Slots
  PROVE  /\ Off(c, i) = Off(c, j) <=> i = j
         /\ Off(c, i) <= Off(c, j) => Dist(i, j) = Off(c, j) - Off(c, i)
         /\ Off(c, i) > Off(c, j) => Dist(i, j) = Off(c, j) - Off(c, i) + ChunkSize
BY OffRanges, DistBasics DEF Off

\* One position on is one farther, short of the end.
LEMMA OffNext ==
  ASSUME TypeOK, NEW c \in Chunks, NEW i \in Slots, Off(c, i) < ChunkSize - 1
  PROVE  Off(c, Next1(i)) = Off(c, i) + 1
BY OffRanges, NextBasics DEF Off

\* The consumer's cursor lies in what it sees.
LEMMA CursorInWindow ==
  ASSUME TypeOK, Window, ConsumerFrame, NEW c \in Chunks
  PROVE  /\ Cursor(c) \in Slots /\ Off(c, Cursor(c)) \in Nat
         /\ Off(c, head[c]) <= Off(c, Cursor(c))
         /\ Off(c, Cursor(c)) <= Off(c, tailSeen[c])
         /\ Dist(Cursor(c), tail[c]) = Off(c, tail[c]) - Off(c, Cursor(c))
<1>1. Cursor(c) \in Slots
  BY Ranges DEF Cursor
<1>2. Off(c, head[c]) <= Off(c, Cursor(c)) /\ Off(c, Cursor(c)) <= Off(c, tailSeen[c])
  <2>1. CASE c = hc /\ cPc = "release"
    <3>1. h = Next1(head[c]) /\ head[c] # tailSeen[c] /\ Cursor(c) = h
      BY <2>1 DEF ConsumerFrame, Cursor
    <3>2. Off(c, head[c]) < Off(c, tailSeen[c])
      <4>1. Off(c, head[c]) # Off(c, tailSeen[c])
        BY <3>1, InWindow, OffTells
      <4> QED BY <4>1, InWindow
    <3>3. Off(c, h) = Off(c, head[c]) + 1
      <4>1. Off(c, head[c]) < ChunkSize - 1 /\ head[c] \in Slots
        BY <3>2, InWindow, ChunkSizeAssumption
      <4> QED BY <3>1, <4>1, OffNext
    <3> QED BY <3>1, <3>2, <3>3, InWindow
  <2>2. CASE c = hc /\ cPc = "drain"
    <3>1. Off(c, t) \in Nat /\ Off(c, h) \in Nat
      BY Ranges, OffRanges
    <3> QED BY <2>2, <3>1, InWindow DEF ConsumerFrame, Cursor
  <2>3. CASE ~(c = hc /\ cPc \in {"release", "drain"})
    BY <2>3, InWindow DEF Cursor
  <2> QED BY <2>1, <2>2, <2>3
<1>3. Off(c, Cursor(c)) \in Nat
  BY <1>1, OffRanges
<1>4. Dist(Cursor(c), tail[c]) = Off(c, tail[c]) - Off(c, Cursor(c))
  <2>1. Off(c, Cursor(c)) <= Off(c, tail[c])
    BY <1>2, <1>3, InWindow
  <2> QED BY <1>1, <2>1, InWindow, OffTells
<1> QED BY <1>1, <1>2, <1>3, <1>4

\* The slots up to the next position are those up to this one and this one.
LEMMA OneMore ==
  ASSUME NEW a \in Slots, NEW b \in Slots, NEW i \in Slots, Dist(a, b) < ChunkSize - 1
  PROVE  Dist(a, i) < Dist(a, Next1(b)) <=> i = b \/ Dist(a, i) < Dist(a, b)
BY DistBasics, NextBasics

\* The slot built in becomes the newest live one.
LEMMA ConstructStep ==
  ASSUME Invariant, Construct
  PROVE  Invariant'
<1> USE DEF Construct, caches
<1>a. TypeOK /\ Window /\ ProducerFrame /\ ConsumerFrame /\ Order /\ LiveExactly
  BY DEF Invariant
<1>e. PICK e \in Elem : buffer' = [buffer EXCEPT ![tc][tail[tc]] = e]
  OBVIOUS
<1>l. /\ Window' /\ Order' /\ Left' /\ Unentered' /\ Final' /\ Filled'
      /\ ConsumerView' /\ ProducerView' /\ ConsumerFrame' /\ Some'
      /\ \A c \in Chunks : Cursor(c)' = Cursor(c)
  BY <1>a, Ranges, ProducerLocal DEF Order
<1>1. TypeOK'
  <2>1. buffer' \in [Chunks -> [Slots -> Value]]
    BY <1>a, <1>e, Ranges DEF Value
  <2> QED BY <2>1, <1>a, Ranges DEF TypeOK, shared, seen, consumer, client
<1>2. ProducerFrame'
  BY <1>a DEF ProducerFrame, shared, seen, consumer, client, Off, Origin
<1>3. ASSUME NEW c \in Chunks, NEW i \in Slots
      PROVE  buffer'[c][i] # Raw <=> Dist(Cursor(c), i) < Dist(Cursor(c), Built(c)')
  <2>1. tail[c] \in Slots /\ Cursor(c) \in Slots
    BY <1>a, Ranges, CursorInWindow
  <2>2. buffer[c][i] # Raw <=> Dist(Cursor(c), i) < Dist(Cursor(c), tail[c])
    BY <1>a DEF LiveExactly, Built
  <2>3. CASE c = tc
    <3>1. Dist(Cursor(c), tail[c]) < ChunkSize - 1
      <4>1. Off(c, tail[c]) < ChunkSize - 1
        BY <1>a, <2>3 DEF ProducerFrame
      <4> QED BY <1>a, <4>1, CursorInWindow, InWindow, ChunkSizeAssumption
    <3>2. Dist(Cursor(c), i) < Dist(Cursor(c), Next1(tail[c]))
            <=> i = tail[c] \/ Dist(Cursor(c), i) < Dist(Cursor(c), tail[c])
      BY <2>1, <3>1, OneMore
    <3>3. buffer'[c][i] = IF i = tail[c] THEN e ELSE buffer[c][i]
      BY <1>a, <1>e, <2>3, Ranges
    <3>4. Built(c)' = Next1(tail[c])
      BY <2>3 DEF Built, shared
    <3> QED BY <2>2, <3>2, <3>3, <3>4, ElemAssumption
  <2>4. CASE c # tc
    <3>1. buffer'[c] = buffer[c] /\ Built(c)' = tail[c]
      BY <1>a, <1>e, <2>4, Ranges DEF Built, shared
    <3> QED BY <2>2, <3>1
  <2> QED BY <2>3, <2>4
<1>4. LiveExactly'
  BY <1>l, <1>3 DEF LiveExactly
<1> QED BY <1>l, <1>1, <1>2, <1>4 DEF Invariant

-----------------------------------------------------------------------------
(* A new origin.                                                           *)

\* Counted from a later origin, what is not before it keeps its order.
LEMMA OriginMoves ==
  ASSUME TypeOK, NEW c \in Chunks, Origin(c)' \in Slots,
         NEW i \in Slots, Off(c, Origin(c)') <= Off(c, i)
  PROVE  Off(c, i)' = Off(c, i) - Off(c, Origin(c)')
BY OffRanges, DistBasics DEF Off

\* Stores are of chunks and slots.
LEMMA Stores ==
  ASSUME NEW q \in Seq(Store), NEW k \in 1 .. Len(q)
  PROVE  q[k] \in Store /\ q[k].chunk \in Chunks /\ q[k].value \in Slots
<1>1. q[k] \in Store
  OBVIOUS
<1> QED BY <1>1 DEF Store

\* Chunks are the same when they are as far ahead.
LEMMA AheadTells ==
  ASSUME TypeOK, NEW c \in Chunks, NEW d \in Chunks
  PROVE  Ahead(c) = Ahead(d) <=> c = d
BY Ranges, ChunkDistBasics DEF Ahead

\* In a step, positions and chunks from what is seen on keep their order.
OffsKept(seenIndex) ==
  \A c \in Chunks : \A i, j \in Slots :
    /\ Off(c, i)' \in Nat
    /\ Off(c, seenIndex[c]) <= Off(c, i) /\ Off(c, i) < Off(c, j) =>
         Off(c, i)' < Off(c, j)'

AheadsKept(seenChunk) ==
  \A c, d \in Chunks :
    /\ Ahead(c)' \in Nat
    /\ Ahead(seenChunk) <= Ahead(c) /\ Ahead(c) < Ahead(d) => Ahead(c)' < Ahead(d)'

\* Stores keep their place then.
LEMMA ViewKept ==
  ASSUME TypeOK, NEW q \in Seq(Store), NEW si \in [Chunks -> Slots],
         NEW ix \in [Chunks -> Slots], NEW sc \in Chunks, NEW ch \in Chunks,
         InOrder(q), Between(q, si, ix, sc, ch), class' = class,
         OffsKept(si), AheadsKept(sc)
  PROVE  InOrder(q)' /\ Between(q, si, ix, sc, ch)'
<1>1. ASSUME NEW k \in 1 .. Len(q) PROVE Within(q[k], si, ix, sc, ch)'
  <2>1. Within(q[k], si, ix, sc, ch)
    BY DEF Between
  <2>2. q[k].chunk \in Chunks /\ q[k].value \in Slots
    BY Stores
  <2>3. CASE q[k].index
    <3>1. PICK c \in Chunks : c = q[k].chunk
      BY <2>2
    <3>2. si[c] \in Slots /\ ix[c] \in Slots
      OBVIOUS
    <3>3. /\ Off(c, si[c]) < Off(c, q[k].value) /\ Off(c, q[k].value) <= Off(c, ix[c])
      BY <2>1, <2>3, <3>1 DEF Within
    <3>n. /\ Off(c, si[c]) \in Nat /\ Off(c, q[k].value) \in Nat
          /\ Off(c, ix[c]) \in Nat
      BY <2>2, <3>2, OffRanges
    <3>m. Off(c, si[c]) <= Off(c, si[c]) /\ Off(c, si[c]) <= Off(c, q[k].value)
      BY <3>3, <3>n
    <3>4. Off(c, si[c])' < Off(c, q[k].value)'
      BY <2>2, <3>2, <3>3, <3>m DEF OffsKept
    <3>5. Off(c, q[k].value)' <= Off(c, ix[c])'
      <4>1. CASE Off(c, q[k].value) = Off(c, ix[c])
        <5>1. q[k].value = ix[c]
          BY <2>2, <3>2, <4>1, OffTells
        <5>2. Off(c, ix[c])' \in Nat
          BY <3>2 DEF OffsKept
        <5> QED BY <5>1, <5>2
      <4>2. CASE Off(c, q[k].value) < Off(c, ix[c])
        <5>1. Off(c, q[k].value)' < Off(c, ix[c])'
          BY <2>2, <3>2, <3>m, <4>2 DEF OffsKept
        <5>2. Off(c, q[k].value)' \in Nat /\ Off(c, ix[c])' \in Nat
          BY <2>2, <3>2 DEF OffsKept
        <5> QED BY <5>1, <5>2
      <4> QED BY <3>3, <3>n, <4>1, <4>2
    <3> QED BY <2>3, <3>1, <3>4, <3>5 DEF Within
  <2>4. CASE ~q[k].index
    <3>1. PICK c \in Chunks : c = q[k].chunk
      BY <2>2
    <3>2. Ahead(sc) < Ahead(c) /\ Ahead(c) <= Ahead(ch)
      BY <2>1, <2>4, <3>1 DEF Within
    <3>3. Ahead(sc) \in Nat /\ Ahead(c) \in Nat /\ Ahead(ch) \in Nat
      BY AheadRanges
    <3>4. Ahead(sc)' < Ahead(c)'
      BY <3>2, <3>3 DEF AheadsKept
    <3>5. Ahead(c)' <= Ahead(ch)'
      <4>1. Ahead(c) = Ahead(ch) => c = ch
        BY AheadTells
      <4>2. Ahead(c) < Ahead(ch) => Ahead(c)' < Ahead(ch)'
        BY <3>2, <3>3 DEF AheadsKept
      <4>3. Ahead(c)' \in Nat /\ Ahead(ch)' \in Nat
        BY DEF AheadsKept
      <4> QED BY <3>2, <3>3, <4>1, <4>2, <4>3
    <3> QED BY <2>4, <3>1, <3>4, <3>5 DEF Within
  <2> QED BY <2>3, <2>4
<1>2. ASSUME NEW k \in 1 .. Len(q), NEW j \in k + 1 .. Len(q) PROVE Before(q[k], q[j])'
  <2>1. j \in 1 .. Len(q) /\ Before(q[k], q[j])
    BY DEF InOrder
  <2>2. /\ q[k].chunk \in Chunks /\ q[k].value \in Slots
        /\ q[j].chunk \in Chunks /\ q[j].value \in Slots
    BY <2>1, Stores
  <2>3. Within(q[k], si, ix, sc, ch)
    BY DEF Between
  <2>4. ASSUME q[k].index, q[j].index, q[k].chunk = q[j].chunk
        PROVE  Off(q[k].chunk, q[k].value)' < Off(q[k].chunk, q[j].value)'
    <3>1. PICK c \in Chunks : c = q[k].chunk
      BY <2>2
    <3>2. /\ Off(c, q[k].value) < Off(c, q[j].value)
          /\ Off(c, si[c]) < Off(c, q[k].value)
      BY <2>1, <2>3, <2>4, <3>1 DEF Before, Within
    <3>3. Off(c, si[c]) \in Nat /\ Off(c, q[k].value) \in Nat
      BY <2>2, OffRanges
    <3>4. Off(c, si[c]) <= Off(c, q[k].value)
      BY <3>2, <3>3
    <3> QED BY <2>2, <3>1, <3>2, <3>4 DEF OffsKept
  <2>5. ASSUME ~q[k].index
        PROVE  /\ Ahead(q[k].chunk) < Ahead(q[j].chunk) =>
                    Ahead(q[k].chunk)' < Ahead(q[j].chunk)'
               /\ Ahead(q[k].chunk) <= Ahead(q[j].chunk) =>
                    Ahead(q[k].chunk)' <= Ahead(q[j].chunk)'
    <3>1. PICK c \in Chunks, d \in Chunks : c = q[k].chunk /\ d = q[j].chunk
      BY <2>2
    <3>2. Ahead(sc) < Ahead(c)
      BY <2>3, <2>5, <3>1 DEF Within
    <3>3. Ahead(sc) \in Nat /\ Ahead(c) \in Nat /\ Ahead(d) \in Nat
      BY AheadRanges
    <3>4. Ahead(c) < Ahead(d) => Ahead(c)' < Ahead(d)'
      BY <3>2, <3>3 DEF AheadsKept
    <3>5. Ahead(c) <= Ahead(d) => Ahead(c)' <= Ahead(d)'
      <4>1. Ahead(c) = Ahead(d) => c = d
        BY AheadTells
      <4>2. Ahead(c)' \in Nat /\ Ahead(d)' \in Nat
        BY DEF AheadsKept
      <4> QED BY <3>3, <3>4, <4>1, <4>2
    <3> QED BY <3>1, <3>4, <3>5
  <2> QED BY <2>1, <2>4, <2>5 DEF Before
<1>3. /\ class.seqCst => q = <<>>
      /\ \A c \in Chunks : \/ si[c] = ix[c]
                           \/ \E k \in 1 .. Len(q) : q[k] = IndexStore(c, ix[c])
      /\ \/ sc = ch
         \/ \E k \in 1 .. Len(q) : q[k] = ChunkStore(ch)
  BY DEF Between
<1>4. InOrder(q)'
  BY <1>2 DEF InOrder
<1>5. Between(q, si, ix, sc, ch)'
  BY <1>1, <1>3 DEF Between
<1> QED BY <1>4, <1>5

\* The same of the two queues there are, when they are another queue now.
LEMMA ConsumerViewBecomes ==
  ASSUME TypeOK, NEW q \in Seq(Store), NEW si \in [Chunks -> Slots],
         NEW ix \in [Chunks -> Slots], NEW sc \in Chunks, NEW ch \in Chunks,
         InOrder(q), Between(q, si, ix, sc, ch), class' = class,
         OffsKept(si), AheadsKept(sc),
         q = toConsumer', si = tailSeen', ix = tail', sc = tailChunkSeen',
         ch = tailChunk', FirstElement'
  PROVE  ConsumerView'
<1>1. InOrder(q)' /\ Between(q, si, ix, sc, ch)'
  BY ViewKept
<1>2. InOrder(toConsumer)'
  BY <1>1 DEF InOrder
<1>3. Between(toConsumer, tailSeen, tail, tailChunkSeen, tailChunk)'
  BY <1>1 DEF Between, Within
<1> QED BY <1>2, <1>3 DEF ConsumerView

LEMMA ProducerViewBecomes ==
  ASSUME TypeOK, NEW q \in Seq(Store), NEW si \in [Chunks -> Slots],
         NEW ix \in [Chunks -> Slots], NEW sc \in Chunks, NEW ch \in Chunks,
         InOrder(q), Between(q, si, ix, sc, ch), class' = class,
         OffsKept(si), AheadsKept(sc),
         q = toProducer', si = headSeen', ix = head', sc = headChunkSeen',
         ch = headChunk'
  PROVE  ProducerView'
<1>1. InOrder(q)' /\ Between(q, si, ix, sc, ch)'
  BY ViewKept
<1>2. InOrder(toProducer)'
  BY <1>1 DEF InOrder
<1>3. Between(toProducer, headSeen, head, headChunkSeen, headChunk)'
  BY <1>1 DEF Between, Within
<1> QED BY <1>2, <1>3 DEF ProducerView

LEMMA ConsumerViewKept ==
  ASSUME TypeOK, ConsumerView,
         UNCHANGED <<toConsumer, tailSeen, tail, head, tailChunkSeen, tailChunk, class>>,
         OffsKept(tailSeen), AheadsKept(tailChunkSeen)
  PROVE  ConsumerView'
<1>1. PICK q \in Seq(Store), si \in [Chunks -> Slots], ix \in [Chunks -> Slots],
           sc \in Chunks, ch \in Chunks :
        /\ q = toConsumer /\ si = tailSeen /\ ix = tail
        /\ sc = tailChunkSeen /\ ch = tailChunk
  BY Ranges
<1>2. InOrder(q) /\ Between(q, si, ix, sc, ch)
  BY <1>1 DEF ConsumerView
<1>3. FirstElement'
  BY DEF ConsumerView, FirstElement
<1> QED BY <1>1, <1>2, <1>3, ConsumerViewBecomes

LEMMA ProducerViewKept ==
  ASSUME TypeOK, ProducerView,
         UNCHANGED <<toProducer, headSeen, head, headChunkSeen, headChunk, class>>,
         OffsKept(headSeen), AheadsKept(headChunkSeen)
  PROVE  ProducerView'
<1>1. PICK q \in Seq(Store), si \in [Chunks -> Slots], ix \in [Chunks -> Slots],
           sc \in Chunks, ch \in Chunks :
        /\ q = toProducer /\ si = headSeen /\ ix = head
        /\ sc = headChunkSeen /\ ch = headChunk
  BY Ranges
<1>2. InOrder(q) /\ Between(q, si, ix, sc, ch)
  BY <1>1 DEF ProducerView
<1> QED BY <1>1, <1>2, ProducerViewBecomes

\* Without a new origin all keep their order.
LEMMA AllKept ==
  ASSUME TypeOK, UNCHANGED <<headCache, headSeen, headChunkSeen, class>>,
         NEW si \in [Chunks -> Slots], NEW sc \in Chunks
  PROVE  OffsKept(si) /\ AheadsKept(sc)
<1>1. \A c \in Chunks : \A i \in Slots : Off(c, i)' = Off(c, i) /\ Off(c, i) \in Nat
  BY OffRanges DEF Off, Origin
<1>2. \A c \in Chunks : Ahead(c)' = Ahead(c) /\ Ahead(c) \in Nat
  BY AheadRanges DEF Ahead
<1> QED BY <1>1, <1>2 DEF OffsKept, AheadsKept

\* A later origin keeps the order of what is not before it.
LEMMA OrderKept ==
  ASSUME TypeOK, NEW c \in Chunks, Origin(c)' \in Slots,
         NEW i \in Slots, NEW j \in Slots, NEW k \in Slots,
         Off(c, Origin(c)') <= Off(c, k)
  PROVE  /\ Off(c, i)' \in Nat
         /\ Off(c, k) <= Off(c, i) /\ Off(c, i) < Off(c, j) => Off(c, i)' < Off(c, j)'
<1>1. Off(c, i)' \in Nat
  BY DistRange DEF Off
<1>2. ASSUME Off(c, k) <= Off(c, i), Off(c, i) < Off(c, j)
      PROVE  Off(c, i)' < Off(c, j)'
  <2>1. /\ Off(c, Origin(c)') \in Nat /\ Off(c, k) \in Nat
        /\ Off(c, i) \in Nat /\ Off(c, j) \in Nat
    BY OffRanges
  <2>2. Off(c, Origin(c)') <= Off(c, i) /\ Off(c, Origin(c)') <= Off(c, j)
    BY <1>2, <2>1
  <2> QED BY <1>2, <2>1, <2>2, OriginMoves
<1> QED BY <1>1, <1>2

\* The window and the consumer's state do not depend on the origin.
LEMMA WindowShifts ==
  ASSUME Invariant,
         UNCHANGED <<tailSeen, tail, head, tailCache, tailChunkSeen, headChunk,
                     headChunkSeen, consumer>>,
         \A c \in Chunks : /\ Origin(c)' \in Slots
                           /\ Off(c, Origin(c)') <= Off(c, headSeen'[c])
                           /\ headSeen'[c] \in Slots
                           /\ Off(c, headSeen'[c]) <= Off(c, head[c])
  PROVE  Window' /\ ConsumerFrame'
<1> USE DEF consumer, client
<1>a. TypeOK /\ Window /\ ConsumerFrame
  BY DEF Invariant
<1>o. \A c \in Chunks : Off(c, Origin(c)') \in Nat /\ Off(c, headSeen'[c]) \in Nat
  BY <1>a, OffRanges
<1>1. \A c \in Chunks : \A i \in Slots : Off(c, headSeen'[c]) <= Off(c, i) =>
        Off(c, i)' = Off(c, i) - Off(c, Origin(c)')
  <2> SUFFICES ASSUME NEW c \in Chunks, NEW i \in Slots, Off(c, headSeen'[c]) <= Off(c, i)
               PROVE  Off(c, i)' = Off(c, i) - Off(c, Origin(c)')
    OBVIOUS
  <2>1. Off(c, Origin(c)') <= Off(c, i)
    BY <1>a, <1>o, OffRanges
  <2> QED BY <2>1, <1>a, OriginMoves
<1>2. ASSUME NEW c \in Chunks, NEW i \in Slots, Off(c, head[c]) <= Off(c, i)
      PROVE  Off(c, i)' = Off(c, i) - Off(c, Origin(c)') /\ Off(c, i) \in Nat
  <2>1. Off(c, headSeen'[c]) <= Off(c, i) /\ Off(c, i) \in Nat
    BY <1>2, <1>a, <1>o, InWindow, OffRanges
  <2> QED BY <1>1, <2>1
<1>3. Window'
  <2> SUFFICES ASSUME NEW c \in Chunks
               PROVE  /\ Off(c, headSeen[c])' <= Off(c, head[c])'
                      /\ Off(c, head[c])' <= Off(c, tailSeen[c])'
                      /\ Off(c, tailSeen[c])' <= Off(c, tail[c])'
                      /\ class.cached /\ "consume_all" \notin ops =>
                           /\ Off(c, head[c])' <= Off(c, tailCache[c])'
                           /\ Off(c, tailCache[c])' <= Off(c, tailSeen[c])'
    BY DEF Window
  <2>1. Off(c, headSeen[c])' = Off(c, headSeen'[c]) - Off(c, Origin(c)')
    <3>1. PICK i \in Slots : i = headSeen'[c]
      OBVIOUS
    <3>2. Off(c, i)' = Off(c, i) - Off(c, Origin(c)')
      BY <1>1, <1>o, <3>1
    <3> QED BY <3>1, <3>2 DEF Off
  <2>2. /\ Off(c, head[c])' = Off(c, head[c]) - Off(c, Origin(c)')
        /\ Off(c, tailSeen[c])' = Off(c, tailSeen[c]) - Off(c, Origin(c)')
        /\ Off(c, tail[c])' = Off(c, tail[c]) - Off(c, Origin(c)')
    BY <1>a, <1>2, InWindow
  <2>3. class.cached /\ "consume_all" \notin ops =>
          Off(c, tailCache[c])' = Off(c, tailCache[c]) - Off(c, Origin(c)')
    BY <1>a, <1>2, InWindow DEF Window
  <2> QED BY <1>a, <1>o, <2>1, <2>2, <2>3, InWindow DEF Window
<1>4. cPc = "drain" =>
        /\ Off(hc, head[hc])' <= Off(hc, h)' /\ Off(hc, h)' <= Off(hc, t)'
        /\ Off(hc, t)' <= Off(hc, tailSeen[hc])'
  <2> SUFFICES ASSUME cPc = "drain"
               PROVE  /\ Off(hc, head[hc])' <= Off(hc, h)' /\ Off(hc, h)' <= Off(hc, t)'
                      /\ Off(hc, t)' <= Off(hc, tailSeen[hc])'
    OBVIOUS
  <2>1. /\ Off(hc, head[hc]) <= Off(hc, h) /\ Off(hc, h) <= Off(hc, t)
        /\ Off(hc, t) <= Off(hc, tailSeen[hc])
    BY <1>a DEF ConsumerFrame
  <2>2. /\ hc \in Chunks /\ h \in Slots /\ t \in Slots
        /\ head[hc] \in Slots /\ tailSeen[hc] \in Slots
        /\ Off(hc, head[hc]) \in Nat /\ Off(hc, h) \in Nat
        /\ Off(hc, t) \in Nat /\ Off(hc, tailSeen[hc]) \in Nat
    BY <1>a, Ranges, OffRanges
  <2>3. /\ Off(hc, head[hc])' = Off(hc, head[hc]) - Off(hc, Origin(hc)')
        /\ Off(hc, h)' = Off(hc, h) - Off(hc, Origin(hc)')
        /\ Off(hc, t)' = Off(hc, t) - Off(hc, Origin(hc)')
        /\ Off(hc, tailSeen[hc])' = Off(hc, tailSeen[hc]) - Off(hc, Origin(hc)')
    <3>1. Off(hc, head[hc]) <= Off(hc, t) /\ Off(hc, head[hc]) <= Off(hc, tailSeen[hc])
      BY <2>1, <2>2
    <3> QED BY <1>2, <2>1, <2>2, <3>1
  <2> QED BY <1>o, <2>1, <2>2, <2>3
<1>5. ConsumerFrame'
  BY <1>a, <1>4 DEF ConsumerFrame, LastFrame, Ahead, Consuming
<1> QED BY <1>3, <1>5

\* The look at the head the producer sees: its cache is what is seen then.
LEMMA HeadCacheRefreshed ==
  ASSUME Invariant, headCache' = Cached(headCache, tc, headSeen[tc]),
         UNCHANGED <<shared, tailCache, seen, tc, consumer>>,
         pPc # "publishChunk", pPc' # "publishChunk"
  PROVE  /\ headCache' \in [Chunks -> Slots] /\ Origin(tc)' = headSeen[tc]
         /\ Window' /\ Order' /\ Left' /\ Unentered' /\ Final' /\ Filled'
         /\ ConsumerView' /\ ProducerView' /\ ConsumerFrame' /\ Some'
         /\ \A c \in Chunks : Cursor(c)' = Cursor(c)
<1> USE DEF consumer, client, shared, seen
<1>a. TypeOK /\ Window /\ ConsumerView /\ ProducerView /\ Order
  BY DEF Invariant
<1>h. headCache' \in [Chunks -> Slots]
  BY <1>a, Ranges DEF Cached
<1>o. ASSUME NEW c \in Chunks
      PROVE  /\ Origin(c)' \in Slots
             /\ Off(c, Origin(c)') <= Off(c, headSeen[c])
             /\ headSeen'[c] \in Slots
             /\ Off(c, headSeen'[c]) <= Off(c, head[c])
             /\ c = tc => Origin(c)' = headSeen[c]
  <2>0. headSeen'[c] \in Slots /\ Off(c, headSeen'[c]) <= Off(c, head[c])
    BY <1>a, InWindow
  <2>1. Origin(c)' \in {Origin(c), headSeen[c]} /\ (c = tc => Origin(c)' = headSeen[c])
    BY <1>a, Ranges DEF Origin, Cached
  <2>2. CASE Origin(c)' = headSeen[c]
    BY <1>a, <2>0, <2>1, <2>2, InWindow
  <2>3. CASE Origin(c)' = Origin(c)
    <3>1. Off(c, Origin(c)) = 0
      BY <1>a, OffRanges, Ranges, DistBasics DEF Off
    <3>2. Origin(c)' \in Slots
      BY <1>a, <2>3, OffRanges, Ranges
    <3> QED BY <1>a, <2>0, <2>1, <2>3, <3>1, <3>2, InWindow
  <2> QED BY <2>1, <2>2, <2>3
<1>d. \A c, d \in Chunks : Ahead(c)' \in Nat /\ (Ahead(c) < Ahead(d) => Ahead(c)' < Ahead(d)')
  BY <1>a, AheadRanges DEF Ahead
<1>v. ConsumerView' /\ ProducerView'
  <2>1. ASSUME NEW c \in Chunks, NEW i \in Slots, NEW j \in Slots
        PROVE  /\ Off(c, i)' \in Nat
               /\ Off(c, tailSeen[c]) <= Off(c, i) /\ Off(c, i) < Off(c, j) =>
                    Off(c, i)' < Off(c, j)'
               /\ Off(c, headSeen[c]) <= Off(c, i) /\ Off(c, i) < Off(c, j) =>
                    Off(c, i)' < Off(c, j)'
    <3>1. /\ tailSeen[c] \in Slots /\ headSeen[c] \in Slots /\ Origin(c)' \in Slots
          /\ Off(c, Origin(c)') <= Off(c, headSeen[c])
      BY <1>a, <1>o, InWindow
    <3>2. Off(c, Origin(c)') <= Off(c, tailSeen[c])
      BY <1>a, <3>1, InWindow, OffRanges
    <3> QED BY <1>a, <3>1, <3>2, OrderKept
  <2>2. ConsumerView'
    BY <1>a, <1>d, <2>1, ConsumerViewKept DEF OffsKept, AheadsKept
  <2>3. ProducerView'
    BY <1>a, <1>d, <2>1, ProducerViewKept DEF OffsKept, AheadsKept
  <2> QED BY <2>2, <2>3
<1>w. Window' /\ ConsumerFrame'
  <2>1. \A c \in Chunks : /\ Origin(c)' \in Slots
                          /\ Off(c, Origin(c)') <= Off(c, headSeen'[c])
                          /\ headSeen'[c] \in Slots
                          /\ Off(c, headSeen'[c]) <= Off(c, head[c])
    BY <1>o
  <2> QED BY <2>1, WindowShifts
<1>c. Consuming' = Consuming
  BY DEF Consuming
<1>1. Order' /\ Final'
  BY <1>c DEF Invariant, Order, Ahead, Final
<1>2. Left' /\ Filled' /\ Unentered'
  BY <1>c DEF Invariant, Left, Filled, Unentered, Ahead
<1>3. Some'
  BY <1>c DEF Invariant, Some
<1>4. \A c \in Chunks : Cursor(c)' = Cursor(c)
  BY DEF Cursor
<1> QED BY <1>h, <1>o, <1>a, <1>v, <1>w, <1>1, <1>2, <1>3, <1>4, Ranges

\* A chunk is not full when its next index is not what is seen of the head.
LEMMA ReloadHeadStep ==
  ASSUME Invariant, ReloadHead
  PROVE  Invariant'
<1> USE DEF ReloadHead
<1>a. TypeOK /\ ProducerFrame /\ Order
  BY DEF Invariant
<1>p. pPc' \in {"cross", "construct"} /\ tc' = tc /\ tc = tailChunk
  BY <1>a DEF ProducerFrame
<1>l. /\ headCache' \in [Chunks -> Slots] /\ Origin(tc)' = headSeen[tc]
      /\ Window' /\ Order' /\ Left' /\ Unentered' /\ Final' /\ Filled'
      /\ ConsumerView' /\ ProducerView' /\ ConsumerFrame' /\ Some'
      /\ \A c \in Chunks : Cursor(c)' = Cursor(c)
  BY HeadCacheRefreshed
<1>1. TypeOK'
  BY <1>a, <1>l, <1>p, Ranges DEF TypeOK, shared, seen, consumer, client
<1>2. ProducerFrame'
  <2>1. tail[tc] \in Slots /\ headSeen[tc] \in Slots
    BY <1>a, Ranges
  <2>2. pPc' = "construct" => Dist(headSeen[tc], tail[tc]) < ChunkSize - 1
    BY <2>1, NextBasics, DistRange, ChunkSizeAssumption
  <2>3. pPc' = "construct" => Off(tc, tail[tc])' < ChunkSize - 1
    BY <1>l, <2>2 DEF Off, shared
  <2> QED BY <1>p, <2>3 DEF ProducerFrame, shared
<1>3. LiveExactly'
  BY <1>l, <1>p, LiveStays DEF Invariant, Built, shared
<1> QED BY <1>l, <1>1, <1>2, <1>3 DEF Invariant

\* The chunk entered is empty as the producer sees it.
LEMMA RefreshHeadStep ==
  ASSUME Invariant, RefreshHead
  PROVE  Invariant'
<1> USE DEF RefreshHead
<1>a. TypeOK /\ ProducerFrame /\ Order /\ Unentered
  BY DEF Invariant
<1>l. /\ headCache' \in [Chunks -> Slots] /\ Origin(tc)' = headSeen[tc]
      /\ Window' /\ Order' /\ Left' /\ Unentered' /\ Final' /\ Filled'
      /\ ConsumerView' /\ ProducerView' /\ ConsumerFrame' /\ Some'
      /\ \A c \in Chunks : Cursor(c)' = Cursor(c)
  BY HeadCacheRefreshed
<1>1. TypeOK'
  BY <1>a, <1>l, Ranges DEF TypeOK, shared, seen, consumer, client
<1>2. ProducerFrame'
  <2>1. Ahead(tc) > Ahead(tailChunk)
    <3>1. tc # tailChunk /\ Ahead(tailChunk) <= Ahead(tc)
      BY <1>a DEF ProducerFrame, Order
    <3>2. Ahead(tailChunk) # Ahead(tc)
      BY <1>a, <3>1, Ranges, ChunkDistBasics DEF Ahead
    <3> QED BY <1>a, <3>1, <3>2, Ranges, AheadRanges
  <2>2. headSeen[tc] = tail[tc] /\ tail[tc] \in Slots
    BY <1>a, <2>1, Ranges DEF Unentered
  <2>3. Off(tc, tail[tc])' = 0
    BY <1>l, <2>2, DistBasics DEF Off, shared
  <2> QED BY <1>a, <2>3, ChunkSizeAssumption DEF ProducerFrame, shared
<1>3. LiveExactly'
  BY <1>l, LiveStays DEF Invariant, Built, shared
<1> QED BY <1>l, <1>1, <1>2, <1>3 DEF Invariant

-----------------------------------------------------------------------------
(* The producer stores, and its stores are seen.                           *)

\* Each view of the producer by itself depends on few variables.
LEMMA ProducerViewStays ==
  ASSUME ProducerView,
         UNCHANGED <<toProducer, headSeen, head, headChunkSeen, headChunk, headCache,
                     class>>
  PROVE  ProducerView'
BY DEF ProducerView, InOrder, Before, Between, Within, Ahead, Off, Origin

\* What the consumer sees may only grow.
LEMMA TailSeenGrows ==
  ASSUME Invariant,
         UNCHANGED <<head, headChunk, headCache, headSeen, headChunkSeen, tailCache,
                     consumer>>,
         \A c \in Chunks : /\ tailSeen'[c] \in Slots /\ tail'[c] \in Slots
                           /\ Off(c, tailSeen[c]) <= Off(c, tailSeen'[c])
                           /\ Off(c, tailSeen'[c]) <= Off(c, tail'[c]),
         tailChunkSeen' \in Chunks, tailChunk' \in Chunks, tc' \in Chunks,
         Ahead(tailChunkSeen) <= Ahead(tailChunkSeen'),
         Ahead(tailChunkSeen') <= Ahead(tailChunk'), Ahead(tailChunk') <= Ahead(tc'),
         cPc = "drain" /\ hc # last => tail'[hc] = tail[hc]
  PROVE  /\ Window' /\ Order' /\ ConsumerFrame' /\ Some'
         /\ \A c \in Chunks : head[c] # tailSeen[c] => head'[c] # tailSeen'[c]
         /\ \A c \in Chunks : Ahead(c)' = Ahead(c)
         /\ \A c \in Chunks, i \in Slots : Off(c, i)' = Off(c, i)
         /\ \A c \in Chunks : Cursor(c)' = Cursor(c)
<1> USE DEF consumer, client
<1>a. TypeOK /\ Window /\ Order /\ ConsumerFrame /\ Some
  BY DEF Invariant
<1>o. \A c \in Chunks, i \in Slots : Off(c, i)' = Off(c, i)
  BY DEF Off, Origin
<1>d. \A c \in Chunks : Ahead(c)' = Ahead(c)
  BY DEF Ahead
<1>c. Consuming' = Consuming /\ Consuming \in Chunks /\ last \in Chunks /\ hc \in Chunks
  BY <1>a, Ranges DEF Consuming
<1>n. \A c \in Chunks : Off(c, tailSeen'[c]) \in Nat /\ Off(c, tail'[c]) \in Nat
  BY <1>a, OffRanges
<1>1. ASSUME NEW c \in Chunks, head[c] # tailSeen[c] PROVE head'[c] # tailSeen'[c]
  <2>1. Off(c, head[c]) # Off(c, tailSeen[c])
    BY <1>a, <1>1, InWindow, OffTells
  <2>2. Off(c, head[c]) < Off(c, tailSeen'[c])
    BY <1>a, <1>n, <2>1, InWindow
  <2>3. head[c] \in Slots /\ Off(c, head[c]) \in Nat
    BY <1>a, InWindow
  <2> QED BY <1>n, <2>2, <2>3
<1>2. Window'
  <2> SUFFICES ASSUME NEW c \in Chunks
               PROVE  /\ Off(c, headSeen[c])' <= Off(c, head[c])'
                      /\ Off(c, head[c])' <= Off(c, tailSeen[c])'
                      /\ Off(c, tailSeen[c])' <= Off(c, tail[c])'
                      /\ class.cached /\ "consume_all" \notin ops =>
                           /\ Off(c, head[c])' <= Off(c, tailCache[c])'
                           /\ Off(c, tailCache[c])' <= Off(c, tailSeen[c])'
    BY DEF Window
  <2>1. /\ Off(c, headSeen[c])' = Off(c, headSeen[c])
        /\ Off(c, head[c])' = Off(c, head[c])
        /\ Off(c, tailCache[c])' = Off(c, tailCache[c])
        /\ Off(c, tailSeen[c])' = Off(c, tailSeen'[c])
        /\ Off(c, tail[c])' = Off(c, tail'[c])
    BY DEF Off, Origin
  <2> QED BY <1>a, <1>n, <2>1, InWindow DEF Window
<1>3. Order'
  <2>1. /\ Ahead(tailChunkSeen)' = Ahead(tailChunkSeen')
        /\ Ahead(tailChunk)' = Ahead(tailChunk') /\ Ahead(tc)' = Ahead(tc')
        /\ Ahead(headChunk)' = Ahead(headChunk)
        /\ Ahead(Consuming)' = Ahead(Consuming)
    BY <1>c DEF Ahead
  <2>2. /\ Ahead(tailChunkSeen') \in Nat /\ Ahead(tailChunkSeen) \in Nat
        /\ Ahead(Consuming) \in Nat
    BY <1>a, <1>c, AheadRanges, Ranges
  <2> QED BY <1>a, <2>1, <2>2 DEF Order
<1>4. LastFrame => LastFrame'
  <2>1. /\ Ahead(tailChunkSeen)' = Ahead(tailChunkSeen')
        /\ Ahead(last)' = Ahead(last) /\ Ahead(Consuming)' = Ahead(Consuming)
    BY <1>c DEF Ahead
  <2>2. /\ Ahead(tailChunkSeen') \in Nat /\ Ahead(tailChunkSeen) \in Nat
        /\ Ahead(last) \in Nat
    BY <1>a, <1>c, AheadRanges, Ranges
  <2> QED BY <2>1, <2>2 DEF LastFrame
<1>5. cPc = "drain" =>
        /\ Off(hc, head[hc])' <= Off(hc, h)' /\ Off(hc, h)' <= Off(hc, t)'
        /\ Off(hc, t)' <= Off(hc, tailSeen[hc])'
        /\ hc # last => t = tail'[hc]
  <2> SUFFICES ASSUME cPc = "drain"
               PROVE  /\ Off(hc, head[hc])' <= Off(hc, h)' /\ Off(hc, h)' <= Off(hc, t)'
                      /\ Off(hc, t)' <= Off(hc, tailSeen[hc])'
                      /\ hc # last => t = tail'[hc]
    OBVIOUS
  <2>1. /\ Off(hc, head[hc]) <= Off(hc, h) /\ Off(hc, h) <= Off(hc, t)
        /\ Off(hc, t) <= Off(hc, tailSeen[hc])
        /\ hc # last => t = tail[hc]
    BY <1>a DEF ConsumerFrame
  <2>2. Off(hc, t) \in Nat /\ Off(hc, tailSeen[hc]) \in Nat
    BY <1>a, Ranges, OffRanges
  <2>3. /\ Off(hc, head[hc])' = Off(hc, head[hc]) /\ Off(hc, h)' = Off(hc, h)
        /\ Off(hc, t)' = Off(hc, t) /\ Off(hc, tailSeen[hc])' = Off(hc, tailSeen'[hc])
    BY DEF Off, Origin
  <2> QED BY <1>n, <1>c, <2>1, <2>2, <2>3
<1>6. ConsumerFrame'
  BY <1>a, <1>c, <1>1, <1>4, <1>5 DEF ConsumerFrame
<1>7. Some'
  <2>1. Consuming # tailChunkSeen => Consuming # tailChunkSeen'
    <3>1. Consuming # tailChunkSeen => Ahead(Consuming) # Ahead(tailChunkSeen)
      BY <1>a, <1>c, Ranges, AheadTells
    <3>2. Consuming # tailChunkSeen => Ahead(Consuming) # Ahead(tailChunkSeen')
      BY <1>a, <1>c, <3>1, Ranges, AheadRanges DEF Order
    <3> QED BY <3>2
  <2> QED BY <1>a, <1>c, <1>1, <2>1 DEF Some
<1>8. \A c \in Chunks : Cursor(c)' = Cursor(c)
  BY DEF Cursor
<1> QED BY <1>o, <1>d, <1>1, <1>2, <1>3, <1>6, <1>7, <1>8

\* A queue with one store more, and with the first one gone.
LEMMA Appended ==
  ASSUME NEW q \in Seq(Store), NEW s \in Store
  PROVE  /\ Append(q, s) \in Seq(Store) /\ Len(Append(q, s)) = Len(q) + 1
         /\ Len(q) \in Nat /\ Append(q, s)[Len(q) + 1] = s
         /\ \A k \in 1 .. Len(q) : Append(q, s)[k] = q[k]
OBVIOUS

LEMMA Popped ==
  ASSUME NEW q \in Seq(Store), q # <<>>
  PROVE  /\ Tail(q) \in Seq(Store) /\ Len(Tail(q)) = Len(q) - 1 /\ Len(q) \in Nat
         /\ Head(q) = q[1] /\ 1 \in 1 .. Len(q)
         /\ \A k \in 1 .. Len(Tail(q)) : k + 1 \in 1 .. Len(q) /\ Tail(q)[k] = q[k + 1]
OBVIOUS

\* A store that comes after all of the queue keeps it in order.
LEMMA AppendInOrder ==
  ASSUME NEW q \in Seq(Store), NEW s \in Store, InOrder(q),
         \A k \in 1 .. Len(q) : Before(q[k], s)
  PROVE  InOrder(Append(q, s))
<1> DEFINE r == Append(q, s)
<1> SUFFICES ASSUME NEW k \in 1 .. Len(r), NEW j \in k + 1 .. Len(r)
             PROVE  Before(r[k], r[j])
  BY DEF InOrder
<1>1. k \in 1 .. Len(q) /\ r[k] = q[k]
  BY Appended
<1>2. CASE j \in k + 1 .. Len(q)
  BY <1>1, <1>2, Appended DEF InOrder
<1>3. CASE j = Len(q) + 1
  BY <1>1, <1>3, Appended
<1> QED BY <1>1, <1>2, <1>3, Appended

LEMMA PopInOrder ==
  ASSUME NEW q \in Seq(Store), q # <<>>, InOrder(q)
  PROVE  /\ InOrder(Tail(q))
         /\ \A k \in 1 .. Len(Tail(q)) : Before(Head(q), Tail(q)[k])
<1>1. ASSUME NEW k \in 1 .. Len(Tail(q)), NEW j \in k + 1 .. Len(Tail(q))
      PROVE  Before(Tail(q)[k], Tail(q)[j])
  <2>1. /\ k + 1 \in 1 .. Len(q) /\ j + 1 \in k + 1 + 1 .. Len(q)
        /\ Tail(q)[k] = q[k + 1] /\ Tail(q)[j] = q[j + 1]
    BY Popped
  <2> QED BY <2>1 DEF InOrder
<1>2. ASSUME NEW k \in 1 .. Len(Tail(q)) PROVE Before(Head(q), Tail(q)[k])
  <2>1. /\ k + 1 \in 1 + 1 .. Len(q) /\ 1 \in 1 .. Len(q)
        /\ Head(q) = q[1] /\ Tail(q)[k] = q[k + 1]
    BY Popped
  <2> QED BY <2>1 DEF InOrder
<1> QED BY <1>1, <1>2 DEF InOrder

\* An index moves on and its store is the last of the queue.
LEMMA AppendIndex ==
  ASSUME TypeOK, NEW q \in Seq(Store), NEW si \in [Chunks -> Slots],
         NEW ix \in [Chunks -> Slots], NEW sc \in Chunks, NEW ch \in Chunks,
         ~class.seqCst, InOrder(q), Between(q, si, ix, sc, ch),
         NEW c \in Chunks, NEW i \in Slots, Ahead(ch) <= Ahead(c),
         Off(c, si[c]) <= Off(c, ix[c]), Off(c, ix[c]) < Off(c, i)
  PROVE  LET r == Append(q, IndexStore(c, i)) IN
         r \in Seq(Store) /\ InOrder(r) /\ Between(r, si, [ix EXCEPT ![c] = i], sc, ch)
<1> DEFINE s == IndexStore(c, i)
<1> DEFINE r == Append(q, s)
<1> DEFINE iy == [ix EXCEPT ![c] = i]
<1>1. s \in Store /\ s.index /\ s.chunk = c /\ s.value = i
  BY DEF IndexStore, Store
<1>2. /\ iy \in [Chunks -> Slots] /\ iy[c] = i
      /\ \A d \in Chunks : d # c => iy[d] = ix[d]
  OBVIOUS
<1>n. Off(c, si[c]) \in Nat /\ Off(c, ix[c]) \in Nat /\ Off(c, i) \in Nat
  BY OffRanges
<1> HIDE DEF s, iy
<1>3. ASSUME NEW k \in 1 .. Len(q) PROVE Before(q[k], s) /\ Within(q[k], si, iy, sc, ch)
  <2>1. Within(q[k], si, ix, sc, ch)
    BY DEF Between
  <2>2. q[k].chunk \in Chunks /\ q[k].value \in Slots
    BY Stores
  <2>3. CASE q[k].index /\ q[k].chunk = c
    <3>1. Off(c, si[c]) < Off(c, q[k].value) /\ Off(c, q[k].value) <= Off(c, ix[c])
      BY <2>1, <2>3 DEF Within
    <3>2. Off(c, q[k].value) \in Nat
      BY <2>2, OffRanges
    <3>3. Off(c, q[k].value) < Off(c, i) /\ Off(c, q[k].value) <= Off(c, i)
      BY <1>n, <3>1, <3>2
    <3> QED BY <1>1, <1>2, <2>3, <3>1, <3>3 DEF Before, Within
  <2>4. CASE q[k].index /\ q[k].chunk # c
    BY <1>1, <1>2, <2>1, <2>2, <2>4 DEF Before, Within
  <2>5. CASE ~q[k].index
    <3>1. Ahead(sc) < Ahead(q[k].chunk) /\ Ahead(q[k].chunk) <= Ahead(ch)
      BY <2>1, <2>5 DEF Within
    <3>2. Ahead(q[k].chunk) \in Nat /\ Ahead(ch) \in Nat /\ Ahead(c) \in Nat
      BY <2>2, AheadRanges
    <3>3. Ahead(q[k].chunk) <= Ahead(c)
      BY <3>1, <3>2
    <3> QED BY <1>1, <2>5, <3>1, <3>3 DEF Before, Within
  <2> QED BY <2>3, <2>4, <2>5
<1>4. r \in Seq(Store) /\ InOrder(r)
  BY <1>1, <1>3, Appended, AppendInOrder
<1>5. Within(s, si, iy, sc, ch)
  BY <1>1, <1>2, <1>n DEF Within
<1>6. \A k \in 1 .. Len(r) : Within(r[k], si, iy, sc, ch)
  BY <1>1, <1>3, <1>5, Appended
<1>7. ASSUME NEW d \in Chunks
      PROVE  si[d] = iy[d] \/ \E k \in 1 .. Len(r) : r[k] = IndexStore(d, iy[d])
  <2>1. CASE d = c
    <3>1. r[Len(q) + 1] = IndexStore(d, iy[d]) /\ Len(q) + 1 \in 1 .. Len(r)
      BY <1>1, <1>2, <2>1, Appended DEF s
    <3> QED BY <3>1
  <2>2. CASE d # c
    <3>1. si[d] = ix[d] \/ \E k \in 1 .. Len(q) : q[k] = IndexStore(d, ix[d])
      BY DEF Between
    <3>2. \A k \in 1 .. Len(q) : k \in 1 .. Len(r) /\ r[k] = q[k]
      BY <1>1, Appended
    <3> QED BY <1>2, <2>2, <3>1, <3>2
  <2> QED BY <2>1, <2>2
<1>8. sc = ch \/ \E k \in 1 .. Len(r) : r[k] = ChunkStore(ch)
  <2>1. sc = ch \/ \E k \in 1 .. Len(q) : q[k] = ChunkStore(ch)
    BY DEF Between
  <2>2. \A k \in 1 .. Len(q) : k \in 1 .. Len(r) /\ r[k] = q[k]
    BY <1>1, Appended
  <2> QED BY <2>1, <2>2
<1>9. Between(r, si, iy, sc, ch)
  BY <1>6, <1>7, <1>8 DEF Between
<1> QED BY <1>4, <1>9 DEF s, iy

\* So does a chunk pointer.
LEMMA AppendChunk ==
  ASSUME TypeOK, NEW q \in Seq(Store), NEW si \in [Chunks -> Slots],
         NEW ix \in [Chunks -> Slots], NEW sc \in Chunks, NEW ch \in Chunks,
         ~class.seqCst, InOrder(q), Between(q, si, ix, sc, ch),
         NEW c \in Chunks, Ahead(sc) <= Ahead(ch), Ahead(ch) < Ahead(c)
  PROVE  LET r == Append(q, ChunkStore(c)) IN
         r \in Seq(Store) /\ InOrder(r) /\ Between(r, si, ix, sc, c)
<1> DEFINE s == ChunkStore(c)
<1> DEFINE r == Append(q, s)
<1>1. s \in Store /\ ~s.index /\ s.chunk = c
  BY ChunkSizeAssumption DEF ChunkStore, Store, Slots
<1>n. Ahead(sc) \in Nat /\ Ahead(ch) \in Nat /\ Ahead(c) \in Nat
  BY AheadRanges
<1> HIDE DEF s
<1>3. ASSUME NEW k \in 1 .. Len(q) PROVE Before(q[k], s) /\ Within(q[k], si, ix, sc, c)
  <2>1. Within(q[k], si, ix, sc, ch)
    BY DEF Between
  <2>2. Ahead(q[k].chunk) \in Nat
    BY Stores, AheadRanges
  <2>3. CASE q[k].index
    BY <1>1, <2>1, <2>3 DEF Before, Within
  <2>4. CASE ~q[k].index
    <3>1. Ahead(sc) < Ahead(q[k].chunk) /\ Ahead(q[k].chunk) <= Ahead(ch)
      BY <2>1, <2>4 DEF Within
    <3>2. Ahead(q[k].chunk) < Ahead(c) /\ Ahead(q[k].chunk) <= Ahead(c)
      BY <1>n, <2>2, <3>1
    <3> QED BY <1>1, <2>4, <3>1, <3>2 DEF Before, Within
  <2> QED BY <2>3, <2>4
<1>4. r \in Seq(Store) /\ InOrder(r)
  BY <1>1, <1>3, Appended, AppendInOrder
<1>5. Within(s, si, ix, sc, c)
  BY <1>1, <1>n DEF Within
<1>6. \A k \in 1 .. Len(r) : Within(r[k], si, ix, sc, c)
  BY <1>1, <1>3, <1>5, Appended
<1>o. \A k \in 1 .. Len(q) : k \in 1 .. Len(r) /\ r[k] = q[k]
  BY <1>1, Appended
<1>7. \A d \in Chunks : si[d] = ix[d] \/ \E k \in 1 .. Len(r) : r[k] = IndexStore(d, ix[d])
  BY <1>o DEF Between
<1>8. Len(q) + 1 \in 1 .. Len(r) /\ r[Len(q) + 1] = ChunkStore(c)
  BY <1>1, Appended DEF s
<1>9. Between(r, si, ix, sc, c)
  BY <1>6, <1>7, <1>8 DEF Between
<1> QED BY <1>4, <1>9 DEF s

\* The first store of the queue is seen: it is of an index ...
LEMMA PopIndex ==
  ASSUME TypeOK, NEW q \in Seq(Store), NEW si \in [Chunks -> Slots],
         NEW ix \in [Chunks -> Slots], NEW sc \in Chunks, NEW ch \in Chunks,
         InOrder(q), Between(q, si, ix, sc, ch), q # <<>>, Head(q).index,
         NEW c \in Chunks, NEW i \in Slots, c = Head(q).chunk, i = Head(q).value
  PROVE  /\ ~class.seqCst /\ Tail(q) \in Seq(Store) /\ InOrder(Tail(q))
         /\ Between(Tail(q), [si EXCEPT ![c] = i], ix, sc, ch)
         /\ Off(c, si[c]) < Off(c, i) /\ Off(c, i) <= Off(c, ix[c])
<1> DEFINE r == Tail(q)
<1> DEFINE sj == [si EXCEPT ![c] = i]
<1>1. r \in Seq(Store) /\ InOrder(r)
  BY Popped, PopInOrder
<1>2. sj \in [Chunks -> Slots] /\ sj[c] = i /\ \A d \in Chunks : d # c => sj[d] = si[d]
  OBVIOUS
<1> HIDE DEF sj
<1>3. ~class.seqCst
  BY DEF Between
<1>4. Off(c, si[c]) < Off(c, i) /\ Off(c, i) <= Off(c, ix[c])
  <2>1. Within(q[1], si, ix, sc, ch)
    BY Popped DEF Between
  <2> QED BY <2>1, Popped DEF Within
<1>5. ASSUME NEW k \in 1 .. Len(r) PROVE Within(r[k], sj, ix, sc, ch)
  <2>1. Within(r[k], si, ix, sc, ch) /\ Before(Head(q), r[k])
    BY Popped, PopInOrder DEF Between
  <2>2. CASE r[k].index /\ r[k].chunk = c
    BY <1>2, <2>1, <2>2 DEF Within, Before
  <2>3. CASE r[k].index /\ r[k].chunk # c
    <3>1. r[k].chunk \in Chunks
      BY <1>1, Stores
    <3> QED BY <1>2, <2>1, <2>3, <3>1 DEF Within
  <2>4. CASE ~r[k].index
    BY <2>1, <2>4 DEF Within
  <2> QED BY <2>2, <2>3, <2>4
<1>6. \A k \in 1 .. Len(q) : q[k] = Head(q) \/ \E j \in 1 .. Len(r) : r[j] = q[k]
  <2> SUFFICES ASSUME NEW k \in 1 .. Len(q), k # 1
               PROVE  \E j \in 1 .. Len(r) : r[j] = q[k]
    BY Popped
  <2>1. k - 1 \in 1 .. Len(r) /\ r[k - 1] = q[k]
    <3>1. k - 1 \in 1 .. Len(r)
      BY Popped
    <3>2. r[k - 1] = q[k - 1 + 1]
      BY <3>1, Popped
    <3> QED BY <3>1, <3>2
  <2> QED BY <2>1
<1>7. ASSUME NEW d \in Chunks
      PROVE  sj[d] = ix[d] \/ \E k \in 1 .. Len(r) : r[k] = IndexStore(d, ix[d])
  <2>1. si[d] = ix[d] \/ \E k \in 1 .. Len(q) : q[k] = IndexStore(d, ix[d])
    BY DEF Between
  <2>2. CASE si[d] = ix[d]
    <3>1. d # c
      <4>1. Off(c, si[c]) \in Nat /\ Off(c, i) \in Nat
        BY OffRanges
      <4> QED BY <1>4, <2>2, <4>1
    <3> QED BY <1>2, <2>2, <3>1
  <2>3. CASE \E k \in 1 .. Len(q) : q[k] = IndexStore(d, ix[d])
    <3>1. PICK k \in 1 .. Len(q) : q[k] = IndexStore(d, ix[d])
      BY <2>3
    <3>2. CASE q[k] = Head(q)
      <4>1. d = c /\ ix[d] = i
        BY <3>1, <3>2 DEF IndexStore
      <4> QED BY <1>2, <4>1
    <3>3. CASE \E j \in 1 .. Len(r) : r[j] = q[k]
      BY <3>1, <3>3
    <3> QED BY <1>6, <3>2, <3>3
  <2> QED BY <2>1, <2>2, <2>3
<1>8. sc = ch \/ \E k \in 1 .. Len(r) : r[k] = ChunkStore(ch)
  <2>1. sc = ch \/ \E k \in 1 .. Len(q) : q[k] = ChunkStore(ch)
    BY DEF Between
  <2>2. \A k \in 1 .. Len(q) : q[k] = ChunkStore(ch) => q[k] # Head(q)
    BY DEF ChunkStore
  <2> QED BY <1>6, <2>1, <2>2
<1>9. Between(r, sj, ix, sc, ch)
  BY <1>3, <1>5, <1>7, <1>8 DEF Between
<1> QED BY <1>1, <1>3, <1>4, <1>9 DEF sj

\* ... or of a chunk pointer.
LEMMA PopChunk ==
  ASSUME TypeOK, NEW q \in Seq(Store), NEW si \in [Chunks -> Slots],
         NEW ix \in [Chunks -> Slots], NEW sc \in Chunks, NEW ch \in Chunks,
         InOrder(q), Between(q, si, ix, sc, ch), q # <<>>, ~Head(q).index,
         NEW c \in Chunks, c = Head(q).chunk
  PROVE  /\ ~class.seqCst /\ Tail(q) \in Seq(Store) /\ InOrder(Tail(q))
         /\ Between(Tail(q), si, ix, c, ch)
         /\ Ahead(sc) < Ahead(c) /\ Ahead(c) <= Ahead(ch)
<1> DEFINE r == Tail(q)
<1>1. r \in Seq(Store) /\ InOrder(r)
  BY Popped, PopInOrder
<1>3. ~class.seqCst
  BY DEF Between
<1>4. Ahead(sc) < Ahead(c) /\ Ahead(c) <= Ahead(ch)
  <2>1. Within(q[1], si, ix, sc, ch)
    BY Popped DEF Between
  <2> QED BY <2>1, Popped DEF Within
<1>5. ASSUME NEW k \in 1 .. Len(r) PROVE Within(r[k], si, ix, c, ch)
  <2>1. Within(r[k], si, ix, sc, ch) /\ Before(Head(q), r[k])
    BY Popped, PopInOrder DEF Between
  <2> QED BY <2>1 DEF Within, Before
<1>6. \A k \in 1 .. Len(q) : q[k] = Head(q) \/ \E j \in 1 .. Len(r) : r[j] = q[k]
  <2> SUFFICES ASSUME NEW k \in 1 .. Len(q), k # 1
               PROVE  \E j \in 1 .. Len(r) : r[j] = q[k]
    BY Popped
  <2>1. k - 1 \in 1 .. Len(r) /\ r[k - 1] = q[k]
    <3>1. k - 1 \in 1 .. Len(r)
      BY Popped
    <3>2. r[k - 1] = q[k - 1 + 1]
      BY <3>1, Popped
    <3> QED BY <3>1, <3>2
  <2> QED BY <2>1
<1>7. ASSUME NEW d \in Chunks
      PROVE  si[d] = ix[d] \/ \E k \in 1 .. Len(r) : r[k] = IndexStore(d, ix[d])
  <2>1. si[d] = ix[d] \/ \E k \in 1 .. Len(q) : q[k] = IndexStore(d, ix[d])
    BY DEF Between
  <2>2. \A k \in 1 .. Len(q) : q[k] = IndexStore(d, ix[d]) => q[k] # Head(q)
    BY DEF IndexStore
  <2> QED BY <1>6, <2>1, <2>2
<1>8. c = ch \/ \E k \in 1 .. Len(r) : r[k] = ChunkStore(ch)
  <2>1. sc = ch \/ \E k \in 1 .. Len(q) : q[k] = ChunkStore(ch)
    BY DEF Between
  <2>2. sc # ch
    BY <1>4, AheadRanges
  <2>3. PICK k \in 1 .. Len(q) : q[k] = ChunkStore(ch)
    BY <2>1, <2>2
  <2>4. q[k] = Head(q) => c = ch
    BY <2>3 DEF ChunkStore
  <2> QED BY <1>6, <2>3, <2>4
<1>9. Between(r, si, ix, c, ch)
  BY <1>3, <1>5, <1>7, <1>8 DEF Between
<1> QED BY <1>1, <1>3, <1>4, <1>9

-----------------------------------------------------------------------------
(* The producer's stores.                                                  *)

\* The tail of the producer's chunk moves on, its store the last of all.
LEMMA TailQueued ==
  ASSUME Invariant, NEW i \in Slots, StoreTail(tc, i), Off(tc, tail[tc]) < Off(tc, i),
         UNCHANGED <<headCache, class>>
  PROVE  /\ ConsumerView' /\ toConsumer' \in Seq(Store)
         /\ tail' \in [Chunks -> Slots] /\ tailSeen' \in [Chunks -> Slots]
         /\ \A c \in Chunks : /\ c # tc => tail'[c] = tail[c] /\ tailSeen'[c] = tailSeen[c]
                              /\ Off(c, tailSeen[c]) <= Off(c, tailSeen'[c])
                              /\ Off(c, tailSeen'[c]) <= Off(c, tail'[c])
         /\ tail'[tc] = i
<1> DEFINE q == toConsumer
<1> DEFINE s == IndexStore(tc, i)
<1> USE DEF StoreTail
<1>a. TypeOK /\ Window /\ ConsumerView /\ Order
  BY DEF Invariant
<1>r. tc \in Chunks /\ tail[tc] \in Slots /\ tail[tc] # i
  <2>1. tc \in Chunks /\ tail[tc] \in Slots
    BY <1>a, Ranges
  <2> QED BY <1>a, <2>1, OffRanges
<1>t. /\ tail' \in [Chunks -> Slots] /\ tail'[tc] = i
      /\ \A c \in Chunks : c # tc => tail'[c] = tail[c]
  BY <1>a, <1>r, Ranges
<1>s. \A c \in Chunks : class.seqCst => tailSeen[c] = tail[c]
  BY DEF ConsumerView, Between, Invariant
<1>c. class.seqCst => tailChunkSeen = tailChunk
  BY DEF ConsumerView, Between, Invariant
<1>v. /\ tailSeen' \in [Chunks -> Slots]
      /\ \A c \in Chunks : c # tc => tailSeen'[c] = tailSeen[c]
  BY <1>a, <1>s, <1>t, Ranges DEF Seen
<1>w. ASSUME NEW c \in Chunks
      PROVE  /\ Off(c, tailSeen[c]) <= Off(c, tailSeen'[c])
             /\ Off(c, tailSeen'[c]) <= Off(c, tail'[c])
             /\ Off(c, tail[c]) <= Off(c, tail'[c])
  <2>1. Off(tc, i) \in Nat
    BY <1>a, <1>r, OffRanges
  <2>2. Off(c, tail[c]) <= Off(c, tail'[c]) /\ Off(c, tail'[c]) \in Nat
    BY <1>a, <1>r, <1>t, <2>1, InWindow
  <2>3. tailSeen'[c] \in {tailSeen[c], tail'[c]}
    BY DEF Seen
  <2> QED BY <1>a, <2>2, <2>3, InWindow
<1>1. CASE class.seqCst
  <2>1. q = <<>> /\ toConsumer' = <<>> /\ tailSeen' = tail'
    BY <1>a, <1>1 DEF Queued, Seen, ConsumerView, Between
  <2>2. toConsumer' \in Seq(Store) /\ 1 .. Len(toConsumer') = {}
    <3>1. q \in Seq(Store) /\ 1 .. Len(q) = {}
      BY <1>a, <2>1, Ranges
    <3> QED BY <2>1, <3>1
  <2>3. InOrder(toConsumer)' /\ FirstElement'
    BY <2>2 DEF InOrder, FirstElement
  <2>4. Between(toConsumer, tailSeen, tail, tailChunkSeen, tailChunk)'
    <3>1. tailChunkSeen' = tailChunk' /\ class' = class
      BY <1>1, <1>c
    <3> QED BY <2>1, <2>2, <3>1 DEF Between
  <2> QED BY <1>t, <1>v, <1>w, <2>2, <2>3, <2>4 DEF ConsumerView
<1>2. CASE ~class.seqCst
  <2>1. toConsumer' = Append(q, s) /\ tailSeen' = tailSeen
    BY <1>r, <1>2 DEF Queued, Seen
  <2>2. PICK p \in Seq(Store), si \in [Chunks -> Slots], ix \in [Chunks -> Slots],
             sc \in Chunks, ch \in Chunks, c \in Chunks :
          /\ p = q /\ si = tailSeen /\ ix = tail /\ sc = tailChunkSeen
          /\ ch = tailChunk /\ c = tc
    BY <1>a, Ranges
  <2>3. InOrder(p) /\ Between(p, si, ix, sc, ch)
    BY <1>a, <2>2 DEF ConsumerView
  <2>4. /\ Ahead(ch) <= Ahead(c) /\ Off(c, si[c]) <= Off(c, ix[c])
        /\ Off(c, ix[c]) < Off(c, i)
    BY <1>a, <2>2 DEF Order, Window
  <2>5. PICK r \in Seq(Store), iy \in [Chunks -> Slots] :
          /\ r = Append(p, IndexStore(c, i)) /\ iy = [ix EXCEPT ![c] = i]
          /\ InOrder(r) /\ Between(r, si, iy, sc, ch)
    <3>1. LET r == Append(p, IndexStore(c, i)) IN
          /\ r \in Seq(Store) /\ InOrder(r)
          /\ Between(r, si, [ix EXCEPT ![c] = i], sc, ch)
      BY <1>a, <1>2, <2>3, <2>4, AppendIndex
    <3>2. [ix EXCEPT ![c] = i] \in [Chunks -> Slots]
      OBVIOUS
    <3> QED BY <3>1, <3>2
  <2>6. /\ toConsumer' = r /\ tailSeen' = si /\ tail' = iy
        /\ tailChunkSeen' = sc /\ tailChunk' = ch
    BY <2>1, <2>2, <2>5
  <2>7. FirstElement'
    <3>1. s \in Store /\ s.index
      BY <1>r DEF IndexStore, Store
    <3>3. /\ Len(q) \in Nat /\ \A k \in 1 .. Len(q) : toConsumer'[k] = q[k]
          /\ Len(toConsumer') = Len(q) + 1 /\ toConsumer'[Len(q) + 1] = s
      <4>1. q \in Seq(Store)
        BY <1>a, Ranges
      <4>2. PICK p1 \in Seq(Store), e \in Store : p1 = q /\ e = s
        BY <3>1, <4>1
      <4>3. toConsumer' = Append(p1, e)
        BY <2>1, <4>2
      <4>4. /\ Len(p1) \in Nat /\ \A k \in 1 .. Len(p1) : toConsumer'[k] = p1[k]
            /\ Len(toConsumer') = Len(p1) + 1 /\ toConsumer'[Len(p1) + 1] = e
        <5>1. PICK p2 \in Seq(Store) : p2 = Append(p1, e)
          BY Appended
        <5>2. /\ Len(p1) \in Nat /\ \A k \in 1 .. Len(p1) : p2[k] = p1[k]
              /\ Len(p2) = Len(p1) + 1 /\ p2[Len(p1) + 1] = e
          BY <5>1, Appended
        <5> QED BY <4>3, <5>1, <5>2
      <4> QED BY <4>2, <4>4
    <3>2. \A k \in 1 .. Len(toConsumer') :
            \/ k \in 1 .. Len(q) /\ toConsumer'[k] = q[k]
            \/ toConsumer'[k].index
      BY <3>1, <3>3
    <3>4. Len(q) \in Nat
      BY <3>3
    <3> SUFFICES ASSUME NEW k \in 1 .. Len(toConsumer'), ~toConsumer'[k].index
                 PROVE  LET d == toConsumer'[k].chunk IN
                        \/ tailSeen'[d] # head'[d]
                        \/ \E j \in 1 .. k - 1 :
                             toConsumer'[j].index /\ toConsumer'[j].chunk = d
      BY DEF FirstElement
    <3>5. k \in 1 .. Len(q) /\ toConsumer'[k] = q[k]
      BY <3>2
    <3>6. LET d == q[k].chunk IN
          \/ tailSeen[d] # head[d]
          \/ \E j \in 1 .. k - 1 : q[j].index /\ q[j].chunk = d
      BY <1>a, <3>5 DEF ConsumerView, FirstElement
    <3>7. \A j \in 1 .. k - 1 : toConsumer'[j] = q[j]
      BY <3>3, <3>4, <3>5
    <3> QED BY <2>1, <3>5, <3>6, <3>7
  <2>8. OffsKept(si) /\ AheadsKept(sc)
    BY <1>a, AllKept
  <2>9. ConsumerView'
    BY <1>a, <2>5, <2>6, <2>7, <2>8, ConsumerViewBecomes
  <2> QED BY <1>t, <1>v, <1>w, <2>6, <2>9
<1> QED BY <1>1, <1>2

\* Publishing an element moves the tail over the slot that was built in.
LEMMA PublishTailStep ==
  ASSUME Invariant, PublishTail
  PROVE  Invariant'
<1> DEFINE i == Next1(tail[tc])
<1> USE DEF PublishTail, caches, consumer, client
<1>a. TypeOK /\ Window /\ Order /\ Left /\ Unentered /\ Final /\ Filled /\ ConsumerView
      /\ ProducerView /\ ProducerFrame /\ ConsumerFrame /\ Some /\ LiveExactly
  BY DEF Invariant
<1>s. /\ StoreTail(tc, i) /\ pPc = "publish"
      /\ UNCHANGED <<head, tailChunk, headChunk, toProducer, tailChunkSeen, headSeen,
                     headChunkSeen, headCache, tailCache, buffer, tc, consumer, out>>
      /\ pPc' = IF tc = tailChunk THEN "idle" ELSE "publishChunk"
  BY DEF StoreTail
<1>r. tc \in Chunks /\ tail[tc] \in Slots
  BY <1>a, Ranges
<1>i. i \in Slots /\ Off(tc, i) = Off(tc, tail[tc]) + 1 /\ Off(tc, tail[tc]) < Off(tc, i)
  <2>1. i \in Slots
    BY <1>r, NextBasics
  <2>2. Off(tc, tail[tc]) < ChunkSize - 1
    BY <1>a, <1>s DEF ProducerFrame
  <2>3. Off(tc, tail[tc]) \in Nat
    BY <1>a, <1>r, OffRanges
  <2> QED BY <1>a, <1>r, <2>1, <2>2, <2>3, OffNext
<1> HIDE DEF i
<1>q. /\ ConsumerView' /\ toConsumer' \in Seq(Store)
      /\ tail' \in [Chunks -> Slots] /\ tailSeen' \in [Chunks -> Slots]
      /\ \A c \in Chunks : /\ c # tc => tail'[c] = tail[c] /\ tailSeen'[c] = tailSeen[c]
                           /\ Off(c, tailSeen[c]) <= Off(c, tailSeen'[c])
                           /\ Off(c, tailSeen'[c]) <= Off(c, tail'[c])
      /\ tail'[tc] = i
  BY <1>s, <1>i, TailQueued
<1>f. /\ Consuming' = Consuming /\ Consuming \in Chunks
      /\ \A c \in Chunks : Ahead(c) < Ahead(tailChunkSeen) => c # tc
      /\ \A c \in Chunks : Ahead(c) < Ahead(Consuming) => c # tc
  BY <1>a, <1>s, Ranges, AheadRanges DEF Consuming, Order
<1>l. /\ Window' /\ Order' /\ ConsumerFrame' /\ Some'
      /\ \A c \in Chunks : head[c] # tailSeen[c] => head'[c] # tailSeen'[c]
      /\ \A c \in Chunks : Ahead(c)' = Ahead(c)
      /\ \A c \in Chunks : \A j \in Slots : Off(c, j)' = Off(c, j)
      /\ \A c \in Chunks : Cursor(c)' = Cursor(c)
  <2>1. cPc = "drain" /\ hc # last => tail'[hc] = tail[hc]
    <3> SUFFICES ASSUME cPc = "drain", hc # last
                 PROVE  tail'[hc] = tail[hc]
      OBVIOUS
    <3>1. Ahead(hc) <= Ahead(last) /\ Ahead(last) <= Ahead(tailChunkSeen)
      BY <1>a DEF ConsumerFrame, LastFrame, Consuming
    <3>2. hc \in Chunks /\ last \in Chunks /\ tailChunkSeen \in Chunks
      BY <1>a, Ranges
    <3>3. Ahead(hc) # Ahead(last)
      BY <1>a, <3>2, AheadTells
    <3>4. Ahead(hc) < Ahead(tailChunkSeen)
      BY <1>a, <3>1, <3>2, <3>3, AheadRanges
    <3> QED BY <1>f, <1>q, <3>2, <3>4
  <2>2. /\ tailChunkSeen' \in Chunks /\ tailChunk' \in Chunks /\ tc' \in Chunks
        /\ Ahead(tailChunkSeen) <= Ahead(tailChunkSeen')
        /\ Ahead(tailChunkSeen') <= Ahead(tailChunk') /\ Ahead(tailChunk') <= Ahead(tc')
    BY <1>a, <1>s, Ranges, AheadRanges DEF Order
  <2>3. \A c \in Chunks : /\ tailSeen'[c] \in Slots /\ tail'[c] \in Slots
                          /\ Off(c, tailSeen[c]) <= Off(c, tailSeen'[c])
                          /\ Off(c, tailSeen'[c]) <= Off(c, tail'[c])
    BY <1>q
  <2> QED BY <1>s, <2>1, <2>2, <2>3, TailSeenGrows
<1>1. TypeOK'
  <2>1. pPc' \in {"idle", "publishChunk"}
    BY <1>s
  <2> QED BY <1>a, <1>s, <1>q, <2>1, Ranges DEF TypeOK
<1>2. Left' /\ Final'
  BY <1>a, <1>s, <1>f, <1>q, <1>l, Ranges DEF Left, Final
<1>3. Unentered'
  <2> SUFFICES ASSUME NEW c \in Chunks, Ahead(c) > Ahead(tailChunk),
                      ~(pPc' = "publishChunk" /\ c = tc)
               PROVE  headSeen[c] = tail'[c]
    BY <1>s, <1>l, <1>a, Ranges DEF Unentered
  <2>1. c # tc
    BY <1>s, <1>a, Ranges, AheadRanges
  <2> QED BY <1>a, <1>s, <1>q, <2>1 DEF Unentered
<1>5. ProducerView'
  BY <1>a, <1>s, ProducerViewStays
<1>n. tail'[tc] # head[tc]
  <2>1. /\ Off(tc, head[tc]) <= Off(tc, tail[tc]) /\ Off(tc, tail[tc]) \in Nat
        /\ Off(tc, head[tc]) \in Nat
    <3>1. /\ Off(tc, head[tc]) <= Off(tc, tailSeen[tc]) /\ Off(tc, tailSeen[tc]) \in Nat
          /\ Off(tc, tailSeen[tc]) <= Off(tc, tail[tc])
      BY <1>a, <1>r, InWindow
    <3>2. Off(tc, tail[tc]) \in Nat /\ Off(tc, head[tc]) \in Nat
      BY <1>a, <1>r, InWindow
    <3> QED BY <3>1, <3>2
  <2>2. Off(tc, head[tc]) # Off(tc, i)
    BY <1>i, <2>1
  <2> QED BY <1>q, <2>2
<1>4. Filled'
  BY <1>a, <1>s, <1>f, <1>l, <1>n, <1>q, Ranges DEF Filled
<1>6. ProducerFrame'
  BY <1>a, <1>s, <1>n DEF ProducerFrame
<1>7. LiveExactly'
  <2>1. \A c \in Chunks : Built(c)' = Built(c)
    BY <1>s, <1>q DEF Built, i
  <2> QED BY <1>a, <1>s, <1>l, <2>1, LiveStays
<1> QED BY <1>q, <1>l, <1>1, <1>2, <1>3, <1>4, <1>5, <1>6, <1>7 DEF Invariant

\* The producer's next chunk is announced, behind the first element in it.
LEMMA TailChunkQueued ==
  ASSUME Invariant, StoreTailChunk(tc), pPc = "publishChunk", UNCHANGED <<headCache, class>>
  PROVE  ConsumerView' /\ toConsumer' \in Seq(Store)
<1> DEFINE q == toConsumer
<1> DEFINE s == ChunkStore(tc)
<1> USE DEF StoreTailChunk
<1>a. TypeOK /\ ConsumerView /\ Order /\ ProducerFrame
  BY DEF Invariant
<1>r. tc \in Chunks /\ tail[tc] # head[tc] /\ tc # tailChunk /\ Ahead(tailChunk) < Ahead(tc)
  <2>1. tc \in Chunks /\ tail[tc] # head[tc] /\ tc # tailChunk /\ tailChunk \in Chunks
    BY <1>a, Ranges DEF ProducerFrame
  <2>2. Ahead(tailChunk) # Ahead(tc)
    BY <1>a, <2>1, AheadTells
  <2> QED BY <1>a, <2>1, <2>2, AheadRanges DEF Order
<1>1. CASE class.seqCst
  <2>1. q = <<>> /\ toConsumer' = <<>> /\ tailChunkSeen' = tailChunk'
    BY <1>a, <1>1 DEF Queued, Seen, ConsumerView, Between
  <2>2. toConsumer' \in Seq(Store) /\ 1 .. Len(toConsumer') = {}
    <3>1. q \in Seq(Store) /\ 1 .. Len(q) = {}
      BY <1>a, <2>1, Ranges
    <3> QED BY <2>1, <3>1
  <2>3. InOrder(toConsumer)' /\ FirstElement'
    BY <2>2 DEF InOrder, FirstElement
  <2>4. Between(toConsumer, tailSeen, tail, tailChunkSeen, tailChunk)'
    <3>1. \A c \in Chunks : tailSeen'[c] = tail'[c]
      BY <1>a, <2>1 DEF ConsumerView, Between
    <3> QED BY <2>1, <2>2, <3>1 DEF Between
  <2> QED BY <2>2, <2>3, <2>4 DEF ConsumerView
<1>2. CASE ~class.seqCst
  <2>1. toConsumer' = Append(q, s) /\ tailChunkSeen' = tailChunkSeen
    BY <1>r, <1>2 DEF Queued, Seen
  <2>2. PICK p \in Seq(Store), si \in [Chunks -> Slots], ix \in [Chunks -> Slots],
             sc \in Chunks, ch \in Chunks, c \in Chunks :
          /\ p = q /\ si = tailSeen /\ ix = tail /\ sc = tailChunkSeen
          /\ ch = tailChunk /\ c = tc
    BY <1>a, Ranges
  <2>3. InOrder(p) /\ Between(p, si, ix, sc, ch)
    BY <1>a, <2>2 DEF ConsumerView
  <2>4. Ahead(sc) <= Ahead(ch) /\ Ahead(ch) < Ahead(c)
    BY <1>a, <1>r, <2>2 DEF Order
  <2>5. PICK r \in Seq(Store) : /\ r = Append(p, ChunkStore(c))
                                /\ InOrder(r) /\ Between(r, si, ix, sc, c)
    <3>1. LET r == Append(p, ChunkStore(c)) IN
          r \in Seq(Store) /\ InOrder(r) /\ Between(r, si, ix, sc, c)
      BY <1>a, <1>2, <2>3, <2>4, AppendChunk
    <3> QED BY <3>1
  <2>6. /\ toConsumer' = r /\ tailSeen' = si /\ tail' = ix
        /\ tailChunkSeen' = sc /\ tailChunk' = c
    BY <2>1, <2>2, <2>5
  <2>7. FirstElement'
    <3>1. PICK e \in Store : e = s /\ ~e.index /\ e.chunk = tc
      <4>1. ChunkStore(tc) \in Store
        BY <1>r, ChunkSizeAssumption DEF ChunkStore, Store, Slots
      <4>2. ~ChunkStore(tc).index /\ ChunkStore(tc).chunk = tc
        BY DEF ChunkStore
      <4> QED BY <4>1, <4>2
    <3>2. /\ Len(p) \in Nat /\ \A k \in 1 .. Len(p) : r[k] = p[k]
          /\ Len(r) = Len(p) + 1 /\ r[Len(p) + 1] = e
      <4>1. r = Append(p, e)
        BY <2>2, <2>5, <3>1
      <4> QED BY <4>1, Appended
    <3> SUFFICES ASSUME NEW k \in 1 .. Len(r), ~r[k].index
                 PROVE  \/ tailSeen[r[k].chunk] # head[r[k].chunk]
                        \/ \E j \in 1 .. k - 1 : r[j].index /\ r[j].chunk = r[k].chunk
      BY <2>6 DEF FirstElement
    <3>3. CASE k \in 1 .. Len(p)
      <4>1. LET d == p[k].chunk IN
            \/ tailSeen[d] # head[d]
            \/ \E j \in 1 .. k - 1 : p[j].index /\ p[j].chunk = d
        BY <1>a, <2>2, <3>2, <3>3 DEF ConsumerView, FirstElement
      <4>2. \A j \in 1 .. k - 1 : r[j] = p[j]
        BY <3>2, <3>3
      <4> QED BY <3>2, <3>3, <4>1, <4>2
    <3>4. CASE k = Len(p) + 1
      <4>1. r[k].chunk = tc
        BY <3>1, <3>2, <3>4
      <4>2. tailSeen[tc] = tail[tc] \/ \E j \in 1 .. Len(p) : p[j] = IndexStore(tc, tail[tc])
        BY <1>a, <1>r, <2>2 DEF ConsumerView, Between
      <4>3. ASSUME NEW j \in 1 .. Len(p), p[j] = IndexStore(tc, tail[tc])
            PROVE  j \in 1 .. k - 1 /\ r[j].index /\ r[j].chunk = tc
        BY <3>2, <3>4, <4>3 DEF IndexStore
      <4> QED BY <1>r, <4>1, <4>2, <4>3
    <3> QED BY <3>2, <3>3, <3>4
  <2>8. OffsKept(si) /\ AheadsKept(sc)
    BY <1>a, AllKept
  <2>9. ConsumerView'
    BY <1>a, <2>5, <2>6, <2>7, <2>8, ConsumerViewBecomes
  <2> QED BY <2>6, <2>9
<1> QED BY <1>1, <1>2

LEMMA PublishChunkStep ==
  ASSUME Invariant, PublishChunk
  PROVE  Invariant'
<1> USE DEF PublishChunk, caches, consumer, client
<1>a. TypeOK /\ Window /\ Order /\ Left /\ Unentered /\ Final /\ Filled /\ ConsumerView
      /\ ProducerView /\ ProducerFrame /\ ConsumerFrame /\ Some /\ LiveExactly
  BY DEF Invariant
<1>s. /\ StoreTailChunk(tc) /\ pPc = "publishChunk" /\ tailChunk' = tc
      /\ UNCHANGED <<tail, head, headChunk, toProducer, tailSeen, headSeen,
                     headChunkSeen, headCache, tailCache, buffer, tc, consumer, out>>
      /\ pPc' = "idle" /\ tailChunkSeen' = Seen(tailChunkSeen, tc)
  BY DEF StoreTailChunk, Seen
<1>q. ConsumerView' /\ toConsumer' \in Seq(Store)
  BY <1>s, TailChunkQueued
<1>r. /\ tc \in Chunks /\ tail[tc] # head[tc] /\ tailChunk \in Chunks
      /\ tc = NextChunk(tailChunk) /\ tc # tailChunk
  BY <1>a, <1>s, Ranges DEF ProducerFrame
<1>n. Ahead(tc) = Ahead(tailChunk) + 1
  <2>1. Ahead(tc) # Ahead(tailChunk) /\ Ahead(tailChunk) <= Ahead(tc)
    BY <1>a, <1>r, AheadTells DEF Order
  <2>2. Ahead(tc) # Ahead(headChunkSeen)
    <3>1. Ahead(headChunkSeen) = 0
      BY <1>a, Ranges, ChunkDistBasics DEF Ahead
    <3> QED BY <1>a, <1>r, <2>1, <3>1, AheadRanges
  <2> QED BY <1>a, <1>r, <2>2, Ranges, NextChunkBasics DEF Ahead
<1>v. /\ tailChunkSeen' \in Chunks /\ Ahead(tailChunkSeen) <= Ahead(tailChunkSeen')
      /\ Ahead(tailChunkSeen') <= Ahead(tc)
      /\ tailChunkSeen' # tailChunkSeen =>
           tailChunkSeen = tailChunk /\ \A c \in Chunks : tailSeen[c] = tail[c]
  <2>1. tailChunkSeen' \in {tailChunkSeen, tc} /\ tailChunkSeen \in Chunks
    BY <1>a, <1>s, Ranges DEF Seen
  <2>2. Ahead(tailChunkSeen) <= Ahead(tailChunk) /\ Ahead(tailChunk) \in Nat
        /\ Ahead(tailChunkSeen) \in Nat
    BY <1>a, <1>r, <2>1, AheadRanges DEF Order
  <2>3. ~class.seqCst => tailChunkSeen' = tailChunkSeen
    BY <1>s DEF Seen
  <2>4. class.seqCst => tailChunkSeen = tailChunk /\ \A c \in Chunks : tailSeen[c] = tail[c]
    BY <1>a DEF ConsumerView, Between
  <2> QED BY <1>r, <1>n, <2>1, <2>2, <2>3, <2>4
<1>f. Consuming' = Consuming /\ Consuming \in Chunks
  BY <1>a, <1>s, Ranges DEF Consuming
<1>l. /\ Window' /\ Order' /\ ConsumerFrame' /\ Some'
      /\ \A c \in Chunks : Ahead(c)' = Ahead(c)
      /\ \A c \in Chunks : Cursor(c)' = Cursor(c)
  <2>1. cPc = "drain" /\ hc # last => tail'[hc] = tail[hc]
    BY <1>s
  <2>2. /\ tailChunk' \in Chunks /\ tc' \in Chunks
        /\ Ahead(tailChunkSeen') <= Ahead(tailChunk') /\ Ahead(tailChunk') <= Ahead(tc')
    BY <1>a, <1>s, <1>r, <1>v, AheadRanges
  <2>3. \A c \in Chunks : /\ tailSeen'[c] \in Slots /\ tail'[c] \in Slots
                          /\ Off(c, tailSeen[c]) <= Off(c, tailSeen'[c])
                          /\ Off(c, tailSeen'[c]) <= Off(c, tail'[c])
    BY <1>s, <1>a, InWindow
  <2> QED BY <1>s, <1>v, <2>1, <2>2, <2>3, TailSeenGrows
<1>1. TypeOK'
  BY <1>a, <1>s, <1>q, <1>r, <1>v, Ranges DEF TypeOK
<1>2. Left' /\ Final'
  BY <1>a, <1>s, <1>f, <1>v, <1>l, Ranges DEF Left, Final
<1>3. Unentered'
  <2> SUFFICES ASSUME NEW c \in Chunks, Ahead(c) > Ahead(tc)
               PROVE  headSeen[c] = tail[c]
    BY <1>s, <1>l, <1>r DEF Unentered
  <2> QED BY <1>a, <1>r, <1>n, AheadRanges DEF Unentered
<1>4. Filled'
  <2> SUFFICES ASSUME NEW c \in Chunks, Ahead(Consuming) < Ahead(c)
               PROVE  /\ Ahead(c) <= Ahead(tailChunkSeen') => head[c] # tailSeen[c]
                      /\ Ahead(c) <= Ahead(tc) => head[c] # tail[c]
    BY <1>s, <1>l, <1>f, <1>v, <1>r DEF Filled
  <2>0. Ahead(c) <= Ahead(tc) => head[c] # tail[c]
    <3>1. Ahead(c) # Ahead(tc) \/ c = tc
      BY <1>a, <1>r, AheadTells
    <3>2. Ahead(c) \in Nat /\ Ahead(tailChunk) \in Nat
      BY <1>a, <1>r, AheadRanges
    <3> QED BY <1>a, <1>r, <1>n, <3>1, <3>2 DEF Filled
  <2> SUFFICES ASSUME Ahead(c) <= Ahead(tailChunkSeen')
               PROVE  head[c] # tailSeen[c]
    BY <2>0
  <2>1. CASE c = tc /\ tailChunkSeen' # tailChunkSeen
    BY <1>r, <1>v, <2>1
  <2>2. CASE c = tc /\ tailChunkSeen' = tailChunkSeen
    BY <1>a, <2>2 DEF Filled
  <2>3. CASE c # tc
    <3>1. Ahead(c) # Ahead(tc) /\ Ahead(c) <= Ahead(tc)
      <4>1. Ahead(c) \in Nat /\ Ahead(tailChunkSeen') \in Nat /\ Ahead(tc) \in Nat
        BY <1>a, <1>r, <1>v, AheadRanges
      <4> QED BY <1>a, <1>r, <1>v, <2>3, <4>1, AheadTells
    <3>2. tailChunkSeen' # tailChunkSeen => Ahead(c) <= Ahead(tailChunkSeen)
      <4>1. Ahead(c) \in Nat /\ Ahead(tailChunk) \in Nat /\ Ahead(tc) \in Nat
        BY <1>a, <1>r, AheadRanges
      <4> QED BY <1>n, <1>v, <3>1, <4>1
    <3> QED BY <1>a, <3>2 DEF Filled
  <2> QED BY <2>1, <2>2, <2>3
<1>5. ProducerView'
  BY <1>a, <1>s, ProducerViewStays
<1>6. ProducerFrame'
  BY <1>s DEF ProducerFrame
<1>7. LiveExactly'
  <2>1. \A c \in Chunks : Built(c)' = Built(c)
    BY <1>s DEF Built
  <2> QED BY <1>a, <1>s, <1>l, <2>1, LiveStays
<1> QED BY <1>q, <1>l, <1>1, <1>2, <1>3, <1>4, <1>5, <1>6, <1>7 DEF Invariant

-----------------------------------------------------------------------------
(* The consumer's steps that store nothing.                                *)

\* The consumer's caches stay in the window.
CacheInWindow(cache) ==
  /\ cache \in [Chunks -> Slots]
  /\ class.cached /\ "consume_all" \notin ops =>
       \A c \in Chunks : /\ Off(c, head[c]) <= Off(c, cache[c])
                         /\ Off(c, cache[c]) <= Off(c, tailSeen[c])

\* A step of the consumer that stores nothing.
LEMMA ConsumerElsewhere ==
  ASSUME Invariant, UNCHANGED <<shared, headCache, seen, producer, class, ops>>,
         CacheInWindow(tailCache')
  PROVE  /\ Window' /\ Unentered' /\ Final'
         /\ ConsumerView' /\ ProducerView' /\ ProducerFrame'
         /\ \A c \in Chunks : Built(c)' = Built(c)
         /\ \A c \in Chunks : Ahead(c)' = Ahead(c)
         /\ \A c \in Chunks, i \in Slots : Off(c, i)' = Off(c, i)
<1> USE DEF producer, shared, seen
<1>a. TypeOK /\ Window /\ Unentered /\ ProducerFrame
  BY DEF Invariant
<1>v. /\ Final' /\ ConsumerView' /\ ProducerView'
      /\ \A c \in Chunks : Ahead(c)' = Ahead(c)
      /\ \A c \in Chunks, i \in Slots : Off(c, i)' = Off(c, i)
  BY ViewsStay
<1>1. Window'
  <2> SUFFICES ASSUME NEW c \in Chunks
               PROVE  /\ Off(c, headSeen[c])' <= Off(c, head[c])'
                      /\ Off(c, head[c])' <= Off(c, tailSeen[c])'
                      /\ Off(c, tailSeen[c])' <= Off(c, tail[c])'
                      /\ class.cached /\ "consume_all" \notin ops =>
                           /\ Off(c, head[c])' <= Off(c, tailCache[c])'
                           /\ Off(c, tailCache[c])' <= Off(c, tailSeen[c])'
    BY DEF Window
  <2>1. /\ Off(c, headSeen[c])' = Off(c, headSeen[c])
        /\ Off(c, head[c])' = Off(c, head[c])
        /\ Off(c, tailCache[c])' = Off(c, tailCache'[c])
        /\ Off(c, tailSeen[c])' = Off(c, tailSeen[c])
        /\ Off(c, tail[c])' = Off(c, tail[c])
    BY DEF Off, Origin
  <2> QED BY <1>a, <2>1 DEF Window, CacheInWindow
<1>2. Unentered'
  BY <1>a DEF Unentered, Ahead
<1>3. ProducerFrame' /\ \A c \in Chunks : Built(c)' = Built(c)
  BY <1>a DEF ProducerFrame, Built, Off, Origin
<1> QED BY <1>v, <1>1, <1>2, <1>3

\* It may stay in its chunk.
LEMMA ConsumerLocal ==
  ASSUME Invariant, UNCHANGED <<shared, headCache, seen, producer, class, ops>>,
         CacheInWindow(tailCache'), Consuming' = Consuming
  PROVE  /\ Window' /\ Order' /\ Left' /\ Unentered' /\ Final' /\ Filled'
         /\ ConsumerView' /\ ProducerView' /\ ProducerFrame'
         /\ \A c \in Chunks : Built(c)' = Built(c)
         /\ \A c \in Chunks : Ahead(c)' = Ahead(c)
         /\ \A c \in Chunks, i \in Slots : Off(c, i)' = Off(c, i)
<1>1. Order' /\ Left' /\ Filled'
  BY DEF Invariant, Order, Left, Filled, Ahead, producer, shared, seen
<1> QED BY <1>1, ConsumerElsewhere

\* A cache that is left alone, or follows the load.
LEMMA CachesInWindow ==
  ASSUME TypeOK, Window, NEW c \in Chunks
  PROVE  CacheInWindow(tailCache) /\ CacheInWindow(Cached(tailCache, c, tailSeen[c]))
<1>1. CacheInWindow(tailCache)
  BY Ranges DEF CacheInWindow, Window
<1>2. Cached(tailCache, c, tailSeen[c]) \in [Chunks -> Slots]
  BY Ranges DEF Cached
<1>3. ASSUME class.cached, "consume_all" \notin ops, NEW d \in Chunks
      PROVE  LET cache == Cached(tailCache, c, tailSeen[c]) IN
             /\ Off(d, head[d]) <= Off(d, cache[d])
             /\ Off(d, cache[d]) <= Off(d, tailSeen[d])
  <2>1. Cached(tailCache, c, tailSeen[c])[d] \in {tailCache[d], tailSeen[d]}
    BY Ranges DEF Cached
  <2> QED BY <1>3, <2>1, InWindow DEF Window
<1> QED BY <1>1, <1>2, <1>3 DEF CacheInWindow

\* Dequeue and pop look at the consumer's chunk first, as it is cached.
LEMMA ReadChunkStep ==
  ASSUME Invariant, ReadChunk, "consume_all" \notin ops
  PROVE  Invariant'
<1> USE DEF ReadChunk, caches, producer, client, shared, seen
<1>a. TypeOK /\ Window /\ ConsumerFrame /\ Some /\ LiveExactly
  BY DEF Invariant
<1>p. /\ cPc = "idle" /\ cPc' \in {"take", "loadChunk"} /\ hc' = headChunk
      /\ h' = head[headChunk] /\ headChunk \in Chunks /\ Consuming' = Consuming
      /\ Consuming = headChunk
  BY <1>a, Ranges DEF Consuming
<1>l. /\ Window' /\ Order' /\ Left' /\ Unentered' /\ Final' /\ Filled'
      /\ ConsumerView' /\ ProducerView' /\ ProducerFrame'
      /\ \A c \in Chunks : Built(c)' = Built(c)
  BY <1>a, <1>p, CachesInWindow, ConsumerLocal
<1>1. TypeOK'
  BY <1>a, <1>p, Ranges DEF TypeOK
<1>2. ConsumerFrame'
  <2>1. cPc' = "take" =>
          class.cached /\ head[hc'] # tailCache[hc'] /\ head[hc'] # tailSeen[hc']
    <3> SUFFICES ASSUME cPc' = "take"
                 PROVE  head[headChunk] # tailSeen[headChunk]
      BY <1>p
    <3>1. class.cached /\ head[headChunk] # tailCache[headChunk]
      BY <1>p
    <3> DEFINE c == headChunk
    <3>2. /\ Off(c, head[c]) <= Off(c, tailCache[c])
          /\ Off(c, tailCache[c]) <= Off(c, tailSeen[c])
          /\ Off(c, head[c]) # Off(c, tailCache[c])
      BY <1>a, <1>p, <3>1, InWindow, OffTells DEF Window
    <3>3. /\ Off(c, head[c]) \in Nat /\ Off(c, tailCache[c]) \in Nat
          /\ Off(c, tailSeen[c]) \in Nat
      BY <1>a, <1>p, InWindow
    <3>4. Off(c, head[c]) # Off(c, tailSeen[c])
      BY <3>2, <3>3
    <3> QED BY <3>4
  <2> QED BY <1>a, <1>p, <2>1 DEF ConsumerFrame
<1>3. Some'
  BY <1>a, <1>p DEF Some
<1>4. LiveExactly'
  <2>1. \A c \in Chunks : Cursor(c)' = Cursor(c)
    BY <1>p DEF Cursor
  <2> QED BY <1>a, <1>l, <2>1, LiveStays
<1> QED BY <1>l, <1>1, <1>2, <1>3, <1>4 DEF Invariant

\* The producer's chunk is loaded before the tail is looked at again.
LEMMA LoadTailChunkStep ==
  ASSUME Invariant, LoadTailChunk
  PROVE  Invariant'
<1> USE DEF LoadTailChunk, caches, producer, client, shared, seen
<1>a. TypeOK /\ Window /\ Order /\ ConsumerFrame /\ Some /\ LiveExactly
  BY DEF Invariant
<1>p. /\ Consuming' = Consuming /\ Consuming = headChunk /\ hc = headChunk
      /\ headChunk \in Chunks
  BY <1>a, Ranges DEF Consuming, ConsumerFrame
<1>l. /\ Window' /\ Order' /\ Left' /\ Unentered' /\ Final' /\ Filled'
      /\ ConsumerView' /\ ProducerView' /\ ProducerFrame'
      /\ \A c \in Chunks : Built(c)' = Built(c)
      /\ \A c \in Chunks : Ahead(c)' = Ahead(c)
  BY <1>a, <1>p, CachesInWindow, ConsumerLocal
<1>1. TypeOK'
  BY <1>a, Ranges DEF TypeOK
<1>2. ConsumerFrame'
  <2>1. LastFrame'
    BY <1>a, <1>p, <1>l, Ranges, AheadRanges DEF LastFrame, Order
  <2> QED BY <1>a, <2>1 DEF ConsumerFrame
<1>3. Some'
  BY <1>a, <1>p DEF Some
<1>4. LiveExactly'
  <2>1. \A c \in Chunks : Cursor(c)' = Cursor(c)
    BY DEF Cursor
  <2> QED BY <1>a, <1>l, <2>1, LiveStays
<1> QED BY <1>l, <1>1, <1>2, <1>3, <1>4 DEF Invariant

\* Short of another chunk, the next one is one farther.
LEMMA NextAhead ==
  ASSUME TypeOK, NEW c \in Chunks, NEW d \in Chunks, Ahead(c) < Ahead(d)
  PROVE  /\ NextChunk(c) \in Chunks /\ Ahead(NextChunk(c)) = Ahead(c) + 1
         /\ Ahead(NextChunk(c)) <= Ahead(d) /\ Ahead(c) < Ahead(NextChunk(c))
         /\ \A e \in Chunks : Ahead(e) < Ahead(NextChunk(c)) => Ahead(e) < Ahead(c) \/ e = c
<1>1. Ahead(c) \in Nat /\ Ahead(d) \in Nat /\ Ahead(d) <= ChunkCount - 1
  BY AheadRanges
<1>2. NextChunk(c) \in Chunks /\ NextChunk(c) # headChunkSeen
  <2>1. Ahead(c) < ChunkCount - 1
    BY <1>1, ChunkCountAssumption
  <2> QED BY <2>1, Ranges, NextChunkBasics DEF Ahead
<1>3. Ahead(NextChunk(c)) = Ahead(c) + 1
  BY <1>2, Ranges, NextChunkBasics DEF Ahead
<1>4. ASSUME NEW e \in Chunks, Ahead(e) < Ahead(NextChunk(c))
      PROVE  Ahead(e) < Ahead(c) \/ e = c
  <2>1. Ahead(e) \in Nat /\ (Ahead(e) = Ahead(c) => e = c)
    BY AheadRanges, AheadTells
  <2> QED BY <1>1, <1>3, <1>4, <2>1
<1> QED BY <1>1, <1>2, <1>3, <1>4

\* The second look at the tail finds an element, nothing at all, or that the
\* producer has left the chunk.
LEMMA ReloadTailStep ==
  ASSUME Invariant, ReloadTail
  PROVE  Invariant'
<1> USE DEF ReloadTail, caches, producer, client, shared, seen
<1>a. TypeOK /\ Window /\ Order /\ Left /\ Final /\ Filled /\ ConsumerFrame /\ Some
      /\ LiveExactly
  BY DEF Invariant
<1>p. /\ cPc = "reload" /\ hc = headChunk /\ h = head[hc] /\ LastFrame /\ Consuming = hc
      /\ hc \in Chunks /\ last \in Chunks /\ tailChunkSeen \in Chunks
  BY <1>a, Ranges DEF Consuming, ConsumerFrame
<1>t. CacheInWindow(tailCache') /\ tailCache' \in [Chunks -> Slots]
  BY <1>a, <1>p, CachesInWindow DEF CacheInWindow
<1>e. /\ Window' /\ Unentered' /\ Final' /\ ConsumerView' /\ ProducerView' /\ ProducerFrame'
      /\ \A c \in Chunks : Built(c)' = Built(c)
      /\ \A c \in Chunks : Ahead(c)' = Ahead(c)
  BY <1>t, ConsumerElsewhere
<1>c. LiveExactly' /\ cPc' \in {"take", "idle", "enter"}
  <2>1. \A c \in Chunks : Cursor(c)' = Cursor(c)
    BY <1>p DEF Cursor
  <2> QED BY <1>a, <1>e, <2>1, LiveStays
<1>1. CASE h # tailSeen[hc] /\ cPc' = "take" /\ t' = tailSeen[hc] /\ UNCHANGED <<hc, h>>
  <2>1. Consuming' = Consuming
    BY <1>p, <1>1 DEF Consuming
  <2>2. Order' /\ Left' /\ Filled'
    BY <1>t, <2>1, ConsumerLocal
  <2>3. TypeOK'
    BY <1>a, <1>t, <1>1, Ranges DEF TypeOK
  <2>4. ConsumerFrame'
    <3>1. class.cached => tailCache'[hc] = tailSeen[hc]
      BY <1>a, <1>p, Ranges DEF Cached
    <3> QED BY <1>a, <1>p, <1>1, <3>1 DEF ConsumerFrame
  <2>5. Some'
    BY <1>p, <1>1, <2>1 DEF Some
  <2> QED BY <1>e, <1>c, <2>2, <2>3, <2>4, <2>5 DEF Invariant
<1>2. CASE h = tailSeen[hc] /\ hc = last /\ cPc' = "idle" /\ UNCHANGED <<hc, h, t>>
  <2>1. Consuming' = Consuming
    BY <1>p, <1>2 DEF Consuming
  <2>2. Order' /\ Left' /\ Filled'
    BY <1>t, <2>1, ConsumerLocal
  <2>3. TypeOK'
    BY <1>a, <1>t, <1>2, Ranges DEF TypeOK
  <2>4. ConsumerFrame'
    BY <1>a, <1>2 DEF ConsumerFrame
  <2>5. Some'
    BY <1>a, <1>p, <1>2 DEF Some
  <2> QED BY <1>e, <1>c, <2>2, <2>3, <2>4, <2>5 DEF Invariant
<1>3. CASE /\ h = tailSeen[hc] /\ hc # last /\ UNCHANGED t
           /\ cPc' = "enter" /\ hc' = NextChunk(hc) /\ h' = head[NextChunk(hc)]
  <2> DEFINE n == NextChunk(hc)
  <2>1. Consuming' = n
    BY <1>3 DEF Consuming
  <2>2. Ahead(hc) < Ahead(tailChunkSeen)
    <3>1. Ahead(hc) # Ahead(last)
      BY <1>a, <1>p, <1>3, AheadTells
    <3> QED BY <1>a, <1>p, <3>1, AheadRanges DEF LastFrame
  <2>3. /\ n \in Chunks /\ Ahead(n) <= Ahead(tailChunkSeen) /\ Ahead(hc) < Ahead(n)
        /\ \A c \in Chunks : Ahead(c) < Ahead(n) => Ahead(c) < Ahead(hc) \/ c = hc
    BY <1>a, <1>p, <2>2, NextAhead
  <2>4. head[n] # tailSeen[n]
    BY <1>a, <1>p, <2>3 DEF Filled
  <2>5. Order'
    <3>1. /\ Ahead(headChunk)' = Ahead(headChunk) /\ Ahead(Consuming)' = Ahead(n)
          /\ Ahead(tailChunkSeen)' = Ahead(tailChunkSeen)
          /\ Ahead(tailChunk)' = Ahead(tailChunk) /\ Ahead(tc)' = Ahead(tc)
      BY <2>1 DEF Ahead
    <3>2. Ahead(headChunk) \in Nat /\ Ahead(n) \in Nat
      BY <1>a, <2>3, Ranges, AheadRanges
    <3> QED BY <1>a, <1>p, <2>3, <3>1, <3>2 DEF Order
  <2>6. Left'
    <3>1. head[hc] = tail[hc]
      BY <1>a, <1>p, <1>3, <2>2 DEF Final
    <3>2. \A c \in Chunks : Ahead(c) < Ahead(n) => head[c] = tail[c]
      BY <1>a, <1>p, <2>3, <3>1 DEF Left
    <3>3. \A c \in Chunks : Ahead(c)' < Ahead(Consuming)' => Ahead(c) < Ahead(n)
      BY <2>1 DEF Ahead
    <3> QED BY <3>2, <3>3 DEF Left
  <2>7. Filled'
    <3> SUFFICES ASSUME NEW c \in Chunks, Ahead(n) < Ahead(c)
                 PROVE  /\ Ahead(c) <= Ahead(tailChunkSeen) => head[c] # tailSeen[c]
                        /\ Ahead(c) <= Ahead(tailChunk) => head[c] # tail[c]
      BY <2>1 DEF Filled, Ahead
    <3>1. Ahead(hc) < Ahead(c)
      BY <1>a, <1>p, <2>3, AheadRanges
    <3> QED BY <1>a, <1>p, <3>1 DEF Filled
  <2>8. TypeOK'
    BY <1>a, <1>t, <1>3, <2>3, Ranges DEF TypeOK
  <2>9. ConsumerFrame'
    BY <1>a, <1>p, <1>3, <2>4 DEF ConsumerFrame
  <2>10. Some'
    BY <1>3, <2>1, <2>4 DEF Some
  <2> QED BY <1>e, <1>c, <2>5, <2>6, <2>7, <2>8, <2>9, <2>10 DEF Invariant
<1> QED BY <1>1, <1>2, <1>3

\* A chunk that is entered has an element.
LEMMA EnterNextStep ==
  ASSUME Invariant, EnterNext
  PROVE  Invariant'
<1> USE DEF EnterNext, caches, producer, client, shared, seen
<1>a. TypeOK /\ Window /\ ConsumerFrame /\ Some /\ LiveExactly
  BY DEF Invariant
<1>p. /\ cPc = "enter" /\ h = head[hc] /\ head[hc] # tailSeen[hc] /\ cPc' = "take"
      /\ hc \in Chunks /\ Consuming' = Consuming
  BY <1>a, Ranges DEF Consuming, ConsumerFrame
<1>t. /\ CacheInWindow(tailCache') /\ tailCache' \in [Chunks -> Slots]
      /\ class.cached => tailCache'[hc] = tailSeen[hc]
  BY <1>a, <1>p, Ranges, CachesInWindow DEF CacheInWindow, Cached
<1>l. /\ Window' /\ Order' /\ Left' /\ Unentered' /\ Final' /\ Filled'
      /\ ConsumerView' /\ ProducerView' /\ ProducerFrame'
      /\ \A c \in Chunks : Built(c)' = Built(c)
  BY <1>p, <1>t, ConsumerLocal
<1>1. TypeOK'
  BY <1>a, <1>p, <1>t, Ranges DEF TypeOK
<1>2. ConsumerFrame'
  BY <1>a, <1>p, <1>t DEF ConsumerFrame
<1>3. Some'
  BY <1>a, <1>p DEF Some
<1>4. LiveExactly'
  <2>1. \A c \in Chunks : Cursor(c)' = Cursor(c)
    BY <1>p DEF Cursor
  <2> QED BY <1>a, <1>l, <2>1, LiveStays
<1> QED BY <1>l, <1>1, <1>2, <1>3, <1>4 DEF Invariant

\* The slots from the next position on are those from this one on, without it.
LEMMA OneLess ==
  ASSUME NEW a \in Slots, NEW b \in Slots, NEW i \in Slots, a # b
  PROVE  Dist(Next1(a), i) < Dist(Next1(a), b) <=> i # a /\ Dist(a, i) < Dist(a, b)
BY ChunkSizeAssumption DEF Slots, Dist, Next1

\* The producer's position is not before the tail.
LEMMA BuiltInWindow ==
  ASSUME TypeOK, Window, ProducerFrame, NEW c \in Chunks
  PROVE  Built(c) \in Slots /\ Off(c, Built(c)) \in Nat /\ Off(c, tail[c]) <= Off(c, Built(c))
<1>1. tail[c] \in Slots /\ Off(c, tail[c]) \in Nat
  BY InWindow
<1>2. CASE c = tc /\ pPc = "publish"
  <2>1. Built(c) = Next1(tail[c]) /\ Off(c, tail[c]) < ChunkSize - 1
    BY <1>2 DEF Built, ProducerFrame
  <2>2. Off(c, Next1(tail[c])) = Off(c, tail[c]) + 1
    BY <1>1, <2>1, OffNext
  <2>3. Next1(tail[c]) \in Slots
    BY <1>1, NextBasics
  <2> QED BY <1>1, <2>1, <2>2, <2>3
<1>3. CASE ~(c = tc /\ pPc = "publish")
  BY <1>1, <1>3 DEF Built
<1> QED BY <1>2, <1>3

\* Taking an element that is seen: it was live, and the slot is not any more.
LEMMA ElementTaken ==
  ASSUME Invariant, TakeElement, Cursor(hc) = h, Off(hc, h) < Off(hc, tailSeen[hc]),
         \A c \in Chunks : Built(c)' = Built(c),
         \A c \in Chunks : Cursor(c)' = IF c = hc THEN Next1(h) ELSE Cursor(c)
  PROVE  /\ LiveExactly' /\ out' \in Value /\ h' \in Slots /\ h' = Next1(h)
         /\ buffer' \in [Chunks -> [Slots -> Value]]
         /\ Off(hc, Next1(h)) = Off(hc, h) + 1
<1> USE DEF TakeElement
<1>a. TypeOK /\ Window /\ ProducerFrame /\ LiveExactly
  BY DEF Invariant
<1>r. /\ hc \in Chunks /\ h \in Slots /\ buffer \in [Chunks -> [Slots -> Value]]
      /\ Off(hc, h) \in Nat
  BY <1>a, Ranges, OffRanges
<1>1. Off(hc, Next1(h)) = Off(hc, h) + 1 /\ Next1(h) \in Slots
  <2>1. Off(hc, h) < ChunkSize - 1
    <3>1. /\ Off(hc, tailSeen[hc]) \in Nat /\ Off(hc, tail[hc]) \in Nat
          /\ Off(hc, tailSeen[hc]) <= Off(hc, tail[hc])
          /\ Off(hc, tail[hc]) <= ChunkSize - 1
      BY <1>a, <1>r, InWindow
    <3> QED BY <1>r, <3>1, ChunkSizeAssumption
  <2> QED BY <1>a, <1>r, <2>1, OffNext, NextBasics
<1>2. out' \in Value /\ buffer' \in [Chunks -> [Slots -> Value]]
  <2>1. buffer[hc][h] \in Value /\ Raw \in Value
    BY <1>r DEF Value
  <2> QED BY <1>r, <2>1
<1>3. Built(hc) \in Slots /\ Built(hc) # h
  <2>1. /\ Built(hc) \in Slots /\ Off(hc, Built(hc)) \in Nat
        /\ Off(hc, tail[hc]) <= Off(hc, Built(hc))
    BY <1>a, <1>r, BuiltInWindow
  <2>2. /\ Off(hc, tailSeen[hc]) \in Nat /\ Off(hc, tail[hc]) \in Nat
        /\ Off(hc, tailSeen[hc]) <= Off(hc, tail[hc])
    BY <1>a, <1>r, InWindow
  <2>3. Off(hc, Built(hc)) # Off(hc, h)
    BY <1>r, <2>1, <2>2
  <2> QED BY <2>1, <2>3
<1>4. ASSUME NEW c \in Chunks, NEW i \in Slots
      PROVE  buffer'[c][i] # Raw <=> Dist(Cursor(c)', i) < Dist(Cursor(c)', Built(c)')
  <2>1. buffer[c][i] # Raw <=> Dist(Cursor(c), i) < Dist(Cursor(c), Built(c))
    BY <1>a DEF LiveExactly
  <2>2. CASE c = hc
    <3>1. buffer'[c][i] = IF i = h THEN Raw ELSE buffer[c][i]
      BY <1>r, <2>2
    <3>2. Cursor(c)' = Next1(h) /\ Built(c)' = Built(c) /\ Cursor(c) = h
      BY <2>2
    <3>3. Dist(Next1(h), i) < Dist(Next1(h), Built(c))
            <=> i # h /\ Dist(h, i) < Dist(h, Built(c))
      BY <1>r, <1>3, <2>2, OneLess
    <3> QED BY <2>1, <3>1, <3>2, <3>3
  <2>3. CASE c # hc
    <3>1. buffer'[c] = buffer[c]
      BY <1>r, <2>3
    <3>2. Cursor(c)' = Cursor(c) /\ Built(c)' = Built(c)
      BY <2>3
    <3> QED BY <2>1, <3>1, <3>2
  <2> QED BY <2>2, <2>3
<1>5. LiveExactly'
  BY <1>4 DEF LiveExactly
<1> QED BY <1>1, <1>2, <1>5

LEMMA TakeStep ==
  ASSUME Invariant, Take
  PROVE  Invariant'
<1> USE DEF Take, caches, producer, client, shared, seen
<1>a. TypeOK /\ Window /\ ConsumerFrame /\ Some
  BY DEF Invariant
<1>p. /\ cPc = "take" /\ h = head[hc] /\ head[hc] # tailSeen[hc] /\ cPc' = "release"
      /\ hc \in Chunks /\ Consuming' = Consuming
  BY <1>a, Ranges DEF Consuming, ConsumerFrame
<1>l. /\ Window' /\ Order' /\ Left' /\ Unentered' /\ Final' /\ Filled'
      /\ ConsumerView' /\ ProducerView' /\ ProducerFrame'
      /\ \A c \in Chunks : Built(c)' = Built(c)
  BY <1>a, <1>p, CachesInWindow, ConsumerLocal
<1>t. /\ LiveExactly' /\ out' \in Value /\ h' \in Slots /\ h' = Next1(h)
      /\ buffer' \in [Chunks -> [Slots -> Value]]
  <2>1. Off(hc, h) < Off(hc, tailSeen[hc])
    BY <1>a, <1>p, InWindow, OffTells
  <2>2. Cursor(hc) = h
    BY <1>p DEF Cursor
  <2>3. \A c \in Chunks : Cursor(c)' = IF c = hc THEN Next1(h) ELSE Cursor(c)
    BY <1>p DEF Cursor, TakeElement
  <2> QED BY <1>l, <2>1, <2>2, <2>3, ElementTaken
<1>1. TypeOK'
  BY <1>a, <1>p, <1>t, Ranges DEF TypeOK
<1>2. ConsumerFrame'
  BY <1>a, <1>p, <1>t DEF ConsumerFrame
<1>3. Some'
  BY <1>a, <1>p DEF Some
<1> QED BY <1>l, <1>t, <1>1, <1>2, <1>3 DEF Invariant

\* Where the consumer sees an element there is one.
LEMMA SeenSomething ==
  ASSUME TypeOK, Window, NEW c \in Chunks, head[c] # tailSeen[c]
  PROVE  head[c] # tail[c]
<1>1. Off(c, head[c]) # Off(c, tailSeen[c])
  BY InWindow, OffTells
<1>2. Off(c, head[c]) < Off(c, tail[c])
  BY <1>1, InWindow
<1>3. Off(c, head[c]) \in Nat
  BY InWindow
<1> QED BY <1>2, <1>3

\* A consumer that declines goes back to the chunk before, or keeps the one it
\* has entered.
LEMMA DeclineStep ==
  ASSUME Invariant, Decline
  PROVE  Invariant'
<1> USE DEF Decline, caches, producer, client, shared, seen
<1>a. TypeOK /\ Window /\ Order /\ Left /\ Filled /\ ConsumerFrame /\ Some /\ LiveExactly
  BY DEF Invariant
<1>p. /\ cPc = "take" /\ h = head[hc] /\ head[hc] # tailSeen[hc]
      /\ cPc' \in {"idle", "releaseChunk"} /\ hc \in {headChunk, NextChunk(headChunk)}
      /\ hc \in Chunks /\ Consuming = hc /\ Consuming' \in {hc, headChunk}
      /\ headChunk \in Chunks /\ hc' = hc
  BY <1>a, Ranges DEF Consuming, ConsumerFrame
<1>e. /\ Window' /\ Unentered' /\ Final' /\ ConsumerView' /\ ProducerView' /\ ProducerFrame'
      /\ \A c \in Chunks : Built(c)' = Built(c)
      /\ \A c \in Chunks : Ahead(c)' = Ahead(c)
  BY <1>a, <1>p, CachesInWindow, ConsumerElsewhere
<1>1. TypeOK'
  BY <1>a, <1>p, Ranges DEF TypeOK
<1>2. ConsumerFrame'
  BY <1>a, <1>p DEF ConsumerFrame
<1>3. LiveExactly'
  <2>1. \A c \in Chunks : Cursor(c)' = Cursor(c)
    BY <1>p DEF Cursor
  <2> QED BY <1>a, <1>e, <2>1, LiveStays
<1>4. CASE Consuming' = hc
  <2>1. Order' /\ Left' /\ Filled'
    BY <1>a, <1>p, <1>4, CachesInWindow, ConsumerLocal
  <2>2. Some'
    BY <1>p, <1>4 DEF Some
  <2> QED BY <1>e, <1>1, <1>2, <1>3, <2>1, <2>2 DEF Invariant
<1>5. CASE Consuming' = headChunk /\ hc # headChunk
  <2>1. /\ Ahead(headChunk) < Ahead(hc) /\ Ahead(hc) <= Ahead(tailChunkSeen)
        /\ Ahead(headChunk) < Ahead(tailChunkSeen)
    <3>1. Ahead(headChunk) <= Ahead(hc) /\ Ahead(hc) <= Ahead(tailChunkSeen)
      BY <1>a, <1>p DEF Order
    <3>2. Ahead(headChunk) # Ahead(hc)
      BY <1>a, <1>p, <1>5, AheadTells
    <3> QED BY <1>a, <1>p, <3>1, <3>2, Ranges, AheadRanges
  <2>2. \A c \in Chunks : Ahead(headChunk) < Ahead(c) => Ahead(hc) < Ahead(c) \/ c = hc
    <3> SUFFICES ASSUME NEW c \in Chunks, Ahead(headChunk) < Ahead(c), c # hc
                 PROVE  Ahead(hc) < Ahead(c)
      OBVIOUS
    <3>1. Ahead(hc) = Ahead(headChunk) + 1
      BY <1>a, <1>p, <1>5, <2>1, NextAhead
    <3>2. Ahead(hc) # Ahead(c)
      BY <1>a, <1>p, AheadTells
    <3>3. Ahead(c) \in Nat /\ Ahead(headChunk) \in Nat
      BY <1>a, <1>p, AheadRanges
    <3> QED BY <3>1, <3>2, <3>3
  <2>3. Order'
    <3>1. /\ Ahead(headChunk)' = Ahead(headChunk) /\ Ahead(Consuming)' = Ahead(headChunk)
          /\ Ahead(tailChunkSeen)' = Ahead(tailChunkSeen)
          /\ Ahead(tailChunk)' = Ahead(tailChunk) /\ Ahead(tc)' = Ahead(tc)
      BY <1>5 DEF Ahead
    <3>2. Ahead(headChunk) \in Nat /\ Ahead(tailChunkSeen) \in Nat
      BY <1>a, Ranges, AheadRanges
    <3> QED BY <1>a, <2>1, <3>1, <3>2 DEF Order
  <2>4. Left'
    <3> SUFFICES ASSUME NEW c \in Chunks, Ahead(c) < Ahead(headChunk)
                 PROVE  head[c] = tail[c]
      BY <1>5 DEF Left, Ahead
    <3> QED BY <1>a, <1>p, <2>1, AheadRanges DEF Left
  <2>5. Filled'
    <3> SUFFICES ASSUME NEW c \in Chunks, Ahead(headChunk) < Ahead(c)
                 PROVE  /\ Ahead(c) <= Ahead(tailChunkSeen) => head[c] # tailSeen[c]
                        /\ Ahead(c) <= Ahead(tailChunk) => head[c] # tail[c]
      BY <1>5 DEF Filled, Ahead
    <3>1. head[hc] # tail[hc]
      BY <1>a, <1>p, SeenSomething
    <3> QED BY <1>a, <1>p, <2>2, <3>1 DEF Filled
  <2>6. Some'
    BY <1>a, <1>p, <1>5, <2>1, AheadRanges DEF Some
  <2> QED BY <1>e, <1>1, <1>2, <1>3, <2>3, <2>4, <2>5, <2>6 DEF Invariant
<1> QED BY <1>p, <1>4, <1>5

\* consume_all starts from the consumer's chunk.
LEMMA ConsumeAllStep ==
  ASSUME Invariant, ConsumeAll
  PROVE  Invariant'
<1> USE DEF ConsumeAll, caches, producer, client, shared, seen
<1>a. TypeOK /\ Window /\ Order /\ ConsumerFrame /\ Some /\ LiveExactly
  BY DEF Invariant
<1>p. /\ Consuming' = Consuming /\ Consuming = headChunk /\ hc' = headChunk
      /\ headChunk \in Chunks /\ tailChunkSeen \in Chunks
  BY <1>a, Ranges DEF Consuming
<1>l. /\ Window' /\ Order' /\ Left' /\ Unentered' /\ Final' /\ Filled'
      /\ ConsumerView' /\ ProducerView' /\ ProducerFrame'
      /\ \A c \in Chunks : Built(c)' = Built(c)
      /\ \A c \in Chunks : Ahead(c)' = Ahead(c)
  BY <1>a, <1>p, CachesInWindow, ConsumerLocal
<1>1. TypeOK'
  BY <1>a, <1>p, Ranges DEF TypeOK
<1>2. ConsumerFrame'
  <2>1. LastFrame'
    BY <1>a, <1>p, <1>l, AheadRanges DEF LastFrame, Order
  <2> QED BY <1>a, <2>1 DEF ConsumerFrame
<1>3. Some'
  BY <1>a, <1>p DEF Some
<1>4. LiveExactly'
  <2>1. \A c \in Chunks : Cursor(c)' = Cursor(c)
    BY DEF Cursor
  <2> QED BY <1>a, <1>l, <2>1, LiveStays
<1> QED BY <1>l, <1>1, <1>2, <1>3, <1>4 DEF Invariant

\* A chunk is drained up to the tail it has then, its last one if the producer
\* has been seen to leave it.
LEMMA DrainChunkStep ==
  ASSUME Invariant, DrainChunk
  PROVE  Invariant'
<1> USE DEF DrainChunk, caches, producer, client, shared, seen
<1>a. TypeOK /\ Window /\ Order /\ Final /\ ConsumerFrame /\ Some /\ LiveExactly
  BY DEF Invariant
<1>p. /\ cPc = "drainChunk" /\ cPc' \in {"releaseChunk", "drain"} /\ Consuming = hc
      /\ Consuming' = Consuming /\ hc \in Chunks /\ last \in Chunks /\ LastFrame
      /\ tailChunkSeen \in Chunks /\ hc' = hc /\ h' = head[hc] /\ t' = tailSeen[hc]
      /\ "consume_all" \in ops
  BY <1>a, Ranges DEF Consuming, ConsumerFrame
<1>l. /\ Window' /\ Order' /\ Left' /\ Unentered' /\ Final' /\ Filled'
      /\ ConsumerView' /\ ProducerView' /\ ProducerFrame'
      /\ \A c \in Chunks : Built(c)' = Built(c)
      /\ \A c \in Chunks : Ahead(c)' = Ahead(c)
      /\ \A c \in Chunks, i \in Slots : Off(c, i)' = Off(c, i)
  BY <1>a, <1>p, CachesInWindow, ConsumerLocal
<1>1. TypeOK'
  BY <1>a, <1>p, Ranges DEF TypeOK
<1>2. ConsumerFrame'
  <2>1. LastFrame'
    BY <1>p, <1>l DEF LastFrame
  <2>2. hc # last => tailSeen[hc] = tail[hc]
    <3> SUFFICES ASSUME hc # last
                 PROVE  Ahead(hc) < Ahead(tailChunkSeen)
      BY <1>a, <1>p DEF Final
    <3>1. Ahead(hc) # Ahead(last)
      BY <1>a, <1>p, AheadTells
    <3> QED BY <1>a, <1>p, <3>1, AheadRanges DEF LastFrame
  <2>3. /\ Off(hc, head[hc])' <= Off(hc, h)' /\ Off(hc, h)' <= Off(hc, t)'
        /\ Off(hc, t)' <= Off(hc, tailSeen[hc])'
    <3>1. /\ Off(hc, head[hc]) <= Off(hc, tailSeen[hc]) /\ Off(hc, head[hc]) \in Nat
          /\ Off(hc, tailSeen[hc]) \in Nat
      BY <1>a, <1>p, InWindow
    <3>2. /\ Off(hc, head[hc])' = Off(hc, head[hc]) /\ Off(hc, h)' = Off(hc, head[hc])
          /\ Off(hc, t)' = Off(hc, tailSeen[hc])
          /\ Off(hc, tailSeen[hc])' = Off(hc, tailSeen[hc])
      BY <1>p DEF Off, Origin
    <3> QED BY <3>1, <3>2
  <2> QED BY <1>a, <1>p, <2>1, <2>2, <2>3 DEF ConsumerFrame
<1>3. Some'
  BY <1>a, <1>p DEF Some
<1>4. LiveExactly'
  <2>1. \A c \in Chunks : Cursor(c)' = Cursor(c)
    BY <1>p DEF Cursor
  <2> QED BY <1>a, <1>l, <2>1, LiveStays
<1> QED BY <1>l, <1>1, <1>2, <1>3, <1>4 DEF Invariant

LEMMA DrainElementStep ==
  ASSUME Invariant, DrainElement
  PROVE  Invariant'
<1> USE DEF DrainElement, caches, producer, client, shared, seen
<1>a. TypeOK /\ Window /\ ConsumerFrame /\ Some
  BY DEF Invariant
<1>p. /\ cPc = "drain" /\ h # t /\ hc \in Chunks /\ h \in Slots /\ t \in Slots
      /\ Consuming' = Consuming /\ LastFrame /\ "consume_all" \in ops
  BY <1>a, Ranges DEF Consuming, ConsumerFrame
<1>l. /\ Window' /\ Order' /\ Left' /\ Unentered' /\ Final' /\ Filled'
      /\ ConsumerView' /\ ProducerView' /\ ProducerFrame'
      /\ \A c \in Chunks : Built(c)' = Built(c)
      /\ \A c \in Chunks : Ahead(c)' = Ahead(c)
  BY <1>a, <1>p, CachesInWindow, ConsumerLocal
<1>o. /\ Off(hc, head[hc]) <= Off(hc, h) /\ Off(hc, h) < Off(hc, t)
      /\ Off(hc, t) <= Off(hc, tailSeen[hc])
      /\ Off(hc, head[hc]) \in Nat /\ Off(hc, h) \in Nat /\ Off(hc, t) \in Nat
      /\ Off(hc, tailSeen[hc]) \in Nat
  <2>1. /\ Off(hc, head[hc]) <= Off(hc, h) /\ Off(hc, h) <= Off(hc, t)
        /\ Off(hc, t) <= Off(hc, tailSeen[hc])
    BY <1>a, <1>p DEF ConsumerFrame
  <2>2. /\ Off(hc, head[hc]) \in Nat /\ Off(hc, h) \in Nat /\ Off(hc, t) \in Nat
        /\ Off(hc, tailSeen[hc]) \in Nat /\ Off(hc, h) # Off(hc, t)
    BY <1>a, <1>p, OffRanges, OffTells, InWindow
  <2> QED BY <2>1, <2>2
<1>t. /\ LiveExactly' /\ out' \in Value /\ h' \in Slots /\ h' = Next1(h)
      /\ buffer' \in [Chunks -> [Slots -> Value]]
      /\ Off(hc, Next1(h)) = Off(hc, h) + 1
  <2>1. Off(hc, h) < Off(hc, tailSeen[hc])
    BY <1>o
  <2>2. Cursor(hc) = h
    BY <1>p DEF Cursor
  <2>3. \A c \in Chunks : Cursor(c)' = IF c = hc THEN Next1(h) ELSE Cursor(c)
    BY <1>p DEF Cursor, TakeElement
  <2> QED BY <1>l, <2>1, <2>2, <2>3, ElementTaken
<1>1. TypeOK'
  BY <1>a, <1>p, <1>t, Ranges DEF TypeOK
<1>2. ConsumerFrame'
  <2>1. LastFrame'
    BY <1>p DEF LastFrame, Ahead, Consuming
  <2>2. /\ Off(hc, head[hc])' <= Off(hc, h)' /\ Off(hc, h)' <= Off(hc, t)'
        /\ Off(hc, t)' <= Off(hc, tailSeen[hc])'
    <3>1. /\ Off(hc, head[hc])' = Off(hc, head[hc]) /\ Off(hc, h)' = Off(hc, Next1(h))
          /\ Off(hc, t)' = Off(hc, t) /\ Off(hc, tailSeen[hc])' = Off(hc, tailSeen[hc])
      BY <1>t DEF Off, Origin
    <3> QED BY <1>o, <1>t, <3>1
  <2> QED BY <1>a, <1>p, <2>1, <2>2 DEF ConsumerFrame
<1>3. Some'
  BY <1>a, <1>p DEF Some
<1> QED BY <1>l, <1>t, <1>1, <1>2, <1>3 DEF Invariant

\* is_empty() looks at the chunk the producer was in.
LEMMA IsEmptyStep ==
  ASSUME Invariant, IsEmpty
  PROVE  Invariant'
<1> USE DEF IsEmpty, caches, producer, client, shared, seen
<1>a. TypeOK /\ Window /\ Order /\ ConsumerFrame /\ Some /\ LiveExactly
  BY DEF Invariant
<1>p. /\ Consuming' = Consuming /\ Consuming = headChunk
      /\ headChunk \in Chunks /\ tailChunkSeen \in Chunks
  BY <1>a, Ranges DEF Consuming
<1>l. /\ Window' /\ Order' /\ Left' /\ Unentered' /\ Final' /\ Filled'
      /\ ConsumerView' /\ ProducerView' /\ ProducerFrame'
      /\ \A c \in Chunks : Built(c)' = Built(c)
      /\ \A c \in Chunks : Ahead(c)' = Ahead(c)
  BY <1>a, <1>p, CachesInWindow, ConsumerLocal
<1>1. TypeOK'
  BY <1>a, <1>p, Ranges DEF TypeOK
<1>2. ConsumerFrame'
  <2>1. LastFrame'
    BY <1>a, <1>p, <1>l, AheadRanges DEF LastFrame, Order
  <2> QED BY <1>a, <2>1 DEF ConsumerFrame
<1>3. Some'
  BY <1>a, <1>p DEF Some
<1>4. LiveExactly'
  <2>1. \A c \in Chunks : Cursor(c)' = Cursor(c)
    BY DEF Cursor
  <2> QED BY <1>a, <1>l, <2>1, LiveStays
<1> QED BY <1>l, <1>1, <1>2, <1>3, <1>4 DEF Invariant

\* If there is none in the consumer's chunk, the producer was in another.
LEMMA ChunkIsEmptyStep ==
  ASSUME Invariant, ChunkIsEmpty
  PROVE  Invariant'
<1> USE DEF ChunkIsEmpty, caches, producer, shared, seen
<1>a. TypeOK /\ Window /\ Order /\ ConsumerFrame /\ Some /\ LiveExactly
  BY DEF Invariant
<1>p. /\ Consuming' = Consuming /\ Consuming = headChunk /\ headChunk \in Chunks
      /\ tailChunkSeen \in Chunks /\ last \in Chunks /\ LastFrame
  BY <1>a, Ranges DEF Consuming, ConsumerFrame
<1>l. /\ Window' /\ Order' /\ Left' /\ Unentered' /\ Final' /\ Filled'
      /\ ConsumerView' /\ ProducerView' /\ ProducerFrame'
      /\ \A c \in Chunks : Built(c)' = Built(c)
  BY <1>a, <1>p, CachesInWindow, ConsumerLocal
<1>1. TypeOK'
  BY <1>a, <1>p, Ranges DEF TypeOK
<1>2. ConsumerFrame'
  BY <1>a DEF ConsumerFrame
<1>3. Some'
  <2>1. headChunk = tailChunkSeen => last = headChunk
    <3>1. headChunk = tailChunkSeen => Ahead(last) = Ahead(headChunk)
      BY <1>a, <1>p, AheadRanges DEF LastFrame
    <3> QED BY <1>a, <1>p, <3>1, AheadTells
  <2> QED BY <1>p, <2>1 DEF Some
<1>4. LiveExactly'
  <2>1. \A c \in Chunks : Cursor(c)' = Cursor(c)
    BY DEF Cursor
  <2> QED BY <1>a, <1>l, <2>1, LiveStays
<1> QED BY <1>l, <1>1, <1>2, <1>3, <1>4 DEF Invariant

-----------------------------------------------------------------------------
(* The consumer's stores.                                                  *)

\* The window after the head, and what is seen of it, have moved on.
LEMMA WindowMoves ==
  ASSUME TypeOK, Window, UNCHANGED <<tailSeen, tail, tailCache, class, ops>>,
         \A c \in Chunks :
           /\ Origin(c)' \in Slots /\ headSeen'[c] \in Slots /\ head'[c] \in Slots
           /\ Off(c, Origin(c)') <= Off(c, headSeen'[c])
           /\ Off(c, headSeen'[c]) <= Off(c, head'[c])
           /\ Off(c, head'[c]) <= Off(c, tailSeen[c])
           /\ class.cached /\ "consume_all" \notin ops =>
                Off(c, head'[c]) <= Off(c, tailCache[c])
  PROVE  /\ Window'
         /\ \A c \in Chunks : Off(c, tail[c])' <= Off(c, tail[c])
<1>1. ASSUME NEW c \in Chunks
      PROVE  /\ Off(c, headSeen[c])' <= Off(c, head[c])'
             /\ Off(c, head[c])' <= Off(c, tailSeen[c])'
             /\ Off(c, tailSeen[c])' <= Off(c, tail[c])'
             /\ Off(c, tail[c])' <= Off(c, tail[c])
             /\ class.cached /\ "consume_all" \notin ops =>
                  /\ Off(c, head[c])' <= Off(c, tailCache[c])'
                  /\ Off(c, tailCache[c])' <= Off(c, tailSeen[c])'
  <2>1. PICK d \in Nat, i \in Slots, j \in Slots :
          d = Off(c, Origin(c)') /\ i = headSeen'[c] /\ j = head'[c]
    BY OffRanges
  <2>2. /\ d <= Off(c, i) /\ Off(c, i) <= Off(c, j) /\ Off(c, j) <= Off(c, tailSeen[c])
        /\ class.cached /\ "consume_all" \notin ops => Off(c, j) <= Off(c, tailCache[c])
    BY <2>1
  <2>3. ASSUME NEW k \in Slots, d <= Off(c, k)
        PROVE  Off(c, k)' = Off(c, k) - d
    BY <2>1, <2>3, OriginMoves
  <2>4. /\ Off(c, i) \in Nat /\ Off(c, j) \in Nat /\ Off(c, tailSeen[c]) \in Nat
        /\ Off(c, tail[c]) \in Nat /\ Off(c, tailCache[c]) \in Nat
        /\ Off(c, tailSeen[c]) <= Off(c, tail[c])
        /\ tailSeen[c] \in Slots /\ tail[c] \in Slots /\ tailCache[c] \in Slots
    BY InWindow, OffRanges
  <2>5. /\ d <= Off(c, j) /\ d <= Off(c, tailSeen[c]) /\ d <= Off(c, tail[c])
        /\ class.cached /\ "consume_all" \notin ops => d <= Off(c, tailCache[c])
    BY <2>2, <2>4
  <2>6. /\ Off(c, i)' = Off(c, i) - d /\ Off(c, j)' = Off(c, j) - d
        /\ Off(c, tailSeen[c])' = Off(c, tailSeen[c]) - d
        /\ Off(c, tail[c])' = Off(c, tail[c]) - d
        /\ class.cached /\ "consume_all" \notin ops =>
             Off(c, tailCache[c])' = Off(c, tailCache[c]) - d
    BY <2>2, <2>3, <2>4, <2>5
  <2>7. Off(c, headSeen[c])' = Off(c, i)' /\ Off(c, head[c])' = Off(c, j)'
    BY <2>1 DEF Off
  <2>8. class.cached /\ "consume_all" \notin ops => Off(c, tailCache[c]) <= Off(c, tailSeen[c])
    BY DEF Window
  <2> QED BY <2>2, <2>4, <2>6, <2>7, <2>8
<1> QED BY <1>1 DEF Window

\* A sequentially consistent store is seen at once.
LEMMA NothingUnderWay ==
  ASSUME TypeOK, ProducerView, class.seqCst
  PROVE  toProducer = <<>> /\ headSeen = head /\ headChunkSeen = headChunk
<1>1. toProducer = <<>> /\ 1 .. Len(toProducer) = {}
  BY DEF ProducerView, Between
<1>2. \A c \in Chunks : headSeen[c] = head[c]
  BY <1>1 DEF ProducerView, Between
<1>3. headSeen = head
  BY <1>2, Ranges
<1> QED BY <1>1, <1>3 DEF ProducerView, Between

\* The head of the consumer's chunk moves on, not beyond what the consumer sees.
LEMMA HeadStored ==
  ASSUME Invariant, NEW i \in Slots, StoreHead(hc, i), Consuming = hc,
         UNCHANGED <<headCache, tailCache, producer, class, ops>>,
         Off(hc, head[hc]) <= Off(hc, i), Off(hc, i) <= Off(hc, tailSeen[hc]),
         class.cached /\ "consume_all" \notin ops => Off(hc, i) <= Off(hc, tailCache[hc])
  PROVE  /\ head' \in [Chunks -> Slots] /\ headSeen' \in [Chunks -> Slots]
         /\ toProducer' \in Seq(Store)
         /\ head'[hc] = i /\ \A c \in Chunks : c # hc => head'[c] = head[c]
         /\ Window' /\ Unentered' /\ Final' /\ ConsumerView' /\ ProducerView'
         /\ ProducerFrame'
         /\ \A c \in Chunks : Ahead(c)' = Ahead(c)
         /\ \A c \in Chunks : Built(c)' = Built(c)
<1> USE DEF StoreHead, producer
<1>a. TypeOK /\ Window /\ Order /\ Unentered /\ Final /\ ConsumerView /\ ProducerView
      /\ ProducerFrame
  BY DEF Invariant
<1>r. hc \in Chunks /\ tailChunkSeen \in Chunks /\ tailChunk \in Chunks /\ tc \in Chunks
  BY <1>a, Ranges
<1>h. /\ head' \in [Chunks -> Slots] /\ head'[hc] = i
      /\ \A c \in Chunks : c # hc => head'[c] = head[c]
  BY <1>a, <1>r, Ranges
<1>s. headSeen' \in {headSeen, head'} /\ headSeen' \in [Chunks -> Slots]
  BY <1>a, <1>h, Ranges DEF Seen
<1>e. class.seqCst => toProducer = <<>> /\ headSeen = head /\ headChunkSeen = headChunk
  BY <1>a, NothingUnderWay
<1>n. ~class.seqCst => headSeen' = headSeen
  BY DEF Seen
<1>d. \A c \in Chunks : Ahead(c)' = Ahead(c) /\ Ahead(c) \in Nat
  BY <1>a, AheadRanges DEF Ahead
<1>o. ASSUME NEW c \in Chunks
      PROVE  /\ Origin(c)' \in Slots /\ headSeen'[c] \in Slots /\ head'[c] \in Slots
             /\ Off(c, Origin(c)') <= Off(c, headSeen'[c])
             /\ Off(c, headSeen'[c]) <= Off(c, head'[c])
             /\ Off(c, head[c]) <= Off(c, head'[c])
             /\ Off(c, head'[c]) <= Off(c, tailSeen[c])
             /\ class.cached /\ "consume_all" \notin ops =>
                  Off(c, head'[c]) <= Off(c, tailCache[c])
  <2>0. /\ headSeen'[c] \in Slots /\ head'[c] \in Slots /\ Origin(c) \in Slots
        /\ headCache[c] \in Slots
    BY <1>a, <1>h, <1>s, OffRanges, Ranges
  <2>1. Off(c, head'[c]) \in Nat /\ Off(c, headSeen'[c]) \in Nat
    BY <1>a, <2>0, OffRanges
  <2>2. Off(c, head[c]) <= Off(c, head'[c]) /\ Off(c, head'[c]) <= Off(c, tailSeen[c])
    BY <1>a, <1>h, InWindow
  <2>3. Off(c, headSeen'[c]) <= Off(c, head'[c])
    <3>1. headSeen'[c] \in {headSeen[c], head'[c]}
      BY <1>s
    <3>2. /\ Off(c, headSeen[c]) <= Off(c, head[c]) /\ Off(c, headSeen[c]) \in Nat
          /\ Off(c, head[c]) \in Nat
      BY <1>a, InWindow
    <3> QED BY <2>1, <2>2, <3>1, <3>2
  <2>4. Origin(c)' = IF class.cached THEN Origin(c) ELSE headSeen'[c]
    BY DEF Origin
  <2>5. Off(c, Origin(c)) = 0
    BY <2>0, DistBasics DEF Off
  <2>6. Origin(c)' \in Slots /\ Off(c, Origin(c)') <= Off(c, headSeen'[c])
    BY <2>0, <2>1, <2>4, <2>5
  <2>7. class.cached /\ "consume_all" \notin ops => Off(c, head'[c]) <= Off(c, tailCache[c])
    BY <1>a, <1>h DEF Window
  <2> QED BY <2>0, <2>2, <2>3, <2>6, <2>7
<1>w. Window' /\ \A c \in Chunks : Off(c, tail[c])' <= Off(c, tail[c])
  BY <1>a, <1>o, WindowMoves
<1>k. OffsKept(tailSeen) /\ AheadsKept(tailChunkSeen)
  <2>1. ASSUME NEW c \in Chunks, NEW j \in Slots, NEW k \in Slots
        PROVE  /\ Off(c, j)' \in Nat
               /\ Off(c, tailSeen[c]) <= Off(c, j) /\ Off(c, j) < Off(c, k) =>
                    Off(c, j)' < Off(c, k)'
    <3>1. tailSeen[c] \in Slots /\ Origin(c)' \in Slots
      BY <1>a, <1>o, InWindow
    <3>2. /\ Off(c, Origin(c)') \in Nat /\ Off(c, headSeen'[c]) \in Nat
          /\ Off(c, head'[c]) \in Nat /\ Off(c, tailSeen[c]) \in Nat
      BY <1>a, <1>o, OffRanges, InWindow
    <3>3. Off(c, Origin(c)') <= Off(c, tailSeen[c])
      <4>1. /\ Off(c, Origin(c)') <= Off(c, headSeen'[c])
            /\ Off(c, headSeen'[c]) <= Off(c, head'[c])
            /\ Off(c, head'[c]) <= Off(c, tailSeen[c])
        BY <1>o
      <4> QED BY <3>2, <4>1
    <3> QED BY <1>a, <3>1, <3>3, OrderKept
  <2> QED BY <1>d, <2>1 DEF OffsKept, AheadsKept
<1>c. ConsumerView'
  <2>1. PICK q \in Seq(Store), si \in [Chunks -> Slots], ix \in [Chunks -> Slots],
             sc \in Chunks, ch \in Chunks :
          /\ q = toConsumer /\ si = tailSeen /\ ix = tail
          /\ sc = tailChunkSeen /\ ch = tailChunk
    BY <1>a, Ranges
  <2>2. InOrder(q) /\ Between(q, si, ix, sc, ch)
    BY <1>a, <2>1 DEF ConsumerView
  <2>3. ASSUME NEW k \in 1 .. Len(q), ~q[k].index
        PROVE  q[k].chunk \in Chunks /\ q[k].chunk # hc
    <3>1. q[k].chunk \in Chunks
      BY Stores
    <3>2. Ahead(tailChunkSeen) < Ahead(q[k].chunk)
      BY <2>1, <2>2, <2>3 DEF Between, Within
    <3>3. Ahead(hc) <= Ahead(tailChunkSeen)
      BY <1>a DEF Order
    <3> QED BY <1>d, <1>r, <3>1, <3>2, <3>3
  <2>4. FirstElement'
    BY <1>a, <1>h, <2>1, <2>3 DEF FirstElement, ConsumerView
  <2>5. OffsKept(si) /\ AheadsKept(sc)
    BY <1>k, <2>1
  <2> QED BY <1>a, <2>1, <2>2, <2>4, <2>5, ConsumerViewBecomes
<1>p. ProducerView' /\ toProducer' \in Seq(Store)
  <2>1. CASE class.seqCst
    <3>1. toProducer' = toProducer /\ headSeen' = head' /\ headChunkSeen' = headChunk'
      BY <1>e, <2>1 DEF Queued, Seen
    <3>2. toProducer \in Seq(Store) /\ 1 .. Len(toProducer) = {}
      BY <1>a, <1>e, <2>1, Ranges
    <3>3. InOrder(toProducer)'
      BY <3>1, <3>2 DEF InOrder
    <3>4. Between(toProducer, headSeen, head, headChunkSeen, headChunk)'
      BY <1>e, <2>1, <3>1, <3>2 DEF Between
    <3> QED BY <3>1, <3>2, <3>3, <3>4 DEF ProducerView
  <2>2. CASE ~class.seqCst /\ head[hc] = i
    <3>1. toProducer' = toProducer /\ head' = head /\ headSeen' = headSeen
      BY <1>a, <1>n, <2>2, Ranges DEF Queued
    <3> QED BY <1>a, <3>1, ProducerViewStays, Ranges
  <2>3. CASE ~class.seqCst /\ head[hc] # i
    <3>1. toProducer' = Append(toProducer, IndexStore(hc, i)) /\ headSeen' = headSeen
      BY <1>n, <2>3 DEF Queued
    <3>2. PICK p \in Seq(Store), si \in [Chunks -> Slots], ix \in [Chunks -> Slots],
               sc \in Chunks, ch \in Chunks, c \in Chunks :
            /\ p = toProducer /\ si = headSeen /\ ix = head /\ sc = headChunkSeen
            /\ ch = headChunk /\ c = hc
      BY <1>a, Ranges
    <3>3. InOrder(p) /\ Between(p, si, ix, sc, ch)
      BY <1>a, <3>2 DEF ProducerView
    <3>4. Off(hc, head[hc]) < Off(hc, i)
      <4>1. Off(hc, head[hc]) # Off(hc, i)
        BY <1>a, <1>r, <2>3, Ranges, OffTells
      <4>2. Off(hc, head[hc]) \in Nat /\ Off(hc, i) \in Nat
        BY <1>a, <1>r, OffRanges, InWindow
      <4> QED BY <4>1, <4>2
    <3>5. /\ Ahead(ch) <= Ahead(c) /\ Off(c, si[c]) <= Off(c, ix[c])
          /\ Off(c, ix[c]) < Off(c, i)
      BY <1>a, <3>2, <3>4 DEF Order, Window
    <3>6. PICK r \in Seq(Store), iy \in [Chunks -> Slots] :
            /\ r = Append(p, IndexStore(c, i)) /\ iy = [ix EXCEPT ![c] = i]
            /\ InOrder(r) /\ Between(r, si, iy, sc, ch)
      <4>1. LET r == Append(p, IndexStore(c, i)) IN
            /\ r \in Seq(Store) /\ InOrder(r)
            /\ Between(r, si, [ix EXCEPT ![c] = i], sc, ch)
        BY <1>a, <2>3, <3>3, <3>5, AppendIndex
      <4>2. [ix EXCEPT ![c] = i] \in [Chunks -> Slots]
        OBVIOUS
      <4> QED BY <4>1, <4>2
    <3>7. /\ toProducer' = r /\ headSeen' = si /\ head' = iy
          /\ headChunkSeen' = sc /\ headChunk' = ch
      BY <3>1, <3>2, <3>6
    <3>8. OffsKept(si) /\ AheadsKept(sc)
      BY <1>a, <1>n, <2>3, AllKept
    <3>9. ProducerView'
      BY <1>a, <3>6, <3>7, <3>8, ProducerViewBecomes
    <3> QED BY <3>7, <3>9
  <2> QED BY <2>1, <2>2, <2>3
<1>u. /\ Ahead(hc) <= Ahead(tailChunk) /\ Ahead(tailChunk) \in Nat
      /\ Final'
  <2>1. Ahead(hc) <= Ahead(tailChunkSeen) /\ Ahead(tailChunkSeen) <= Ahead(tailChunk)
    BY <1>a DEF Order
  <2> QED BY <1>a, <1>d, <1>r, <2>1 DEF Final
<1>1. Unentered'
  <2> SUFFICES ASSUME NEW c \in Chunks, Ahead(c) > Ahead(tailChunk),
                      ~(pPc = "publishChunk" /\ c = tc)
               PROVE  headSeen'[c] = tail[c]
    BY <1>d, <1>r DEF Unentered
  <2>1. c # hc
    BY <1>d, <1>r, <1>u
  <2>2. headSeen'[c] = headSeen[c]
    BY <1>e, <1>h, <1>n, <1>s, <2>1
  <2> QED BY <1>a, <2>2 DEF Unentered
<1>2. ProducerFrame'
  <2>1. tc # tailChunk => tc # hc
    <3>1. tc # tailChunk => Ahead(tc) # Ahead(tailChunk)
      BY <1>a, <1>r, AheadTells
    <3> QED BY <1>a, <1>d, <1>r, <1>u, <3>1 DEF Order
  <2>2. pPc \in {"construct", "publish"} => Off(tc, tail[tc])' < ChunkSize - 1
    <3> SUFFICES ASSUME pPc \in {"construct", "publish"}
                 PROVE  Off(tc, tail[tc])' < ChunkSize - 1
      OBVIOUS
    <3>1. Off(tc, tail[tc]) < ChunkSize - 1 /\ Off(tc, tail[tc])' <= Off(tc, tail[tc])
      BY <1>a, <1>r, <1>w DEF ProducerFrame
    <3>2. Off(tc, tail[tc]) \in Nat /\ tail[tc] \in Slots
      BY <1>a, <1>r, InWindow
    <3>3. Off(tc, tail[tc])' \in Nat
      BY <1>o, <1>r, <3>2, DistRange DEF Off
    <3> QED BY <3>1, <3>2, <3>3, ChunkSizeAssumption
  <2> QED BY <1>a, <1>h, <1>r, <2>1, <2>2 DEF ProducerFrame
<1>3. \A c \in Chunks : Built(c)' = Built(c)
  BY DEF Built
<1> QED BY <1>h, <1>s, <1>d, <1>w, <1>c, <1>p, <1>u, <1>1, <1>2, <1>3

\* The element that was taken is given up: the head moves over its slot.
LEMMA ReleaseHeadStep ==
  ASSUME Invariant, ReleaseHead
  PROVE  Invariant'
<1> USE DEF ReleaseHead, caches, producer
<1>a. TypeOK /\ Window /\ Order /\ Left /\ Filled /\ ConsumerFrame /\ LiveExactly
  BY DEF Invariant
<1>p. /\ cPc = "release" /\ StoreHead(hc, h) /\ cPc' \in {"idle", "releaseChunk"}
      /\ (cPc' = "idle" => hc = headChunk) /\ headChunk' = headChunk /\ hc' = hc
      /\ Consuming = hc /\ Consuming' = hc /\ hc \in Chunks /\ h \in Slots
      /\ head[hc] # tailSeen[hc] /\ h = Next1(head[hc])
      /\ UNCHANGED <<tail, tailSeen, tailChunk, tailChunkSeen, toConsumer, headChunkSeen,
                     headCache, tailCache, buffer, producer, hc, last, h, t, class, ops,
                     out>>
      /\ cSome' = FALSE
  BY <1>a, Ranges DEF Consuming, ConsumerFrame, StoreHead
<1>o. /\ Off(hc, head[hc]) <= Off(hc, h) /\ Off(hc, h) <= Off(hc, tailSeen[hc])
      /\ class.cached /\ "consume_all" \notin ops => Off(hc, h) <= Off(hc, tailCache[hc])
  <2>1. /\ Off(hc, head[hc]) \in Nat /\ Off(hc, tailSeen[hc]) \in Nat
        /\ Off(hc, tailCache[hc]) \in Nat /\ head[hc] \in Slots /\ tailSeen[hc] \in Slots
        /\ tailCache[hc] \in Slots /\ Off(hc, tailSeen[hc]) <= ChunkSize - 1
    BY <1>a, <1>p, InWindow, OffRanges
  <2>2. /\ Off(hc, head[hc]) <= Off(hc, tailSeen[hc])
        /\ Off(hc, head[hc]) # Off(hc, tailSeen[hc])
    BY <1>a, <1>p, InWindow, OffTells
  <2>3. Off(hc, h) = Off(hc, head[hc]) + 1
    <3>1. Off(hc, head[hc]) < ChunkSize - 1
      BY <2>1, <2>2, ChunkSizeAssumption
    <3> QED BY <1>a, <1>p, <2>1, <3>1, OffNext
  <2>4. class.cached /\ "consume_all" \notin ops =>
          /\ Off(hc, head[hc]) <= Off(hc, tailCache[hc])
          /\ Off(hc, head[hc]) # Off(hc, tailCache[hc])
    BY <1>a, <1>p, <2>1, OffTells DEF Window, ConsumerFrame
  <2> QED BY <2>1, <2>2, <2>3, <2>4
<1>l. /\ head' \in [Chunks -> Slots] /\ headSeen' \in [Chunks -> Slots]
      /\ toProducer' \in Seq(Store)
      /\ head'[hc] = h /\ \A c \in Chunks : c # hc => head'[c] = head[c]
      /\ Window' /\ Unentered' /\ Final' /\ ConsumerView' /\ ProducerView'
      /\ ProducerFrame'
      /\ \A c \in Chunks : Ahead(c)' = Ahead(c)
      /\ \A c \in Chunks : Built(c)' = Built(c)
  BY <1>p, <1>o, HeadStored
<1>1. TypeOK'
  BY <1>a, <1>p, <1>l, Ranges DEF TypeOK
<1>2. Order' /\ Left' /\ Filled'
  <2>1. \A c \in Chunks : Ahead(c) # Ahead(hc) => head'[c] = head[c]
    BY <1>l
  <2>2. Left'
    <3> SUFFICES ASSUME NEW c \in Chunks, Ahead(c) < Ahead(hc)
                 PROVE  head'[c] = tail[c]
      BY <1>p, <1>l DEF Left
    <3>1. Ahead(c) \in Nat /\ Ahead(hc) \in Nat
      BY <1>a, <1>p, AheadRanges
    <3> QED BY <1>a, <1>p, <2>1, <3>1 DEF Left
  <2>3. Filled'
    <3> SUFFICES ASSUME NEW c \in Chunks, Ahead(hc) < Ahead(c)
                 PROVE  /\ Ahead(c) <= Ahead(tailChunkSeen) => head'[c] # tailSeen[c]
                        /\ Ahead(c) <= Ahead(tailChunk) => head'[c] # tail[c]
      BY <1>a, <1>p, <1>l, Ranges DEF Filled
    <3>1. Ahead(c) \in Nat /\ Ahead(hc) \in Nat
      BY <1>a, <1>p, AheadRanges
    <3> QED BY <1>a, <1>p, <2>1, <3>1 DEF Filled
  <2>4. Order'
    BY <1>a, <1>p, <1>l, Ranges DEF Order
  <2> QED BY <2>2, <2>3, <2>4
<1>3. ConsumerFrame'
  BY <1>a, <1>p DEF ConsumerFrame
<1>4. Some'
  BY <1>p DEF Some
<1>5. LiveExactly'
  <2>1. \A c \in Chunks : Cursor(c)' = Cursor(c)
    BY <1>p, <1>l DEF Cursor
  <2> QED BY <1>a, <1>p, <1>l, <2>1, LiveStays
<1> QED BY <1>l, <1>1, <1>2, <1>3, <1>4, <1>5 DEF Invariant

\* A chunk is drained, or the callback refuses: its head is stored, and the
\* consumer goes on to the next chunk or ends in this one.
LEMMA DrainReleaseStep ==
  ASSUME Invariant, DrainRelease
  PROVE  Invariant'
<1> USE DEF DrainRelease, caches, producer
<1>a. TypeOK /\ Window /\ Order /\ Left /\ Filled /\ ConsumerFrame /\ Some /\ LiveExactly
  BY DEF Invariant
<1>p. /\ cPc = "drain" /\ StoreHead(hc, h) /\ headChunk' = headChunk
      /\ Consuming = hc /\ Consuming' = hc' /\ hc \in Chunks /\ h \in Slots
      /\ last \in Chunks /\ tailChunkSeen \in Chunks /\ "consume_all" \in ops /\ LastFrame
      /\ UNCHANGED <<tail, tailSeen, tailChunk, tailChunkSeen, toConsumer, headChunkSeen,
                     headCache, tailCache, buffer, producer, last, h, t, class, ops, out>>
      /\ cSome' = (cSome /\ h = head[hc])
      /\ \/ h = t /\ hc # last /\ cPc' = "drainChunk" /\ hc' = NextChunk(hc)
         \/ cPc' = "releaseChunk" /\ hc' = hc
  BY <1>a, Ranges DEF Consuming, ConsumerFrame, StoreHead
<1>o. Off(hc, head[hc]) <= Off(hc, h) /\ Off(hc, h) <= Off(hc, tailSeen[hc])
  <2>1. /\ Off(hc, head[hc]) <= Off(hc, h) /\ Off(hc, h) <= Off(hc, t)
        /\ Off(hc, t) <= Off(hc, tailSeen[hc])
    BY <1>a, <1>p DEF ConsumerFrame
  <2>2. /\ Off(hc, h) \in Nat /\ Off(hc, t) \in Nat /\ Off(hc, tailSeen[hc]) \in Nat
    BY <1>a, <1>p, Ranges, OffRanges, InWindow
  <2> QED BY <2>1, <2>2
<1>l. /\ head' \in [Chunks -> Slots] /\ headSeen' \in [Chunks -> Slots]
      /\ toProducer' \in Seq(Store)
      /\ head'[hc] = h /\ \A c \in Chunks : c # hc => head'[c] = head[c]
      /\ Window' /\ Unentered' /\ Final' /\ ConsumerView' /\ ProducerView'
      /\ ProducerFrame'
      /\ \A c \in Chunks : Ahead(c)' = Ahead(c)
      /\ \A c \in Chunks : Built(c)' = Built(c)
  BY <1>p, <1>o, HeadStored
<1>f. \A c \in Chunks : /\ Ahead(c) < Ahead(hc) => head'[c] = tail[c]
                        /\ Ahead(hc) < Ahead(c) =>
                             /\ Ahead(c) <= Ahead(tailChunkSeen) => head'[c] # tailSeen[c]
                             /\ Ahead(c) <= Ahead(tailChunk) => head'[c] # tail[c]
  <2> SUFFICES ASSUME NEW c \in Chunks
               PROVE  /\ Ahead(c) < Ahead(hc) => head'[c] = tail[c]
                      /\ Ahead(hc) < Ahead(c) =>
                           /\ Ahead(c) <= Ahead(tailChunkSeen) => head'[c] # tailSeen[c]
                           /\ Ahead(c) <= Ahead(tailChunk) => head'[c] # tail[c]
    OBVIOUS
  <2>1. Ahead(c) \in Nat /\ Ahead(hc) \in Nat /\ (Ahead(c) # Ahead(hc) => head'[c] = head[c])
    BY <1>a, <1>p, <1>l, AheadRanges
  <2>2. /\ Ahead(c) < Ahead(hc) => head[c] = tail[c]
        /\ Ahead(hc) < Ahead(c) =>
             /\ Ahead(c) <= Ahead(tailChunkSeen) => head[c] # tailSeen[c]
             /\ Ahead(c) <= Ahead(tailChunk) => head[c] # tail[c]
    BY <1>a, <1>p DEF Left, Filled
  <2> QED BY <2>1, <2>2
<1>c. LiveExactly'
  <2>1. \A c \in Chunks : Cursor(c)' = Cursor(c)
    BY <1>p, <1>l DEF Cursor
  <2> QED BY <1>a, <1>p, <1>l, <2>1, LiveStays
<1>1. CASE cPc' = "releaseChunk" /\ hc' = hc
  <2>1. TypeOK'
    BY <1>a, <1>p, <1>l, <1>1, Ranges DEF TypeOK
  <2>2. Order' /\ Left' /\ Filled'
    BY <1>a, <1>p, <1>l, <1>f, <1>1, Ranges DEF Order, Left, Filled
  <2>3. ConsumerFrame'
    BY <1>a, <1>p, <1>1 DEF ConsumerFrame
  <2>4. Some'
    BY <1>a, <1>p, <1>l, <1>1 DEF Some
  <2> QED BY <1>l, <1>c, <2>1, <2>2, <2>3, <2>4 DEF Invariant
<1>2. CASE h = t /\ hc # last /\ cPc' = "drainChunk" /\ hc' = NextChunk(hc)
  <2> DEFINE n == NextChunk(hc)
  <2>1. Ahead(hc) < Ahead(last) /\ Ahead(last) <= Ahead(tailChunkSeen)
    <3>1. Ahead(hc) # Ahead(last)
      BY <1>a, <1>p, <1>2, AheadTells
    <3> QED BY <1>a, <1>p, <3>1, AheadRanges DEF LastFrame
  <2>2. /\ n \in Chunks /\ Ahead(n) <= Ahead(last) /\ Ahead(hc) < Ahead(n)
        /\ \A c \in Chunks : Ahead(c) < Ahead(n) => Ahead(c) < Ahead(hc) \/ c = hc
    BY <1>a, <1>p, <2>1, NextAhead
  <2>3. Ahead(n) <= Ahead(tailChunkSeen)
    BY <1>a, <1>p, <2>1, <2>2, AheadRanges
  <2>4. head'[hc] = tail[hc]
    BY <1>a, <1>p, <1>l, <1>2 DEF ConsumerFrame
  <2>5. Order'
    <3>1. /\ Ahead(headChunk)' = Ahead(headChunk) /\ Ahead(Consuming)' = Ahead(n)
          /\ Ahead(tailChunkSeen)' = Ahead(tailChunkSeen)
          /\ Ahead(tailChunk)' = Ahead(tailChunk) /\ Ahead(tc)' = Ahead(tc)
      BY <1>p, <1>2 DEF Ahead
    <3>2. Ahead(headChunk) \in Nat /\ Ahead(n) \in Nat /\ Ahead(hc) \in Nat
      BY <1>a, <1>p, <2>2, Ranges, AheadRanges
    <3>3. Ahead(headChunk) <= Ahead(hc)
      BY <1>a, <1>p DEF Order
    <3> QED BY <1>a, <2>2, <2>3, <3>1, <3>2, <3>3 DEF Order
  <2>6. Left'
    <3> SUFFICES ASSUME NEW c \in Chunks, Ahead(c) < Ahead(n)
                 PROVE  head'[c] = tail[c]
      BY <1>p, <1>2 DEF Left, Ahead
    <3> QED BY <1>f, <2>2, <2>4
  <2>7. Filled'
    <3> SUFFICES ASSUME NEW c \in Chunks, Ahead(n) < Ahead(c)
                 PROVE  /\ Ahead(c) <= Ahead(tailChunkSeen) => head'[c] # tailSeen[c]
                        /\ Ahead(c) <= Ahead(tailChunk) => head'[c] # tail[c]
      BY <1>p, <1>2 DEF Filled, Ahead
    <3>1. Ahead(hc) < Ahead(c)
      BY <1>a, <1>p, <2>2, AheadRanges
    <3> QED BY <1>f, <3>1
  <2>8. TypeOK'
    BY <1>a, <1>p, <1>l, <1>2, <2>2, Ranges DEF TypeOK
  <2>9. ConsumerFrame'
    <3>1. LastFrame'
      BY <1>p, <1>2, <2>1, <2>2 DEF LastFrame, Ahead
    <3> QED BY <1>a, <1>p, <1>2, <3>1 DEF ConsumerFrame
  <2>10. Some'
    <3>1. head'[n] # tailSeen[n]
      BY <1>f, <2>2, <2>3
    <3> QED BY <1>p, <1>2, <3>1 DEF Some
  <2> QED BY <1>l, <1>c, <2>5, <2>6, <2>7, <2>8, <2>9, <2>10 DEF Invariant
<1> QED BY <1>p, <1>1, <1>2

\* Counted from the chunk the producer sees the consumer in now.
LEMMA AheadMoves ==
  ASSUME TypeOK, headChunkSeen' \in Chunks, NEW c \in Chunks
  PROVE  /\ Ahead(c)' \in Nat
         /\ Ahead(headChunkSeen') <= Ahead(c) =>
              Ahead(c)' = Ahead(c) - Ahead(headChunkSeen')
         /\ Ahead(headChunkSeen') > Ahead(c) =>
              Ahead(c)' = Ahead(c) - Ahead(headChunkSeen') + ChunkCount
<1>1. PICK b \in Chunks : b = headChunkSeen'
  OBVIOUS
<1>2. Ahead(c)' = ChunkDist(b, c)
  BY <1>1 DEF Ahead
<1>3. /\ ChunkDist(b, c) \in Nat
      /\ Ahead(b) <= Ahead(c) => ChunkDist(b, c) = Ahead(c) - Ahead(b)
      /\ Ahead(b) > Ahead(c) => ChunkDist(b, c) = Ahead(c) - Ahead(b) + ChunkCount
  BY Ranges, ChunkDistBasics DEF Ahead
<1> QED BY <1>1, <1>2, <1>3

\* The chunks from there on keep their order, and the others come last.
LEMMA AheadKept ==
  ASSUME TypeOK, headChunkSeen' \in Chunks, NEW c \in Chunks, NEW d \in Chunks,
         Ahead(headChunkSeen') <= Ahead(d)
  PROVE  /\ Ahead(headChunkSeen') <= Ahead(c) =>
              (Ahead(c)' < Ahead(d)' <=> Ahead(c) < Ahead(d))
              /\ (Ahead(c)' <= Ahead(d)' <=> Ahead(c) <= Ahead(d))
              /\ (Ahead(d)' < Ahead(c)' <=> Ahead(d) < Ahead(c))
         /\ Ahead(headChunkSeen') > Ahead(c) =>
              Ahead(d)' < Ahead(c)' /\ ~(Ahead(c)' <= Ahead(d)') /\ ~(Ahead(c)' < Ahead(d)')
<1>1. PICK b \in Nat, m \in Nat, n \in Nat :
        /\ b = Ahead(headChunkSeen') /\ m = Ahead(c) /\ n = Ahead(d)
        /\ n <= ChunkCount - 1
  BY AheadRanges
<1>2. /\ b <= n => Ahead(d)' = n - b
      /\ b <= m => Ahead(c)' = m - b
      /\ b > m => Ahead(c)' = m - b + ChunkCount
  BY <1>1, AheadMoves
<1> QED BY <1>1, <1>2, ChunkCountAssumption

\* The chunk the consumer announced is seen: those before it are free.
LEMMA HeadChunkMoves ==
  ASSUME Invariant, headChunkSeen' \in Chunks, headChunk' \in Chunks,
         Ahead(headChunkSeen') <= Ahead(headChunk'),
         Ahead(headChunk') <= Ahead(Consuming), Consuming' = Consuming,
         UNCHANGED <<tail, head, tailChunk, toConsumer, caches, tailSeen, tailChunkSeen,
                     headSeen, producer, last, class, ops>>,
         \A c \in Chunks : Ahead(c) < Ahead(headChunkSeen') => headSeen[c] = head[c]
  PROVE  /\ Window' /\ Order' /\ Left' /\ Unentered' /\ Final' /\ Filled'
         /\ ConsumerView' /\ ProducerFrame'
         /\ \A c \in Chunks : Built(c)' = Built(c)
         /\ LastFrame => LastFrame'
<1> DEFINE b == headChunkSeen'
<1> USE DEF caches, producer
<1>a. TypeOK /\ Window /\ Order /\ Left /\ Unentered /\ Final /\ Filled /\ ConsumerView
      /\ ProducerFrame
  BY DEF Invariant
<1>r. /\ Consuming \in Chunks /\ headChunk \in Chunks /\ tailChunkSeen \in Chunks
      /\ tailChunk \in Chunks /\ tc \in Chunks /\ last \in Chunks
  BY <1>a, Ranges
<1>o. /\ Ahead(b) <= Ahead(Consuming) /\ Ahead(b) <= Ahead(tailChunkSeen)
      /\ Ahead(b) <= Ahead(tailChunk) /\ Ahead(b) <= Ahead(tc)
      /\ Ahead(Consuming) <= Ahead(tailChunkSeen)
  <2>1. /\ Ahead(b) \in Nat /\ Ahead(headChunk') \in Nat /\ Ahead(Consuming) \in Nat
        /\ Ahead(tailChunkSeen) \in Nat /\ Ahead(tailChunk) \in Nat /\ Ahead(tc) \in Nat
    BY <1>a, <1>r, AheadRanges
  <2>2. /\ Ahead(b) <= Ahead(headChunk') /\ Ahead(headChunk') <= Ahead(Consuming)
    OBVIOUS
  <2> QED BY <1>a, <2>1, <2>2 DEF Order
<1>f. /\ \A c \in Chunks, i \in Slots : Off(c, i)' = Off(c, i)
      /\ \A c \in Chunks : Built(c)' = Built(c)
  BY DEF Off, Origin, Built
<1>1. Window'
  BY <1>a DEF Window, Off, Origin
<1>2. Order'
  <2>1. PICK g \in Chunks, e \in Chunks : g = headChunk' /\ e = Consuming
    BY <1>r
  <2>2. Ahead(g)' <= Ahead(e)'
    BY <1>a, <1>o, <2>1, AheadKept
  <2>3. Ahead(e)' <= Ahead(tailChunkSeen)' /\ Ahead(tailChunkSeen)' <= Ahead(tailChunk)'
        /\ Ahead(tailChunk)' <= Ahead(tc)'
    <3>1. /\ Ahead(e) <= Ahead(tailChunkSeen) /\ Ahead(tailChunkSeen) <= Ahead(tailChunk)
          /\ Ahead(tailChunk) <= Ahead(tc)
      BY <1>a, <2>1 DEF Order
    <3>2. PICK x \in Chunks, y \in Chunks, z \in Chunks :
            x = tailChunkSeen /\ y = tailChunk /\ z = tc
      BY <1>r
    <3>3. Ahead(e)' <= Ahead(x)' /\ Ahead(x)' <= Ahead(y)' /\ Ahead(y)' <= Ahead(z)'
      BY <1>a, <1>o, <2>1, <3>1, <3>2, AheadKept
    <3>4. /\ Ahead(tailChunkSeen)' = Ahead(x)' /\ Ahead(tailChunk)' = Ahead(y)'
          /\ Ahead(tc)' = Ahead(z)'
      BY <3>2 DEF Ahead
    <3> QED BY <3>3, <3>4
  <2>4. Ahead(headChunk)' = Ahead(g)' /\ Ahead(Consuming)' = Ahead(e)'
    BY <2>1 DEF Ahead
  <2> QED BY <2>2, <2>3, <2>4 DEF Order
<1>3. ASSUME NEW c \in Chunks
      PROVE  /\ Ahead(c)' < Ahead(Consuming)' => Ahead(c) < Ahead(Consuming)
             /\ Ahead(c)' < Ahead(tailChunkSeen)' => Ahead(c) < Ahead(tailChunkSeen)
             /\ Ahead(c)' <= Ahead(tailChunkSeen)' => Ahead(c) <= Ahead(tailChunkSeen)
             /\ Ahead(c)' <= Ahead(tailChunk)' => Ahead(c) <= Ahead(tailChunk)
             /\ Ahead(Consuming)' < Ahead(c)' =>
                  \/ Ahead(Consuming) < Ahead(c)
                  \/ ~(Ahead(c)' <= Ahead(tailChunkSeen)') /\ ~(Ahead(c)' <= Ahead(tailChunk)')
             /\ Ahead(c)' > Ahead(tailChunk)' =>
                  Ahead(c) > Ahead(tailChunk) \/ Ahead(c) < Ahead(b)
  <2>1. PICK e \in Chunks, x \in Chunks, y \in Chunks :
          e = Consuming /\ x = tailChunkSeen /\ y = tailChunk
    BY <1>r
  <2>2. /\ Ahead(Consuming)' = Ahead(e)' /\ Ahead(tailChunkSeen)' = Ahead(x)'
        /\ Ahead(tailChunk)' = Ahead(y)'
    BY <2>1 DEF Ahead
  <2>3. /\ Ahead(b) <= Ahead(e) /\ Ahead(b) <= Ahead(x) /\ Ahead(b) <= Ahead(y)
        /\ Ahead(b) \in Nat /\ Ahead(c) \in Nat
    BY <1>a, <1>o, <2>1, AheadRanges
  <2>4. /\ Ahead(c)' < Ahead(e)' => Ahead(c) < Ahead(e)
        /\ Ahead(c)' < Ahead(x)' => Ahead(c) < Ahead(x)
        /\ Ahead(c)' <= Ahead(x)' => Ahead(c) <= Ahead(x) /\ Ahead(b) <= Ahead(c)
        /\ Ahead(c)' <= Ahead(y)' => Ahead(c) <= Ahead(y) /\ Ahead(b) <= Ahead(c)
    BY <1>a, <2>3, AheadKept
  <2>5. Ahead(b) <= Ahead(c) => (Ahead(e)' < Ahead(c)' => Ahead(e) < Ahead(c))
    BY <1>a, <2>3, AheadKept
  <2>6. Ahead(c)' > Ahead(y)' => Ahead(c) > Ahead(y) \/ Ahead(c) < Ahead(b)
    BY <1>a, <2>3, AheadKept
  <2> QED BY <2>1, <2>2, <2>4, <2>5, <2>6
<1>4. Left' /\ Final' /\ Filled'
  BY <1>a, <1>3 DEF Left, Final, Filled
<1>5. Unentered'
  <2> SUFFICES ASSUME NEW c \in Chunks, Ahead(c)' > Ahead(tailChunk)',
                      ~(pPc = "publishChunk" /\ c = tc)
               PROVE  headSeen[c] = tail[c]
    BY DEF Unentered
  <2>1. CASE Ahead(c) > Ahead(tailChunk)
    BY <1>a, <2>1 DEF Unentered
  <2>2. CASE Ahead(c) < Ahead(b)
    <3>1. headSeen[c] = head[c]
      BY <2>2
    <3>2. Ahead(c) < Ahead(Consuming)
      BY <1>a, <1>o, <1>r, <2>2, AheadRanges
    <3> QED BY <1>a, <3>1, <3>2 DEF Left
  <2> QED BY <1>3, <2>1, <2>2
<1>6. ConsumerView'
  <2>1. OffsKept(tailSeen)
    BY <1>a, <1>f, OffRanges DEF OffsKept
  <2>2. AheadsKept(tailChunkSeen)
    <3>1. ASSUME NEW c \in Chunks, NEW d \in Chunks, Ahead(tailChunkSeen) <= Ahead(c),
                 Ahead(c) < Ahead(d)
          PROVE  Ahead(c)' < Ahead(d)'
      <4>1. Ahead(b) <= Ahead(c) /\ Ahead(b) <= Ahead(d)
        BY <1>a, <1>o, <1>r, <3>1, AheadRanges
      <4> QED BY <1>a, <3>1, <4>1, AheadKept
    <3>2. \A c \in Chunks : Ahead(c)' \in Nat
      BY <1>a, AheadMoves
    <3> QED BY <3>1, <3>2 DEF AheadsKept
  <2> QED BY <1>a, <2>1, <2>2, ConsumerViewKept
<1>7. ProducerFrame'
  BY <1>a DEF ProducerFrame, Off, Origin
<1>8. LastFrame => LastFrame'
  <2> SUFFICES ASSUME LastFrame PROVE LastFrame'
    OBVIOUS
  <2>1. PICK e \in Chunks, x \in Chunks, y \in Chunks :
          e = Consuming /\ x = tailChunkSeen /\ y = last
    BY <1>r
  <2>2. /\ Ahead(Consuming)' = Ahead(e)' /\ Ahead(tailChunkSeen)' = Ahead(x)'
        /\ Ahead(last)' = Ahead(y)'
    BY <2>1 DEF Ahead
  <2>3. Ahead(e) <= Ahead(y) /\ Ahead(y) <= Ahead(x) /\ Ahead(b) <= Ahead(e)
        /\ Ahead(b) <= Ahead(y) /\ Ahead(b) <= Ahead(x)
    BY <1>a, <1>o, <2>1, AheadRanges DEF LastFrame
  <2>4. Ahead(e)' <= Ahead(y)' /\ Ahead(y)' <= Ahead(x)'
    BY <1>a, <2>3, AheadKept
  <2> QED BY <2>2, <2>4 DEF LastFrame
<1> QED BY <1>f, <1>1, <1>2, <1>4, <1>5, <1>6, <1>7, <1>8

\* The consumer announces the chunk it is in.
LEMMA ReleaseChunkStep ==
  ASSUME Invariant, ReleaseChunk
  PROVE  Invariant'
<1> USE DEF ReleaseChunk, caches, producer, client
<1>a. TypeOK /\ Window /\ Order /\ ProducerView /\ ConsumerFrame /\ Some /\ LiveExactly
  BY DEF Invariant
<1>p. /\ cPc = "releaseChunk" /\ cPc' = "idle" /\ StoreHeadChunk(hc) /\ headChunk' = hc
      /\ Consuming = hc /\ Consuming' = hc /\ hc \in Chunks /\ headChunk \in Chunks
      /\ headChunkSeen \in Chunks
      /\ UNCHANGED <<tail, head, tailChunk, toConsumer, tailSeen, tailChunkSeen, headSeen,
                     headCache, tailCache, buffer, pPc, tc, hc, last, h, t, cSome, class,
                     ops, out>>
  BY <1>a, Ranges DEF Consuming, StoreHeadChunk
<1>s. headChunkSeen' = IF class.seqCst THEN hc ELSE headChunkSeen
  BY <1>p DEF StoreHeadChunk, Seen
<1>q. toProducer' = IF headChunk # hc /\ ~class.seqCst
                    THEN Append(toProducer, ChunkStore(hc)) ELSE toProducer
  BY <1>p DEF StoreHeadChunk, Queued
<1>o. /\ Ahead(headChunkSeen) = 0 /\ Ahead(headChunkSeen) <= Ahead(headChunk)
      /\ Ahead(headChunk) <= Ahead(hc) /\ Ahead(headChunk) \in Nat /\ Ahead(hc) \in Nat
      /\ Ahead(headChunkSeen) <= Ahead(hc)
  <2>1. Ahead(headChunkSeen) = 0
    BY <1>p, ChunkDistBasics DEF Ahead
  <2> QED BY <1>a, <1>p, <2>1, AheadRanges DEF Order
<1>m. /\ Window' /\ Order' /\ Left' /\ Unentered' /\ Final' /\ Filled'
      /\ ConsumerView' /\ ProducerFrame'
      /\ \A c \in Chunks : Built(c)' = Built(c)
  <2>1. headChunkSeen' \in Chunks /\ headChunk' \in Chunks
    BY <1>p, <1>s
  <2>2. Ahead(headChunkSeen') <= Ahead(headChunk') /\ Ahead(headChunk') <= Ahead(Consuming)
    BY <1>p, <1>s, <1>o
  <2>3. \A c \in Chunks : Ahead(c) < Ahead(headChunkSeen') => headSeen[c] = head[c]
    <3>1. CASE class.seqCst
      BY <1>a, <3>1, NothingUnderWay
    <3>2. CASE ~class.seqCst
      BY <1>a, <1>o, <1>s, <3>2, AheadRanges
    <3> QED BY <3>1, <3>2
  <2> QED BY <1>p, <2>1, <2>2, <2>3, HeadChunkMoves
<1>v. ProducerView' /\ toProducer' \in Seq(Store)
  <2>1. CASE class.seqCst
    <3>1. /\ toProducer' = toProducer /\ toProducer = <<>> /\ headSeen' = head'
          /\ headChunkSeen' = headChunk'
      BY <1>a, <1>p, <1>q, <1>s, <2>1, NothingUnderWay
    <3>2. toProducer \in Seq(Store) /\ 1 .. Len(toProducer) = {}
      BY <1>a, <3>1, Ranges
    <3>3. InOrder(toProducer)'
      BY <3>1, <3>2 DEF InOrder
    <3>4. Between(toProducer, headSeen, head, headChunkSeen, headChunk)'
      BY <2>1, <3>1, <3>2 DEF Between
    <3> QED BY <3>1, <3>2, <3>3, <3>4 DEF ProducerView
  <2>2. CASE ~class.seqCst /\ headChunk = hc
    <3>1. toProducer' = toProducer /\ headChunk' = headChunk /\ headChunkSeen' = headChunkSeen
      BY <1>p, <1>q, <1>s, <2>2
    <3> QED BY <1>a, <1>p, <3>1, ProducerViewStays, Ranges
  <2>3. CASE ~class.seqCst /\ headChunk # hc
    <3>1. PICK p \in Seq(Store), si \in [Chunks -> Slots], ix \in [Chunks -> Slots],
               sc \in Chunks, ch \in Chunks, c \in Chunks :
            /\ p = toProducer /\ si = headSeen /\ ix = head /\ sc = headChunkSeen
            /\ ch = headChunk /\ c = hc
      BY <1>a, Ranges
    <3>2. InOrder(p) /\ Between(p, si, ix, sc, ch)
      BY <1>a, <3>1 DEF ProducerView
    <3>3. Ahead(sc) <= Ahead(ch) /\ Ahead(ch) < Ahead(c)
      <4>1. Ahead(headChunk) # Ahead(hc)
        BY <1>a, <1>p, <2>3, AheadTells
      <4> QED BY <1>o, <3>1, <4>1
    <3>4. PICK r \in Seq(Store) : /\ r = Append(p, ChunkStore(c))
                                  /\ InOrder(r) /\ Between(r, si, ix, sc, c)
      <4>1. LET r == Append(p, ChunkStore(c)) IN
            r \in Seq(Store) /\ InOrder(r) /\ Between(r, si, ix, sc, c)
        BY <1>a, <2>3, <3>2, <3>3, AppendChunk
      <4> QED BY <4>1
    <3>5. /\ toProducer' = r /\ headSeen' = si /\ head' = ix
          /\ headChunkSeen' = sc /\ headChunk' = c
      BY <1>p, <1>q, <1>s, <2>3, <3>1, <3>4
    <3>6. OffsKept(si) /\ AheadsKept(sc)
      BY <1>a, <1>p, <1>s, <2>3, AllKept
    <3>7. ProducerView'
      BY <1>a, <1>p, <3>4, <3>5, <3>6, ProducerViewBecomes
    <3> QED BY <3>5, <3>7
  <2> QED BY <2>1, <2>2, <2>3
<1>1. TypeOK'
  BY <1>a, <1>p, <1>s, <1>v, Ranges DEF TypeOK
<1>2. ConsumerFrame'
  BY <1>a, <1>p DEF ConsumerFrame
<1>3. Some'
  BY <1>a, <1>p DEF Some
<1>4. LiveExactly'
  <2>1. \A c \in Chunks : Cursor(c)' = Cursor(c)
    BY <1>p DEF Cursor
  <2> QED BY <1>a, <1>p, <1>m, <2>1, LiveStays
<1> QED BY <1>m, <1>v, <1>1, <1>2, <1>3, <1>4 DEF Invariant

-----------------------------------------------------------------------------
(* Stores are seen.                                                        *)

\* What the consumer's next store to see keeps of the chunks' first elements.
LEMMA FirstElementPopped ==
  ASSUME TypeOK, ConsumerView, NEW q \in Seq(Store), q = toConsumer, q # <<>>,
         toConsumer' = Tail(q), head' = head,
         \A d \in Chunks : head[d] # tailSeen[d] => head[d] # tailSeen'[d],
         Head(q).index => tailSeen'[Head(q).chunk] # head[Head(q).chunk]
  PROVE  FirstElement'
<1> DEFINE r == Tail(q)
<1> SUFFICES ASSUME NEW k \in 1 .. Len(r), ~r[k].index
             PROVE  \/ tailSeen'[r[k].chunk] # head[r[k].chunk]
                    \/ \E j \in 1 .. k - 1 : r[j].index /\ r[j].chunk = r[k].chunk
  BY DEF FirstElement
<1>1. /\ k + 1 \in 1 .. Len(q) /\ r[k] = q[k + 1] /\ r[k].chunk \in Chunks
      /\ Len(r) = Len(q) - 1 /\ Len(q) \in Nat /\ Head(q) = q[1]
  <2>1. r \in Seq(Store)
    BY Popped
  <2> QED BY <2>1, Popped, Stores
<1>2. \/ tailSeen[r[k].chunk] # head[r[k].chunk]
      \/ \E j \in 1 .. (k + 1) - 1 : q[j].index /\ q[j].chunk = r[k].chunk
  BY <1>1 DEF ConsumerView, FirstElement
<1>3. CASE tailSeen[r[k].chunk] # head[r[k].chunk]
  BY <1>1, <1>3
<1>4. CASE \E j \in 1 .. (k + 1) - 1 : q[j].index /\ q[j].chunk = r[k].chunk
  <2>1. PICK j \in 1 .. k : q[j].index /\ q[j].chunk = r[k].chunk
    BY <1>4
  <2>2. CASE j = 1
    BY <1>1, <2>1, <2>2
  <2>3. CASE j # 1
    <3>1. j - 1 \in 1 .. k - 1 /\ j - 1 \in 1 .. Len(r) /\ j - 1 + 1 = j
      BY <1>1, <2>3
    <3>2. r[j - 1] = q[j]
      BY <3>1, Popped
    <3> QED BY <2>1, <3>1, <3>2
  <2> QED BY <2>2, <2>3
<1> QED BY <1>2, <1>3, <1>4

\* The consumer sees the next tail.
LEMMA TailIndexSeen ==
  ASSUME Invariant, PropagateTail, Head(toConsumer).index
  PROVE  Invariant'
<1> USE DEF PropagateTail, caches, producer, client, consumer
<1>a. TypeOK /\ Window /\ Order /\ Left /\ Unentered /\ Final /\ Filled /\ ConsumerView
      /\ ProducerView /\ ProducerFrame /\ ConsumerFrame /\ Some /\ LiveExactly
  BY DEF Invariant
<1>1. PICK q \in Seq(Store), si \in [Chunks -> Slots], ix \in [Chunks -> Slots],
           sc \in Chunks, ch \in Chunks :
        /\ q = toConsumer /\ si = tailSeen /\ ix = tail
        /\ sc = tailChunkSeen /\ ch = tailChunk
  BY <1>a, Ranges
<1>2. InOrder(q) /\ Between(q, si, ix, sc, ch) /\ q # <<>> /\ Head(q).index
  BY <1>a, <1>1 DEF ConsumerView
<1>3. PICK c \in Chunks, i \in Slots : c = Head(q).chunk /\ i = Head(q).value
  <2>1. Head(q) = q[1] /\ 1 \in 1 .. Len(q)
    BY <1>2, Popped
  <2> QED BY <2>1, Stores
<1>4. PICK sj \in [Chunks -> Slots] : /\ sj = [si EXCEPT ![c] = i] /\ sj[c] = i
                                      /\ \A d \in Chunks : d # c => sj[d] = si[d]
  <2> DEFINE f == [si EXCEPT ![c] = i]
  <2>1. f \in [Chunks -> Slots] /\ f[c] = i /\ \A d \in Chunks : d # c => f[d] = si[d]
    OBVIOUS
  <2> QED BY <2>1
<1>5. /\ ~class.seqCst /\ Tail(q) \in Seq(Store) /\ InOrder(Tail(q))
      /\ Between(Tail(q), sj, ix, sc, ch)
      /\ Off(c, si[c]) < Off(c, i) /\ Off(c, i) <= Off(c, ix[c])
  BY <1>a, <1>2, <1>3, <1>4, PopIndex
<1>p. /\ toConsumer' = Tail(q) /\ tailSeen' = sj /\ tailChunkSeen' = sc
      /\ UNCHANGED <<tail, head, tailChunk, headChunk, toProducer, headCache, tailCache,
                     headSeen, headChunkSeen, buffer, pPc, tc, cPc, hc, last, h, t, cSome,
                     class, ops, out>>
      /\ Consuming' = Consuming
  BY <1>1, <1>2, <1>3, <1>4 DEF Consuming
<1>g. /\ Window' /\ Order' /\ ConsumerFrame' /\ Some'
      /\ \A d \in Chunks : head[d] # tailSeen[d] => head'[d] # tailSeen'[d]
      /\ \A d \in Chunks : Ahead(d)' = Ahead(d)
      /\ \A d \in Chunks, j \in Slots : Off(d, j)' = Off(d, j)
      /\ \A d \in Chunks : Cursor(d)' = Cursor(d)
  <2>1. \A d \in Chunks : /\ tailSeen'[d] \in Slots /\ tail'[d] \in Slots
                          /\ Off(d, tailSeen[d]) <= Off(d, tailSeen'[d])
                          /\ Off(d, tailSeen'[d]) <= Off(d, tail'[d])
    <3> SUFFICES ASSUME NEW d \in Chunks
                 PROVE  /\ sj[d] \in Slots /\ ix[d] \in Slots
                        /\ Off(d, si[d]) <= Off(d, sj[d]) /\ Off(d, sj[d]) <= Off(d, ix[d])
      BY <1>1, <1>p
    <3>1. Off(d, si[d]) \in Nat /\ Off(d, si[d]) <= Off(d, ix[d]) /\ Off(c, i) \in Nat
      BY <1>a, <1>1, InWindow, OffRanges
    <3> QED BY <1>4, <1>5, <3>1
  <2>2. /\ tailChunkSeen' \in Chunks /\ tailChunk' \in Chunks /\ tc' \in Chunks
        /\ Ahead(tailChunkSeen) <= Ahead(tailChunkSeen')
        /\ Ahead(tailChunkSeen') <= Ahead(tailChunk') /\ Ahead(tailChunk') <= Ahead(tc')
    BY <1>a, <1>1, <1>p, Ranges, AheadRanges DEF Order
  <2> QED BY <1>p, <2>1, <2>2, TailSeenGrows
<1>v. ConsumerView'
  <2>1. tailSeen'[c] # head[c]
    <3>1. /\ Off(c, head[c]) <= Off(c, si[c]) /\ Off(c, si[c]) \in Nat
          /\ Off(c, head[c]) \in Nat /\ Off(c, i) \in Nat
      BY <1>a, <1>1, InWindow, OffRanges
    <3>2. i # head[c]
      BY <1>5, <3>1
    <3> QED BY <1>4, <1>p, <3>2
  <2>2. FirstElement'
    BY <1>a, <1>1, <1>2, <1>3, <1>g, <1>p, <2>1, FirstElementPopped
  <2>3. OffsKept(sj) /\ AheadsKept(sc)
    BY <1>a, <1>p, AllKept
  <2> QED BY <1>a, <1>1, <1>5, <1>p, <2>2, <2>3, ConsumerViewBecomes
<1>6. TypeOK'
  BY <1>a, <1>1, <1>5, <1>p, Ranges DEF TypeOK
<1>7. Final'
  <2> SUFFICES ASSUME NEW d \in Chunks, Ahead(d) < Ahead(tailChunkSeen)
               PROVE  sj[d] = tail[d]
    BY <1>1, <1>g, <1>p DEF Final, Ahead
  <2>1. si[d] = ix[d]
    BY <1>a, <1>1 DEF Final
  <2>2. d # c
    <3>1. Off(c, si[c]) \in Nat /\ Off(c, i) \in Nat
      BY <1>a, OffRanges
    <3> QED BY <1>5, <2>1, <3>1
  <2> QED BY <1>1, <1>4, <2>1, <2>2
<1>8. Left' /\ Unentered' /\ Filled'
  <2>1. Left' /\ Unentered'
    BY <1>a, <1>p DEF Left, Unentered, Ahead
  <2>2. Filled'
    BY <1>a, <1>1, <1>g, <1>p DEF Filled, Ahead
  <2> QED BY <2>1, <2>2
<1>9. ProducerView' /\ ProducerFrame'
  BY <1>a, <1>p, ProducerViewStays DEF ProducerFrame, Off, Origin
<1>10. LiveExactly'
  <2>1. \A d \in Chunks : Built(d)' = Built(d)
    BY <1>p DEF Built
  <2> QED BY <1>a, <1>p, <1>g, <2>1, LiveStays
<1> QED BY <1>g, <1>v, <1>6, <1>7, <1>8, <1>9, <1>10 DEF Invariant

\* When a chunk is next to be seen, nothing of those before it is left to see.
LEMMA NoIndexLeft ==
  ASSUME TypeOK, NEW q \in Seq(Store), NEW si \in [Chunks -> Slots],
         NEW ix \in [Chunks -> Slots], NEW sc \in Chunks, NEW ch \in Chunks,
         InOrder(q), Between(q, si, ix, sc, ch), q # <<>>, ~Head(q).index,
         NEW d \in Chunks, Ahead(d) < Ahead(Head(q).chunk)
  PROVE  si[d] = ix[d]
<1> SUFFICES ASSUME si[d] # ix[d] PROVE FALSE
  OBVIOUS
<1>1. /\ q[1] = Head(q) /\ 1 \in 1 .. Len(q) /\ Len(q) \in Nat
      /\ \A k \in 1 .. Len(q) : k # 1 => k \in 1 + 1 .. Len(q)
  BY Popped
<1>2. PICK k \in 1 .. Len(q) : q[k] = IndexStore(d, ix[d])
  BY DEF Between
<1>3. q[k].index /\ q[k].chunk = d
  BY <1>2 DEF IndexStore
<1>4. k # 1
  BY <1>1, <1>3
<1>5. Before(q[1], q[k])
  BY <1>1, <1>4 DEF InOrder
<1>6. Ahead(Head(q).chunk) <= Ahead(d)
  BY <1>1, <1>3, <1>5 DEF Before
<1>7. Head(q).chunk \in Chunks
  BY <1>1, Stores
<1> QED BY <1>6, <1>7, AheadRanges

\* The consumer sees the next chunk: all stores to those before it were seen,
\* and the first one to it.
LEMMA TailChunkSeen ==
  ASSUME Invariant, PropagateTail, ~Head(toConsumer).index
  PROVE  Invariant'
<1> USE DEF PropagateTail, caches, producer, client, consumer
<1>a. TypeOK /\ Window /\ Order /\ Left /\ Unentered /\ Final /\ Filled /\ ConsumerView
      /\ ProducerView /\ ProducerFrame /\ ConsumerFrame /\ Some /\ LiveExactly
  BY DEF Invariant
<1>1. PICK q \in Seq(Store), si \in [Chunks -> Slots], ix \in [Chunks -> Slots],
           sc \in Chunks, ch \in Chunks :
        /\ q = toConsumer /\ si = tailSeen /\ ix = tail
        /\ sc = tailChunkSeen /\ ch = tailChunk
  BY <1>a, Ranges
<1>2. InOrder(q) /\ Between(q, si, ix, sc, ch) /\ q # <<>> /\ ~Head(q).index
  BY <1>a, <1>1 DEF ConsumerView
<1>3. PICK c \in Chunks : c = Head(q).chunk
  <2>1. Head(q) = q[1] /\ 1 \in 1 .. Len(q)
    BY <1>2, Popped
  <2> QED BY <2>1, Stores
<1>5. /\ ~class.seqCst /\ Tail(q) \in Seq(Store) /\ InOrder(Tail(q))
      /\ Between(Tail(q), si, ix, c, ch)
      /\ Ahead(sc) < Ahead(c) /\ Ahead(c) <= Ahead(ch)
  BY <1>a, <1>2, <1>3, PopChunk
<1>n. /\ Ahead(sc) \in Nat /\ Ahead(c) \in Nat /\ Ahead(ch) \in Nat
      /\ \A d \in Chunks : Ahead(d) \in Nat
  BY <1>a, AheadRanges
<1>p. /\ toConsumer' = Tail(q) /\ tailSeen' = si /\ tailChunkSeen' = c
      /\ UNCHANGED <<tailSeen, tail, head, tailChunk, headChunk, toProducer, headCache,
                     tailCache, headSeen, headChunkSeen, buffer, pPc, tc, cPc, hc, last, h,
                     t, cSome, class, ops, out>>
      /\ Consuming' = Consuming
  BY <1>1, <1>2, <1>3 DEF Consuming
<1>g. /\ Window' /\ Order' /\ ConsumerFrame' /\ Some'
      /\ \A d \in Chunks : Ahead(d)' = Ahead(d)
      /\ \A d \in Chunks : Cursor(d)' = Cursor(d)
  <2>1. \A d \in Chunks : /\ tailSeen'[d] \in Slots /\ tail'[d] \in Slots
                          /\ Off(d, tailSeen[d]) <= Off(d, tailSeen'[d])
                          /\ Off(d, tailSeen'[d]) <= Off(d, tail'[d])
    BY <1>a, <1>p, InWindow
  <2>2. /\ tailChunkSeen' \in Chunks /\ tailChunk' \in Chunks /\ tc' \in Chunks
        /\ Ahead(tailChunkSeen) <= Ahead(tailChunkSeen')
        /\ Ahead(tailChunkSeen') <= Ahead(tailChunk') /\ Ahead(tailChunk') <= Ahead(tc')
    BY <1>a, <1>1, <1>5, <1>n, <1>p, Ranges DEF Order
  <2> QED BY <1>p, <2>1, <2>2, TailSeenGrows
<1>4. /\ q[1] = Head(q) /\ 1 \in 1 .. Len(q) /\ Len(q) \in Nat
      /\ \A k \in 1 .. Len(q) : k # 1 => k \in 1 + 1 .. Len(q)
  BY <1>2, Popped
<1>7. \A d \in Chunks : Ahead(d) < Ahead(c) => si[d] = ix[d]
  BY <1>a, <1>2, <1>3, NoIndexLeft
<1>8. Final'
  BY <1>1, <1>7, <1>g, <1>p DEF Final, Ahead
<1>9. Filled'
  <2> SUFFICES ASSUME NEW d \in Chunks, Ahead(Consuming) < Ahead(d), Ahead(d) <= Ahead(c)
               PROVE  head[d] # tailSeen[d]
    BY <1>a, <1>1, <1>p DEF Filled, Ahead
  <2>1. CASE d = c
    <3>1. \/ tailSeen[c] # head[c]
          \/ \E j \in 1 .. 1 - 1 : q[j].index /\ q[j].chunk = c
      BY <1>a, <1>1, <1>2, <1>3, <1>4 DEF ConsumerView, FirstElement
    <3>2. 1 .. 1 - 1 = {}
      OBVIOUS
    <3> QED BY <2>1, <3>1, <3>2
  <2>2. CASE d # c
    <3>1. Ahead(d) # Ahead(c)
      BY <1>a, <2>2, AheadTells
    <3>2. Ahead(d) < Ahead(c) /\ Ahead(d) <= Ahead(tailChunk)
      BY <1>1, <1>5, <1>n, <3>1
    <3>3. tailSeen[d] = tail[d]
      BY <1>1, <1>7, <3>2
    <3> QED BY <1>a, <3>2, <3>3 DEF Filled
  <2> QED BY <2>1, <2>2
<1>v. ConsumerView'
  <2>1. FirstElement'
    BY <1>a, <1>1, <1>2, <1>p, FirstElementPopped
  <2>2. OffsKept(si) /\ AheadsKept(c)
    BY <1>a, <1>p, AllKept
  <2> QED BY <1>a, <1>1, <1>5, <1>p, <2>1, <2>2, ConsumerViewBecomes
<1>6. TypeOK'
  BY <1>a, <1>1, <1>5, <1>p, Ranges DEF TypeOK
<1>10. Left' /\ Unentered'
  BY <1>a, <1>p DEF Left, Unentered, Ahead
<1>11. ProducerView' /\ ProducerFrame'
  BY <1>a, <1>p, ProducerViewStays DEF ProducerFrame, Off, Origin
<1>12. LiveExactly'
  <2>1. \A d \in Chunks : Built(d)' = Built(d)
    BY <1>p DEF Built
  <2> QED BY <1>a, <1>p, <1>g, <2>1, LiveStays
<1> QED BY <1>g, <1>v, <1>6, <1>8, <1>9, <1>10, <1>11, <1>12 DEF Invariant

\* The consumer sees the producer's next store.
LEMMA PropagateTailStep ==
  ASSUME Invariant, PropagateTail
  PROVE  Invariant'
BY TailIndexSeen, TailChunkSeen

\* The producer sees the next head: the window may start there now.
LEMMA HeadIndexSeen ==
  ASSUME Invariant, PropagateHead, Head(toProducer).index
  PROVE  Invariant'
<1> USE DEF PropagateHead, caches, producer, client, consumer
<1>a. TypeOK /\ Window /\ Order /\ Left /\ Unentered /\ Final /\ Filled /\ ConsumerView
      /\ ProducerView /\ ProducerFrame /\ ConsumerFrame /\ Some /\ LiveExactly
  BY DEF Invariant
<1>1. PICK q \in Seq(Store), si \in [Chunks -> Slots], ix \in [Chunks -> Slots],
           sc \in Chunks, ch \in Chunks :
        /\ q = toProducer /\ si = headSeen /\ ix = head
        /\ sc = headChunkSeen /\ ch = headChunk
  BY <1>a, Ranges
<1>2. InOrder(q) /\ Between(q, si, ix, sc, ch) /\ q # <<>> /\ Head(q).index
  BY <1>a, <1>1 DEF ProducerView
<1>3. PICK c \in Chunks, i \in Slots : c = Head(q).chunk /\ i = Head(q).value
  <2>1. Head(q) = q[1] /\ 1 \in 1 .. Len(q)
    BY <1>2, Popped
  <2> QED BY <2>1, Stores
<1>4. PICK sj \in [Chunks -> Slots] : /\ sj = [si EXCEPT ![c] = i] /\ sj[c] = i
                                      /\ \A d \in Chunks : d # c => sj[d] = si[d]
  <2> DEFINE f == [si EXCEPT ![c] = i]
  <2>1. f \in [Chunks -> Slots] /\ f[c] = i /\ \A d \in Chunks : d # c => f[d] = si[d]
    OBVIOUS
  <2> QED BY <2>1
<1>5. /\ ~class.seqCst /\ Tail(q) \in Seq(Store) /\ InOrder(Tail(q))
      /\ Between(Tail(q), sj, ix, sc, ch)
      /\ Off(c, si[c]) < Off(c, i) /\ Off(c, i) <= Off(c, ix[c])
  BY <1>a, <1>2, <1>3, <1>4, PopIndex
<1>p. /\ toProducer' = Tail(q) /\ headSeen' = sj /\ headChunkSeen' = sc
      /\ UNCHANGED <<headChunkSeen, tail, head, tailChunk, headChunk, toConsumer,
                     headCache, tailCache, tailSeen, tailChunkSeen, buffer, pPc, tc, cPc,
                     hc, last, h, t, cSome, class, ops, out>>
      /\ Consuming' = Consuming
  BY <1>1, <1>2, <1>3, <1>4 DEF Consuming
<1>d. \A d \in Chunks : Ahead(d)' = Ahead(d) /\ Ahead(d) \in Nat
  BY <1>a, <1>p, AheadRanges DEF Ahead
<1>o. ASSUME NEW d \in Chunks
      PROVE  /\ Origin(d)' \in Slots /\ headSeen'[d] \in Slots /\ head'[d] \in Slots
             /\ Off(d, Origin(d)') <= Off(d, headSeen'[d])
             /\ Off(d, headSeen'[d]) <= Off(d, head[d])
             /\ Off(d, head[d]) <= Off(d, tailSeen[d])
             /\ Off(d, Origin(d)') \in Nat /\ Off(d, headSeen'[d]) \in Nat
             /\ Off(d, head[d]) \in Nat /\ Off(d, tailSeen[d]) \in Nat
             /\ class.cached /\ "consume_all" \notin ops =>
                  Off(d, head'[d]) <= Off(d, tailCache[d])
  <2>1. /\ headSeen'[d] \in Slots /\ head'[d] \in Slots /\ headCache[d] \in Slots
        /\ Origin(d) \in Slots /\ Off(d, headSeen'[d]) \in Nat
    BY <1>a, <1>p, Ranges, OffRanges
  <2>2. Origin(d)' = IF class.cached THEN Origin(d) ELSE headSeen'[d]
    BY <1>p DEF Origin
  <2>3. Off(d, Origin(d)) = 0
    BY <2>1, DistBasics DEF Off
  <2>4. /\ Off(d, si[d]) <= Off(d, ix[d]) /\ Off(d, head[d]) <= Off(d, tailSeen[d])
        /\ Off(d, head[d]) \in Nat /\ Off(d, tailSeen[d]) \in Nat
    BY <1>a, <1>1, InWindow
  <2>5. Off(d, headSeen'[d]) <= Off(d, head[d])
    BY <1>1, <1>4, <1>5, <1>p, <2>4
  <2>6. /\ Origin(d)' \in Slots /\ Off(d, Origin(d)') <= Off(d, headSeen'[d])
        /\ Off(d, Origin(d)') \in Nat
    BY <2>1, <2>2, <2>3
  <2>7. class.cached /\ "consume_all" \notin ops => Off(d, head'[d]) <= Off(d, tailCache[d])
    BY <1>a, <1>p DEF Window
  <2> QED BY <2>1, <2>4, <2>5, <2>6, <2>7
<1>w. /\ Window' /\ ConsumerFrame'
      /\ \A d \in Chunks : Off(d, tail[d])' <= Off(d, tail[d])
  <2>1. Window' /\ ConsumerFrame'
    BY <1>o, <1>p, WindowShifts
  <2>2. \A d \in Chunks : Off(d, tail[d])' <= Off(d, tail[d])
    <3>1. \A d \in Chunks :
           /\ Origin(d)' \in Slots /\ headSeen'[d] \in Slots /\ head'[d] \in Slots
           /\ Off(d, Origin(d)') <= Off(d, headSeen'[d])
           /\ Off(d, headSeen'[d]) <= Off(d, head'[d])
           /\ Off(d, head'[d]) <= Off(d, tailSeen[d])
           /\ class.cached /\ "consume_all" \notin ops =>
                Off(d, head'[d]) <= Off(d, tailCache[d])
      BY <1>o, <1>p
    <3> QED BY <1>a, <1>p, <3>1, WindowMoves
  <2> QED BY <2>1, <2>2
<1>k. OffsKept(tailSeen) /\ OffsKept(sj)
  <2> SUFFICES ASSUME NEW d \in Chunks, NEW j \in Slots, NEW k \in Slots
               PROVE  /\ Off(d, j)' \in Nat
                      /\ Off(d, tailSeen[d]) <= Off(d, j) /\ Off(d, j) < Off(d, k) =>
                           Off(d, j)' < Off(d, k)'
                      /\ Off(d, sj[d]) <= Off(d, j) /\ Off(d, j) < Off(d, k) =>
                           Off(d, j)' < Off(d, k)'
    BY DEF OffsKept
  <2>1. /\ tailSeen[d] \in Slots /\ sj[d] \in Slots /\ Origin(d)' \in Slots
        /\ Off(d, Origin(d)') <= Off(d, sj[d]) /\ Off(d, Origin(d)') <= Off(d, tailSeen[d])
    <3>1. tailSeen[d] \in Slots /\ sj[d] \in Slots
      BY <1>a, Ranges
    <3>2. Origin(d)' \in Slots /\ Off(d, Origin(d)') <= Off(d, sj[d])
      BY <1>o, <1>p
    <3>3. Off(d, Origin(d)') <= Off(d, tailSeen[d])
      BY <1>o
    <3> QED BY <3>1, <3>2, <3>3
  <2> QED BY <1>a, <2>1, OrderKept
<1>v. ConsumerView' /\ ProducerView'
  <2>1. AheadsKept(tailChunkSeen) /\ AheadsKept(sc)
    BY <1>d DEF AheadsKept
  <2>2. ConsumerView'
    BY <1>a, <1>k, <1>p, <2>1, ConsumerViewKept
  <2>3. ProducerView'
    BY <1>a, <1>1, <1>5, <1>k, <1>p, <2>1, ProducerViewBecomes
  <2> QED BY <2>2, <2>3
<1>6. TypeOK'
  BY <1>a, <1>1, <1>5, <1>p, Ranges DEF TypeOK
<1>7. Order' /\ Left' /\ Final' /\ Filled'
  BY <1>a, <1>p DEF Order, Left, Final, Filled, Ahead
<1>8. Unentered'
  <2> SUFFICES ASSUME NEW d \in Chunks, Ahead(d) > Ahead(tailChunk),
                      ~(pPc = "publishChunk" /\ d = tc)
               PROVE  headSeen'[d] = tail[d]
    BY <1>p DEF Unentered, Ahead
  <2>1. si[d] = tail[d]
    BY <1>a, <1>1 DEF Unentered
  <2>2. d # c
    <3>1. /\ Off(d, si[d]) \in Nat /\ Off(d, ix[d]) \in Nat /\ Off(d, tailSeen[d]) \in Nat
          /\ Off(d, ix[d]) <= Off(d, tailSeen[d]) /\ Off(d, tailSeen[d]) <= Off(d, si[d])
      BY <1>a, <1>1, <2>1, InWindow
    <3>2. Off(c, i) \in Nat
      BY <1>a, OffRanges
    <3> QED BY <1>5, <3>1, <3>2
  <2> QED BY <1>4, <1>p, <2>1, <2>2
<1>9. ProducerFrame'
  <2>1. pPc \in {"construct", "publish"} => Off(tc, tail[tc])' < ChunkSize - 1
    <3> SUFFICES ASSUME pPc \in {"construct", "publish"}
                 PROVE  Off(tc, tail[tc])' < ChunkSize - 1
      OBVIOUS
    <3>1. Off(tc, tail[tc]) < ChunkSize - 1 /\ Off(tc, tail[tc])' <= Off(tc, tail[tc])
      BY <1>a, <1>w, Ranges DEF ProducerFrame
    <3>2. Off(tc, tail[tc]) \in Nat /\ tail[tc] \in Slots /\ tc \in Chunks
      BY <1>a, InWindow, Ranges
    <3>3. Off(tc, tail[tc])' \in Nat
      BY <1>o, <1>p, <3>2, DistRange DEF Off
    <3> QED BY <3>1, <3>2, <3>3, ChunkSizeAssumption
  <2> QED BY <1>a, <1>p, <2>1 DEF ProducerFrame
<1>10. Some'
  BY <1>a, <1>p DEF Some
<1>11. LiveExactly'
  <2>1. \A d \in Chunks : Built(d)' = Built(d) /\ Cursor(d)' = Cursor(d)
    BY <1>p DEF Built, Cursor
  <2> QED BY <1>a, <1>p, <2>1, LiveStays
<1> QED BY <1>w, <1>v, <1>6, <1>7, <1>8, <1>9, <1>10, <1>11 DEF Invariant

\* The producer sees the chunk the consumer announced.
LEMMA HeadChunkSeen ==
  ASSUME Invariant, PropagateHead, ~Head(toProducer).index
  PROVE  Invariant'
<1> USE DEF PropagateHead, caches, producer, client, consumer
<1>a. TypeOK /\ Order /\ ProducerView /\ ConsumerFrame /\ Some /\ LiveExactly
  BY DEF Invariant
<1>1. PICK q \in Seq(Store), si \in [Chunks -> Slots], ix \in [Chunks -> Slots],
           sc \in Chunks, ch \in Chunks :
        /\ q = toProducer /\ si = headSeen /\ ix = head
        /\ sc = headChunkSeen /\ ch = headChunk
  BY <1>a, Ranges
<1>2. InOrder(q) /\ Between(q, si, ix, sc, ch) /\ q # <<>> /\ ~Head(q).index
  BY <1>a, <1>1 DEF ProducerView
<1>3. PICK c \in Chunks : c = Head(q).chunk
  <2>1. Head(q) = q[1] /\ 1 \in 1 .. Len(q)
    BY <1>2, Popped
  <2> QED BY <2>1, Stores
<1>5. /\ ~class.seqCst /\ Tail(q) \in Seq(Store) /\ InOrder(Tail(q))
      /\ Between(Tail(q), si, ix, c, ch)
      /\ Ahead(sc) < Ahead(c) /\ Ahead(c) <= Ahead(ch)
  BY <1>a, <1>2, <1>3, PopChunk
<1>p. /\ toProducer' = Tail(q) /\ headSeen' = si /\ headChunkSeen' = c
      /\ UNCHANGED <<headSeen, tail, head, tailChunk, headChunk, toConsumer, headCache,
                     tailCache, tailSeen, tailChunkSeen, buffer, pPc, tc, cPc, hc, last,
                     h, t, cSome, class, ops, out>>
      /\ Consuming' = Consuming
  BY <1>1, <1>2, <1>3 DEF Consuming
<1>m. /\ Window' /\ Order' /\ Left' /\ Unentered' /\ Final' /\ Filled'
      /\ ConsumerView' /\ ProducerFrame'
      /\ \A d \in Chunks : Built(d)' = Built(d)
      /\ LastFrame => LastFrame'
  <2>1. \A d \in Chunks : Ahead(d) < Ahead(headChunkSeen') => headSeen[d] = head[d]
    BY <1>a, <1>1, <1>2, <1>3, <1>p, NoIndexLeft
  <2>2. /\ headChunkSeen' \in Chunks /\ headChunk' \in Chunks
        /\ Ahead(headChunkSeen') <= Ahead(headChunk')
        /\ Ahead(headChunk') <= Ahead(Consuming)
    BY <1>a, <1>1, <1>5, <1>p DEF Order
  <2> QED BY <1>p, <2>1, <2>2, HeadChunkMoves
<1>v. ProducerView'
  <2>1. OffsKept(si)
    BY <1>a, <1>p, OffRanges DEF OffsKept, Off, Origin
  <2>2. AheadsKept(c)
    <3>1. ASSUME NEW d \in Chunks, NEW e \in Chunks, Ahead(c) <= Ahead(d),
                 Ahead(d) < Ahead(e)
          PROVE  Ahead(d)' < Ahead(e)'
      <4>1. Ahead(c) <= Ahead(e)
        BY <1>a, <3>1, AheadRanges
      <4> QED BY <1>a, <1>p, <3>1, <4>1, AheadKept
    <3>2. \A d \in Chunks : Ahead(d)' \in Nat
      BY <1>a, <1>p, AheadMoves
    <3> QED BY <3>1, <3>2 DEF AheadsKept
  <2> QED BY <1>a, <1>1, <1>5, <1>p, <2>1, <2>2, ProducerViewBecomes
<1>6. TypeOK'
  BY <1>a, <1>1, <1>5, <1>p, Ranges DEF TypeOK
<1>7. ConsumerFrame'
  BY <1>a, <1>m, <1>p DEF ConsumerFrame, Off, Origin
<1>8. Some'
  BY <1>a, <1>p DEF Some
<1>9. LiveExactly'
  <2>1. \A d \in Chunks : Cursor(d)' = Cursor(d)
    BY <1>p DEF Cursor
  <2> QED BY <1>a, <1>m, <1>p, <2>1, LiveStays
<1> QED BY <1>m, <1>v, <1>6, <1>7, <1>8, <1>9 DEF Invariant

\* The producer sees the consumer's next store.
LEMMA PropagateHeadStep ==
  ASSUME Invariant, PropagateHead
  PROVE  Invariant'
BY HeadIndexSeen, HeadChunkSeen

-----------------------------------------------------------------------------
(* The invariant holds.                                                    *)

LEMMA InitInvariant ==
  ASSUME KeepToOne, Init
  PROVE  Invariant
<1> USE DEF Init
<1>1. 0 \in Chunks /\ 0 \in Slots
  BY ChunkCountAssumption, ChunkSizeAssumption DEF Chunks, Slots
<1>2. Zeros \in [Chunks -> Slots] /\ \A c \in Chunks : Zeros[c] = 0
  BY <1>1 DEF Zeros
<1>3. /\ Consuming = 0
      /\ \A c \in Chunks : Origin(c) = 0 /\ Cursor(c) = 0 /\ Built(c) = 0
  BY <1>2 DEF Consuming, Origin, Cursor, Built
<1>4. \A c \in Chunks : Off(c, 0) = 0
  BY <1>1, <1>3, DistBasics DEF Off
<1>5. Ahead(0) = 0
  BY <1>1, ChunkDistBasics DEF Ahead
<1>6. <<>> \in Seq(Store) /\ Len(<<>>) = 0 /\ 1 .. Len(<<>>) = {}
  OBVIOUS
<1>7. TypeOK
  <2>1. buffer \in [Chunks -> [Slots -> Value]]
    BY DEF Value
  <2>2. ops \in Consumers \cup {{"dequeue"}}
    OBVIOUS
  <2> QED BY <1>1, <1>2, <1>6, <2>1, <2>2 DEF TypeOK, Value
<1>8. Window /\ Order /\ Left /\ Unentered /\ Final /\ Filled
  <2>1. Window
    BY <1>2, <1>4 DEF Window
  <2>2. Order
    BY <1>3, <1>5 DEF Order
  <2>3. Left /\ Unentered /\ Final
    BY <1>2 DEF Left, Unentered, Final
  <2>4. Filled
    BY <1>1, <1>3, <1>5, <1>7, AheadRanges DEF Filled
  <2> QED BY <2>1, <2>2, <2>3, <2>4
<1>9. ConsumerView /\ ProducerView
  <2>1. InOrder(<<>>)
    BY <1>6 DEF InOrder
  <2>2. Between(<<>>, Zeros, Zeros, 0, 0)
    BY <1>6 DEF Between
  <2>3. FirstElement
    BY <1>6 DEF FirstElement
  <2> QED BY <2>1, <2>2, <2>3 DEF ConsumerView, ProducerView
<1>10. ProducerFrame /\ ConsumerFrame /\ Some
  <2>1. "consume_all" \in ops => ops \cap {"dequeue", "pop"} = {}
    BY DEF KeepToOne
  <2> QED BY <2>1 DEF ProducerFrame, ConsumerFrame, Some
<1>11. LiveExactly
  <2> SUFFICES ASSUME NEW c \in Chunks, NEW i \in Slots
               PROVE  ~(Dist(0, i) < Dist(0, 0)) /\ buffer[c][i] = Raw
    BY <1>3 DEF LiveExactly
  <2>1. Dist(0, i) \in Nat /\ Dist(0, 0) = 0
    BY <1>1, DistBasics
  <2> QED BY <2>1
<1> QED BY <1>7, <1>8, <1>9, <1>10, <1>11 DEF Invariant

LEMMA StutterStep ==
  ASSUME Invariant, UNCHANGED vars
  PROVE  Invariant'
<1>1. /\ UNCHANGED <<shared, seen, caches, class, ops, buffer, producer, consumer, out>>
      /\ Consuming' = Consuming
  BY DEF vars, shared, seen, caches, producer, consumer, client, Consuming
<1>2. Final' /\ ConsumerView' /\ ProducerView' /\ Window'
  BY <1>1, ViewsStay, WindowStays DEF caches
<1>3. TypeOK' /\ Order' /\ Left' /\ Unentered' /\ Filled'
  BY <1>1 DEF Invariant, TypeOK, Order, Left, Unentered, Filled, Ahead, vars
<1>4. ProducerFrame' /\ ConsumerFrame' /\ Some'
  BY <1>1 DEF Invariant, ProducerFrame, ConsumerFrame, LastFrame, Some, Ahead, Off, Origin,
              vars
<1>5. LiveExactly'
  BY <1>1, LiveStays DEF Invariant, Cursor, Built, vars
<1> QED BY <1>2, <1>3, <1>4, <1>5 DEF Invariant

LEMMA NextInvariant ==
  ASSUME Invariant, [Next]_vars
  PROVE  Invariant'
<1>1. CASE ProducerStep
  <2>1. CASE Enqueue BY <2>1, EnqueueStep
  <2>2. CASE ReloadHead BY <2>2, ReloadHeadStep
  <2>3. CASE CrossToNext BY <2>3, CrossToNextStep
  <2>4. CASE RefreshHead BY <2>4, RefreshHeadStep
  <2>5. CASE Construct BY <2>5, ConstructStep
  <2>6. CASE Throw BY <2>6, ThrowStep
  <2>7. CASE PublishTail BY <2>7, PublishTailStep
  <2>8. CASE PublishChunk BY <2>8, PublishChunkStep
  <2> QED BY <1>1, <2>1, <2>2, <2>3, <2>4, <2>5, <2>6, <2>7, <2>8 DEF ProducerStep
<1>2. CASE ConsumerStep
  <2>1. CASE Dequeue \/ Pop
    <3>1. "consume_all" \notin ops /\ ReadChunk
      BY <2>1 DEF Dequeue, Pop, Invariant, ConsumerFrame
    <3> QED BY <3>1, ReadChunkStep
  <2>2. CASE LoadTailChunk BY <2>2, LoadTailChunkStep
  <2>3. CASE ReloadTail BY <2>3, ReloadTailStep
  <2>4. CASE EnterNext BY <2>4, EnterNextStep
  <2>5. CASE Take BY <2>5, TakeStep
  <2>6. CASE Decline BY <2>6, DeclineStep
  <2>7. CASE ReleaseHead BY <2>7, ReleaseHeadStep
  <2>8. CASE ReleaseChunk BY <2>8, ReleaseChunkStep
  <2>9. CASE ConsumeAll BY <2>9, ConsumeAllStep
  <2>10. CASE DrainChunk BY <2>10, DrainChunkStep
  <2>11. CASE DrainElement BY <2>11, DrainElementStep
  <2>12. CASE DrainRelease BY <2>12, DrainReleaseStep
  <2> QED BY <1>2, <2>1, <2>2, <2>3, <2>4, <2>5, <2>6, <2>7, <2>8, <2>9, <2>10, <2>11,
             <2>12 DEF ConsumerStep
<1>3. CASE IsEmpty BY <1>3, IsEmptyStep
<1>4. CASE ChunkIsEmpty BY <1>4, ChunkIsEmptyStep
<1>5. CASE PropagateTail BY <1>5, PropagateTailStep
<1>6. CASE PropagateHead BY <1>6, PropagateHeadStep
<1>7. CASE UNCHANGED vars BY <1>7, StutterStep
<1> QED BY <1>1, <1>2, <1>3, <1>4, <1>5, <1>6, <1>7 DEF Next

\* The invariant, which the other theorems rest on: every cache and every view
\* of the other thread is late, never ahead, in each chunk and of the chunks.
THEOREM InvariantHolds ==
  ASSUME KeepToOne
  PROVE  Spec => []Invariant
<1>1. Init => Invariant
  BY InitInvariant
<1>2. Invariant /\ [Next]_vars => Invariant'
  BY NextInvariant
<1> QED BY <1>1, <1>2, PTL DEF Spec

-----------------------------------------------------------------------------
(* What follows.                                                           *)

\* Every variable stays within its range.
THEOREM TypeCorrect ==
  ASSUME KeepToOne
  PROVE  Spec => []TypeOK
<1>1. Invariant => TypeOK
  BY DEF Invariant
<1> QED BY <1>1, InvariantHolds, PTL

\* In every chunk the live slots are those between the two threads' positions,
\* whichever chunks the two are in.
THEOREM LifetimesExact ==
  ASSUME KeepToOne
  PROVE  Spec => []LiveExactly
<1>1. Invariant => LiveExactly
  BY DEF Invariant
<1> QED BY <1>1, InvariantHolds, PTL

LEMMA TakerHandedOver ==
  ASSUME Invariant, cPc = "take" \/ (cPc = "drain" /\ h # t)
  PROVE  Dist(head[hc], h) < Dist(head[hc], tailSeen[hc]) /\ buffer[hc][h] # Raw
<1>a. TypeOK /\ Window /\ ProducerFrame /\ ConsumerFrame /\ LiveExactly
  BY DEF Invariant
<1>r. /\ hc \in Chunks /\ h \in Slots /\ t \in Slots /\ head[hc] \in Slots
      /\ tailSeen[hc] \in Slots
      /\ Off(hc, h) \in Nat /\ Off(hc, t) \in Nat /\ Off(hc, tailSeen[hc]) \in Nat
      /\ Off(hc, head[hc]) \in Nat /\ Off(hc, tail[hc]) \in Nat
      /\ Off(hc, head[hc]) <= Off(hc, tailSeen[hc])
      /\ Off(hc, tailSeen[hc]) <= Off(hc, tail[hc])
  BY <1>a, Ranges, OffRanges, InWindow
<1>1. Off(hc, head[hc]) <= Off(hc, h) /\ Off(hc, h) < Off(hc, tailSeen[hc])
  <2>1. CASE cPc = "take"
    <3>1. h = head[hc] /\ head[hc] # tailSeen[hc]
      BY <1>a, <2>1 DEF ConsumerFrame
    <3>2. Off(hc, head[hc]) # Off(hc, tailSeen[hc])
      BY <1>a, <1>r, <3>1, OffTells
    <3> QED BY <1>r, <3>1, <3>2
  <2>2. CASE cPc = "drain" /\ h # t
    <3>1. /\ Off(hc, head[hc]) <= Off(hc, h) /\ Off(hc, h) <= Off(hc, t)
          /\ Off(hc, t) <= Off(hc, tailSeen[hc])
      BY <1>a, <2>2 DEF ConsumerFrame
    <3>2. Off(hc, h) # Off(hc, t)
      BY <1>a, <1>r, <2>2, OffTells
    <3> QED BY <1>r, <3>1, <3>2
  <2> QED BY <2>1, <2>2
<1>2. Dist(head[hc], h) < Dist(head[hc], tailSeen[hc])
  <2>1. Dist(head[hc], h) = Off(hc, h) - Off(hc, head[hc])
    BY <1>a, <1>r, <1>1, OffTells
  <2>2. Dist(head[hc], tailSeen[hc]) = Off(hc, tailSeen[hc]) - Off(hc, head[hc])
    BY <1>a, <1>r, OffTells
  <2> QED BY <1>r, <1>1, <2>1, <2>2
<1>3. Cursor(hc) = h
  BY <1>a DEF Cursor, ConsumerFrame
<1>4. Dist(h, h) < Dist(h, Built(hc))
  <2>1. /\ Built(hc) \in Slots /\ Off(hc, Built(hc)) \in Nat
        /\ Off(hc, tail[hc]) <= Off(hc, Built(hc))
    BY <1>a, <1>r, BuiltInWindow
  <2>2. Off(hc, h) < Off(hc, Built(hc)) /\ Off(hc, h) <= Off(hc, Built(hc))
    BY <1>r, <1>1, <2>1
  <2>3. Dist(h, Built(hc)) = Off(hc, Built(hc)) - Off(hc, h)
    BY <1>a, <1>r, <2>1, <2>2, OffTells
  <2>4. Dist(h, h) = 0
    BY <1>r, DistBasics
  <2> QED BY <1>r, <2>1, <2>2, <2>3, <2>4
<1>5. buffer[hc][h] # Raw
  BY <1>a, <1>r, <1>3, <1>4 DEF LiveExactly
<1> QED BY <1>2, <1>5

LEMMA MakerHandedOver ==
  ASSUME Invariant, pPc = "construct"
  PROVE  Dist(headSeen[tc], tail[tc]) < ChunkSize - 1 /\ buffer[tc][tail[tc]] = Raw
<1>a. TypeOK /\ Window /\ ProducerFrame /\ ConsumerFrame /\ LiveExactly
  BY DEF Invariant
<1>r. /\ tc \in Chunks /\ tail[tc] \in Slots /\ headSeen[tc] \in Slots
      /\ Off(tc, tail[tc]) \in Nat /\ Off(tc, headSeen[tc]) \in Nat
      /\ Off(tc, headSeen[tc]) <= Off(tc, tail[tc])
  <2>1. tc \in Chunks
    BY <1>a, Ranges
  <2>2. /\ tail[tc] \in Slots /\ headSeen[tc] \in Slots /\ Off(tc, head[tc]) \in Nat
        /\ Off(tc, tail[tc]) \in Nat /\ Off(tc, headSeen[tc]) \in Nat
        /\ Off(tc, tailSeen[tc]) \in Nat
        /\ Off(tc, headSeen[tc]) <= Off(tc, head[tc])
        /\ Off(tc, head[tc]) <= Off(tc, tailSeen[tc])
        /\ Off(tc, tailSeen[tc]) <= Off(tc, tail[tc])
    BY <1>a, <2>1, InWindow
  <2> QED BY <2>1, <2>2
<1>1. Dist(headSeen[tc], tail[tc]) < ChunkSize - 1
  <2>1. Dist(headSeen[tc], tail[tc]) = Off(tc, tail[tc]) - Off(tc, headSeen[tc])
    BY <1>a, <1>r, OffTells
  <2>2. Off(tc, tail[tc]) < ChunkSize - 1
    BY <1>a DEF ProducerFrame
  <2> QED BY <1>r, <2>1, <2>2, ChunkSizeAssumption
<1>2. Built(tc) = tail[tc]
  BY DEF Built
<1>3. ~(Dist(Cursor(tc), tail[tc]) < Dist(Cursor(tc), Built(tc)))
  <2>1. Cursor(tc) \in Slots
    BY <1>a, <1>r, CursorInWindow
  <2>2. Dist(Cursor(tc), tail[tc]) \in Nat
    BY <1>r, <2>1, DistRange
  <2> QED BY <1>2, <2>2
<1>4. buffer[tc][tail[tc]] = Raw
  BY <1>a, <1>r, <1>3 DEF LiveExactly
<1> QED BY <1>1, <1>4

\* The plain accesses of the two threads never race: a slot is taken only after
\* its publication was acquired, constructed in only after its release was.
THEOREM NoRace ==
  ASSUME KeepToOne
  PROVE  Spec => []HandedOver
<1>1. Invariant => HandedOver
  BY TakerHandedOver, MakerHandedOver DEF HandedOver
<1> QED BY <1>1, InvariantHolds, PTL

\* How far a chunk is ahead of another, by the remainder.
LEMMA ChunkDistIs ==
  ASSUME NEW a \in Chunks, NEW b \in Chunks
  PROVE  (b - a) % ChunkCount = ChunkDist(a, b)
<1>1. a \in Int /\ b \in Int /\ 0 <= a /\ a < ChunkCount /\ 0 <= b /\ b < ChunkCount
      /\ ChunkCount \in Int
  BY ChunkCountAssumption DEF Chunks
<1>2. CASE b >= a
  <2>1. (b - a) % ChunkCount = b - a
    BY <1>1, <1>2
  <2> QED BY <1>2, <2>1 DEF ChunkDist
<1>3. CASE b < a
  <2>1. (b - a) % ChunkCount = b - a + ChunkCount
    BY <1>1, <1>3
  <2> QED BY <1>1, <1>3, <2>1 DEF ChunkDist
<1> QED BY <1>1, <1>2, <1>3

\* A chunk the producer may enter holds nothing: the consumer leaves no element
\* behind when it goes on to the next chunk.
THEOREM NothingLeftBehind ==
  ASSUME KeepToOne
  PROVE  Spec => []LeftEmpty
<1>1. ASSUME Invariant PROVE LeftEmpty
  <2>a. TypeOK /\ Window /\ Order /\ Left /\ Unentered
    BY <1>1 DEF Invariant
  <2> SUFFICES ASSUME NEW c \in Chunks,
                      (c - headChunk) % ChunkCount > (tc - headChunk) % ChunkCount
               PROVE  Cursor(c) = Built(c)
    BY DEF LeftEmpty
  <2>r. headChunk \in Chunks /\ tc \in Chunks /\ Consuming \in Chunks /\ tailChunk \in Chunks
        /\ headChunkSeen \in Chunks /\ hc \in Chunks
    BY <2>a, Ranges
  <2>o. /\ Ahead(headChunk) <= Ahead(Consuming) /\ Ahead(Consuming) <= Ahead(tc)
        /\ Ahead(tailChunk) <= Ahead(tc)
    <3>1. /\ Ahead(headChunk) \in Nat /\ Ahead(Consuming) \in Nat /\ Ahead(tc) \in Nat
          /\ Ahead(tailChunk) \in Nat /\ Ahead(tailChunkSeen) \in Nat
      BY <2>a, Ranges, AheadRanges
    <3> QED BY <2>a, <3>1 DEF Order
  <2>1. Ahead(c) < Ahead(headChunk) \/ Ahead(c) > Ahead(tc)
    <3>1. ChunkDist(headChunk, c) > ChunkDist(headChunk, tc)
      BY <2>r, ChunkDistIs
    <3>2. /\ Ahead(headChunk) <= Ahead(c) =>
               ChunkDist(headChunk, c) = Ahead(c) - Ahead(headChunk)
          /\ Ahead(headChunk) <= Ahead(tc) =>
               ChunkDist(headChunk, tc) = Ahead(tc) - Ahead(headChunk)
      BY <2>r, ChunkDistBasics DEF Ahead
    <3>3. Ahead(c) \in Nat /\ Ahead(headChunk) \in Nat /\ Ahead(tc) \in Nat
          /\ Ahead(Consuming) \in Nat
      BY <2>a, <2>r, AheadRanges
    <3> QED BY <2>o, <3>1, <3>2, <3>3
  <2>2. c # tc /\ c # Consuming
    <3>1. Ahead(c) \in Nat /\ Ahead(headChunk) \in Nat /\ Ahead(tc) \in Nat
          /\ Ahead(Consuming) \in Nat
      BY <2>a, <2>r, AheadRanges
    <3> QED BY <2>o, <2>1, <3>1
  <2>3. Cursor(c) = head[c] /\ Built(c) = tail[c]
    BY <2>2 DEF Cursor, Built, Consuming
  <2>4. head[c] = tail[c]
    <3>1. CASE Ahead(c) < Ahead(headChunk)
      <4>1. Ahead(c) < Ahead(Consuming)
        BY <2>a, <2>o, <2>r, <3>1, AheadRanges
      <4> QED BY <2>a, <4>1 DEF Left
    <3>2. CASE Ahead(c) > Ahead(tc)
      <4>1. Ahead(c) > Ahead(tailChunk)
        BY <2>a, <2>o, <2>r, <3>2, AheadRanges
      <4>2. headSeen[c] = tail[c]
        BY <2>2, <2>a, <4>1 DEF Unentered
      <4>3. Off(c, head[c]) = Off(c, tail[c])
        <5>1. /\ Off(c, headSeen[c]) <= Off(c, head[c])
              /\ Off(c, head[c]) <= Off(c, tailSeen[c])
              /\ Off(c, tailSeen[c]) <= Off(c, tail[c])
              /\ Off(c, head[c]) \in Nat /\ Off(c, tailSeen[c]) \in Nat
              /\ Off(c, tail[c]) \in Nat
          BY <2>a, InWindow
        <5> QED BY <4>2, <5>1
      <4>4. head[c] \in Slots /\ tail[c] \in Slots
        BY <2>a, InWindow
      <4> QED BY <2>a, <4>3, <4>4, OffTells
    <3> QED BY <2>1, <3>1, <3>2
  <2> QED BY <2>3, <2>4
<1> QED BY <1>1, InvariantHolds, PTL

\* Only the consumer's own step takes it from the look at a chunk.
LEMMA LookingOn ==
  ASSUME [Next]_vars, cPc \in {"reload", "enter"}, cPc' # cPc
  PROVE  ReloadTail \/ EnterNext
<1>1. CASE ProducerStep
  BY <1>1 DEF ProducerStep, Enqueue, ReloadHead, CrossToNext, RefreshHead, Construct, Throw,
     PublishTail, PublishChunk, consumer
<1>2. CASE ConsumerStep
  BY <1>2 DEF ConsumerStep, Dequeue, Pop, ReadChunk, LoadTailChunk, Take, Decline,
     ReleaseHead, ReleaseChunk, ConsumeAll, DrainChunk, DrainElement, DrainRelease
<1>3. CASE IsEmpty \/ ChunkIsEmpty
  BY <1>3 DEF IsEmpty, ChunkIsEmpty
<1>4. CASE PropagateTail \/ PropagateHead \/ UNCHANGED vars
  BY <1>4 DEF PropagateTail, PropagateHead, vars, consumer
<1> QED BY <1>1, <1>2, <1>3, <1>4 DEF Next

\* A chunk the consumer enters has an element for it: a removal never gives up
\* between two chunks.
THEOREM NextChunkHasElement ==
  ASSUME KeepToOne
  PROVE  Spec => NextHasElement
<1>1. ASSUME Invariant, [Next]_vars
      PROVE  [cPc = "enter" => cPc' \in {"enter", "take"}]_vars
  <2>1. SUFFICES ASSUME cPc = "enter", cPc' # cPc PROVE cPc' = "take"
    OBVIOUS
  <2>2. h = head[hc] /\ head[hc] # tailSeen[hc]
    BY <1>1, <2>1 DEF Invariant, ConsumerFrame
  <2>3. EnterNext
    BY <1>1, <2>1, LookingOn DEF ReloadTail
  <2> QED BY <2>2, <2>3 DEF EnterNext
<1>2. Invariant /\ [Next]_vars => [cPc = "enter" => cPc' \in {"enter", "take"}]_vars
  BY <1>1
<1> QED BY <1>2, InvariantHolds, PTL DEF Spec, NextHasElement

\* After is_empty() answered false the next removal finds an element, though
\* is_empty() looked at one chunk alone.
THEOREM AnswerIsKept ==
  ASSUME KeepToOne
  PROVE  Spec => SomeIsKept
<1>1. ASSUME Invariant, [Next]_vars
      PROVE  [cSome /\ cPc \in {"reload", "enter"} => cPc' # "idle"]_vars
  <2>1. SUFFICES ASSUME cSome, cPc \in {"reload", "enter"}, cPc' # cPc
                 PROVE  cPc' # "idle"
    OBVIOUS
  <2>2. ReloadTail \/ EnterNext
    BY <1>1, <2>1, LookingOn
  <2>3. CASE ReloadTail
    <3>1. cPc = "reload" /\ h = head[hc] /\ (head[hc] # tailSeen[hc] \/ hc # last)
      BY <1>1, <2>1, <2>3 DEF Invariant, Some, ConsumerFrame, ReloadTail
    <3> QED BY <2>3, <3>1 DEF ReloadTail
  <2>4. CASE EnterNext
    <3>1. h = head[hc] /\ head[hc] # tailSeen[hc]
      BY <1>1, <2>4 DEF Invariant, ConsumerFrame, EnterNext
    <3> QED BY <2>4, <3>1 DEF EnterNext
  <2> QED BY <2>2, <2>3, <2>4
<1>2. Invariant /\ [Next]_vars => [cSome /\ cPc \in {"reload", "enter"} => cPc' # "idle"]_vars
  BY <1>1
<1> QED BY <1>2, InvariantHolds, PTL DEF Spec, SomeIsKept

-----------------------------------------------------------------------------
(* Joins of sequences: the contents are the chunks' parts, one after the   *)
(* other, defined by recursion on the number of the chunk.                 *)

\* Induction over a set: the theorems of the library take an operator.
LEMMA Inducts ==
  ASSUME NEW S, 0 \in S, \A k \in Nat : k \in S => k + 1 \in S
  PROVE  \A k \in Nat : k \in S
<1>1. SUFFICES ASSUME NEW k \in Nat, k \notin S PROVE FALSE
  OBVIOUS
<1> DEFINE Outside == {1 .. j : j \in {i \in Nat : i \notin S}}
           R == StrictSubsetOrdering(Nat)
<1>2. Outside \subseteq FiniteSubsetsOf(Nat) /\ Outside # {}
  <2>1. ASSUME NEW j \in Nat PROVE 1 .. j \in FiniteSubsetsOf(Nat)
    <3>1. IsFiniteSet(1 .. j)
      BY FS_Interval
    <3> QED BY <3>1 DEF FiniteSubsetsOf
  <2>2. 1 .. k \in Outside
    BY <1>1
  <2> QED BY <2>1, <2>2
<1> HIDE DEF Outside, R
<1>3. PICK x \in Outside : \A y \in Outside : ~(<<y, x>> \in R)
  <2>1. IsWellFoundedOn(R, FiniteSubsetsOf(Nat))
    BY FS_StrictSubsetOrderingWellFounded DEF R
  <2> QED BY <1>2, <2>1, WFMin
<1>4. PICK i \in Nat : i \notin S /\ x = 1 .. i
  BY <1>3 DEF Outside
<1>5. i # 0 /\ i - 1 \in Nat /\ (i - 1) + 1 = i
  BY <1>4
<1>6. 1 .. i - 1 \in Outside
  BY <1>4, <1>5 DEF Outside
<1>7. <<1 .. i - 1, x>> \in R
  <2>1. 1 .. i - 1 \subseteq 1 .. i /\ i \in 1 .. i /\ i \notin 1 .. i - 1
    BY <1>5
  <2>2. 1 .. i \subseteq Nat
    OBVIOUS
  <2> QED BY <1>4, <2>1, <2>2 DEF R, StrictSubsetOrdering
<1> QED BY <1>3, <1>6, <1>7

\* A row of n sequences.
Parts(n) == [1 .. n -> Seq(Elem)]

\* g joins the parts f, the first k of them to g[k].
Joins(g, f, n) ==
  /\ g \in [0 .. n -> Seq(Elem)] /\ g[0] = <<>>
  /\ \A k \in 1 .. n : g[k] = g[k - 1] \o f[k]

\* What the recursive definition of a join defines, if anything.
LEMMA JoinedOnce ==
  ASSUME NEW n \in Nat, NEW f \in Parts(n),
         NEW g, g = [k \in 0 .. n |-> IF k = 0 THEN <<>> ELSE g[k - 1] \o f[k]]
  PROVE  Joins(g, f, n)
<1> DEFINE S == {k \in Nat : k <= n => g[k] \in Seq(Elem)}
<1>1. 0 \in 0 .. n /\ g[0] = <<>> /\ \A k \in 1 .. n : g[k] = g[k - 1] \o f[k]
  <2>1. 0 \in 0 .. n
    OBVIOUS
  <2>2. g[0] = <<>>
    BY <2>1
  <2>3. ASSUME NEW k \in 1 .. n PROVE g[k] = g[k - 1] \o f[k]
    <3>1. k \in 0 .. n /\ k # 0
      OBVIOUS
    <3> QED BY <3>1
  <2> QED BY <2>1, <2>2, <2>3
<1>2. 0 \in S
  BY <1>1
<1>3. ASSUME NEW k \in Nat, k \in S PROVE k + 1 \in S
  <2>1. SUFFICES ASSUME k + 1 <= n PROVE g[k + 1] \in Seq(Elem)
    OBVIOUS
  <2>2. k + 1 \in 1 .. n /\ (k + 1) - 1 = k
    BY <2>1
  <2>3. g[k + 1] = g[k] \o f[k + 1]
    BY <1>1, <2>2
  <2>4. g[k] \in Seq(Elem) /\ f[k + 1] \in Seq(Elem)
    BY <1>3, <2>1, <2>2 DEF Parts
  <2> QED BY <2>3, <2>4, ConcatProperties
<1> HIDE DEF S
<1>4. \A k \in Nat : k \in S
  BY <1>2, <1>3, Inducts
<1>5. \A k \in 0 .. n : g[k] \in Seq(Elem)
  BY <1>4 DEF S
<1> QED BY <1>1, <1>5 DEF Joins

\* There is such a g, whatever the parts.
LEMMA JoinExists ==
  ASSUME NEW n \in Nat, NEW f \in Parts(n)
  PROVE  \E g : g = [k \in 0 .. n |-> IF k = 0 THEN <<>> ELSE g[k - 1] \o f[k]]
<1> DEFINE Upto(m, g) == g = [k \in 0 .. m |-> IF k = 0 THEN <<>> ELSE g[k - 1] \o f[k]]
           S == {m \in Nat : \E g : Upto(m, g)}
<1>1. 0 \in S
  <2>1. Upto(0, [k \in 0 .. 0 |-> <<>>])
    OBVIOUS
  <2> QED BY <2>1
<1>2. ASSUME NEW m \in Nat, m \in S PROVE m + 1 \in S
  <2>1. PICK g : Upto(m, g)
    BY <1>2
  <2>f. g[0] = <<>> /\ \A k \in 1 .. m : g[k] = g[k - 1] \o f[k]
    <3>1. 0 \in 0 .. m /\ \A k \in 1 .. m : k \in 0 .. m /\ k # 0
      OBVIOUS
    <3> QED BY <2>1, <3>1
  <2> HIDE DEF Upto
  <2> DEFINE w == [k \in 0 .. m + 1 |-> IF k <= m THEN g[k] ELSE g[m] \o f[m + 1]]
  <2>2. ASSUME NEW k \in 0 .. m + 1
        PROVE  w[k] = IF k = 0 THEN <<>> ELSE w[k - 1] \o f[k]
    <3>1. CASE k = 0
      BY <2>f, <3>1
    <3>2. CASE k \in 1 .. m
      <4>1. k - 1 \in 0 .. m + 1 /\ k - 1 <= m /\ k <= m /\ k # 0
        BY <3>2
      <4>2. g[k] = g[k - 1] \o f[k]
        BY <2>f, <3>2
      <4>3. w[k] = g[k] /\ w[k - 1] = g[k - 1]
        BY <4>1
      <4> QED BY <4>1, <4>2, <4>3
    <3>3. CASE k = m + 1
      <4>1. k - 1 = m /\ m \in 0 .. m + 1 /\ k # 0 /\ ~(k <= m) /\ m <= m
        BY <3>3
      <4>2. w[k] = g[m] \o f[m + 1] /\ w[m] = g[m]
        BY <3>3, <4>1
      <4> QED BY <3>3, <4>1, <4>2
    <3>4. k = 0 \/ k \in 1 .. m \/ k = m + 1
      OBVIOUS
    <3> QED BY <3>1, <3>2, <3>3, <3>4
  <2>3. w = [k \in 0 .. m + 1 |-> w[k]]
    OBVIOUS
  <2> HIDE DEF w
  <2>4. Upto(m + 1, w)
    BY <2>2, <2>3 DEF Upto
  <2> QED BY <2>4
<1> HIDE DEF S
<1>3. n \in S
  BY <1>1, <1>2, Inducts
<1> QED BY <1>3 DEF S

\* Of sequences.
LEMMA ConcatAppend ==
  ASSUME NEW s \in Seq(Elem), NEW q \in Seq(Elem), NEW e \in Elem
  PROVE  s \o Append(q, e) = Append(s \o q, e)
<1>1. Append(q, e) = q \o <<e>> /\ <<e>> \in Seq(Elem)
  BY AppendIsConcat
<1>2. s \o q \in Seq(Elem)
  BY ConcatProperties
<1>3. Append(s \o q, e) = (s \o q) \o <<e>>
  BY <1>2, AppendIsConcat
<1> QED BY <1>1, <1>3, ConcatAssociative

LEMMA Associative ==
  \A s, q, r \in Seq(Elem) : (s \o q) \o r = s \o (q \o r)
BY ConcatAssociative

\* An element in front of a sequence.
LEMMA FirstThenRest ==
  ASSUME NEW q \in Seq(Elem), NEW e \in Elem
  PROVE  <<e>> \o q # <<>> /\ Head(<<e>> \o q) = e /\ Tail(<<e>> \o q) = q
<1>1. /\ <<e>> \in Seq(Elem) /\ Len(<<e>>) = 1 /\ <<e>>[1] = e
  OBVIOUS
<1> DEFINE s == <<e>> \o q
<1>2. /\ s \in Seq(Elem) /\ Len(s) = Len(q) + 1 /\ Len(q) \in Nat
      /\ s[1] = e /\ \A i \in 1 .. Len(q) : s[i + 1] = q[i]
  <2>1. /\ s \in Seq(Elem) /\ Len(s) = Len(<<e>>) + Len(q)
        /\ \A i \in 1 .. Len(<<e>>) + Len(q) : s[i] =
              IF i <= Len(<<e>>) THEN <<e>>[i] ELSE q[i - Len(<<e>>)]
    BY <1>1, ConcatProperties
  <2>2. Len(q) \in Nat
    OBVIOUS
  <2> HIDE DEF s
  <2>3. \A i \in 1 .. Len(q) : s[i + 1] = q[i]
    <3> TAKE i \in 1 .. Len(q)
    <3>1. i + 1 \in 1 .. 1 + Len(q) /\ ~(i + 1 <= 1) /\ (i + 1) - 1 = i
      BY <2>2
    <3> QED BY <1>1, <2>1, <3>1
  <2> QED BY <1>1, <2>1, <2>2, <2>3
<1> HIDE DEF s
<1>3. s # <<>> /\ Head(s) = e
  BY <1>2
<1>4. /\ Tail(s) \in Seq(Elem) /\ Len(Tail(s)) = Len(q)
      /\ \A i \in 1 .. Len(q) : Tail(s)[i] = q[i]
  BY <1>2, <1>3, HeadTailProperties
<1>5. Tail(s) = q
  BY <1>4, SeqEqual
<1> QED BY <1>3, <1>5 DEF s

\* A join in terms of numbers from 0.
LEMMA JoinType ==
  ASSUME NEW n \in Nat, NEW f \in Parts(n), NEW g, Joins(g, f, n)
  PROVE  /\ g[0] = <<>> /\ g[n] \in Seq(Elem)
         /\ \A k \in Nat : k + 1 <= n =>
              /\ g[k] \in Seq(Elem) /\ g[k + 1] \in Seq(Elem) /\ f[k + 1] \in Seq(Elem)
              /\ g[k + 1] = g[k] \o f[k + 1]
<1>1. g[0] = <<>> /\ g[n] \in Seq(Elem)
  BY DEF Joins
<1>2. ASSUME NEW k \in Nat, k + 1 <= n
      PROVE  /\ g[k] \in Seq(Elem) /\ g[k + 1] \in Seq(Elem) /\ f[k + 1] \in Seq(Elem)
             /\ g[k + 1] = g[k] \o f[k + 1]
  <2>1. k \in 0 .. n /\ k + 1 \in 0 .. n /\ k + 1 \in 1 .. n /\ (k + 1) - 1 = k
    BY <1>2
  <2> QED BY <2>1 DEF Joins, Parts
<1> QED BY <1>1, <1>2

\* An element added to the last part that is not empty is added to the whole.
LEMMA JoinAppends ==
  ASSUME NEW n \in Nat, NEW f \in Parts(n), NEW g, Joins(g, f, n),
         NEW f2 \in Parts(n), NEW g2, Joins(g2, f2, n),
         NEW d \in 1 .. n, NEW e \in Elem, f2[d] = Append(f[d], e),
         \A k \in 1 .. n : k # d => f2[k] = f[k],
         \A k \in d + 1 .. n : f[k] = <<>>
  PROVE  g2[n] = Append(g[n], e)
<1>j. /\ g[0] = <<>> /\ g[n] \in Seq(Elem)
      /\ \A k \in Nat : k + 1 <= n =>
           /\ g[k] \in Seq(Elem) /\ g[k + 1] \in Seq(Elem) /\ f[k + 1] \in Seq(Elem)
           /\ g[k + 1] = g[k] \o f[k + 1]
  BY JoinType
<1>i. /\ g2[0] = <<>> /\ g2[n] \in Seq(Elem)
      /\ \A k \in Nat : k + 1 <= n =>
           /\ g2[k] \in Seq(Elem) /\ g2[k + 1] \in Seq(Elem) /\ f2[k + 1] \in Seq(Elem)
           /\ g2[k + 1] = g2[k] \o f2[k + 1]
  BY JoinType
<1> DEFINE S == {k \in Nat : k <= n => g2[k] = IF k < d THEN g[k] ELSE Append(g[k], e)}
<1>1. 0 \in S
  BY DEF Joins
<1>2. ASSUME NEW k \in Nat, k \in S PROVE k + 1 \in S
  <2>1. SUFFICES ASSUME k + 1 <= n
                 PROVE  g2[k + 1] = IF k + 1 < d THEN g[k + 1] ELSE Append(g[k + 1], e)
    OBVIOUS
  <2>2. /\ g[k] \in Seq(Elem) /\ g[k + 1] \in Seq(Elem) /\ f[k + 1] \in Seq(Elem)
        /\ g[k + 1] = g[k] \o f[k + 1]
    BY <2>1, <1>j
  <2>3. /\ g2[k] \in Seq(Elem) /\ f2[k + 1] \in Seq(Elem)
        /\ g2[k + 1] = g2[k] \o f2[k + 1]
    BY <2>1, <1>i
  <2>4. g2[k] = IF k < d THEN g[k] ELSE Append(g[k], e)
    BY <1>2, <2>1
  <2>5. CASE k + 1 < d
    <3>1. k + 1 \in 1 .. n /\ k + 1 # d /\ k < d
      BY <2>1, <2>5
    <3> QED BY <2>2, <2>3, <2>4, <2>5, <3>1
  <2>6. CASE k + 1 = d
    <3>1. g2[k] = g[k] /\ f2[k + 1] = Append(f[k + 1], e)
      BY <2>4, <2>6
    <3>2. g[k] \o Append(f[k + 1], e) = Append(g[k] \o f[k + 1], e)
      BY <2>2, ConcatAppend
    <3>3. g2[k + 1] = Append(g[k + 1], e)
      BY <2>2, <2>3, <3>1, <3>2
    <3> QED BY <2>6, <3>3
  <2>7. CASE k + 1 > d
    <3>1. k + 1 \in d + 1 .. n /\ k + 1 \in 1 .. n /\ k + 1 # d /\ ~(k < d) /\ ~(k + 1 < d)
      BY <2>1, <2>7
    <3>2. f[k + 1] = <<>> /\ f2[k + 1] = <<>> /\ g2[k] = Append(g[k], e)
      BY <2>4, <3>1
    <3>3. g[k + 1] = g[k] /\ g2[k + 1] = g2[k]
      BY <2>2, <2>3, <3>2, ConcatEmptySeq
    <3> QED BY <3>1, <3>2, <3>3
  <2> QED BY <2>5, <2>6, <2>7
<1> HIDE DEF S
<1>3. n \in S
  BY <1>1, <1>2, Inducts
<1>4. n <= n /\ ~(n < d)
  OBVIOUS
<1> QED BY <1>3, <1>4 DEF S

\* The first element of the first part that is not empty is the first of all.
LEMMA JoinTakes ==
  ASSUME NEW n \in Nat, NEW f \in Parts(n), NEW g, Joins(g, f, n),
         NEW f2 \in Parts(n), NEW g2, Joins(g2, f2, n),
         NEW d \in 1 .. n, f[d] # <<>>, f2[d] = Tail(f[d]),
         \A k \in 1 .. n : k # d => f2[k] = f[k],
         \A k \in 1 .. d - 1 : f[k] = <<>>
  PROVE  g[n] # <<>> /\ Head(g[n]) = Head(f[d]) /\ g2[n] = Tail(g[n])
<1>j. /\ g[0] = <<>> /\ g[n] \in Seq(Elem)
      /\ \A k \in Nat : k + 1 <= n =>
           /\ g[k] \in Seq(Elem) /\ g[k + 1] \in Seq(Elem) /\ f[k + 1] \in Seq(Elem)
           /\ g[k + 1] = g[k] \o f[k + 1]
  BY JoinType
<1>i. /\ g2[0] = <<>> /\ g2[n] \in Seq(Elem)
      /\ \A k \in Nat : k + 1 <= n =>
           /\ g2[k] \in Seq(Elem) /\ g2[k + 1] \in Seq(Elem) /\ f2[k + 1] \in Seq(Elem)
           /\ g2[k + 1] = g2[k] \o f2[k + 1]
  BY JoinType
<1> DEFINE e == Head(f[d])
           S == {k \in Nat : k <= n => IF k < d THEN g[k] = <<>> /\ g2[k] = <<>>
                                       ELSE g[k] = <<e>> \o g2[k]}
<1>1. 0 \in S
  BY DEF Joins
<1>e. f[d] \in Seq(Elem) /\ e \in Elem /\ <<e>> \in Seq(Elem) /\ f[d] = <<e>> \o Tail(f[d])
  <2>1. f[d] \in Seq(Elem)
    BY DEF Parts
  <2> QED BY <2>1, HeadTailProperties
<1> HIDE DEF e
<1>2. ASSUME NEW k \in Nat, k \in S PROVE k + 1 \in S
  <2>1. SUFFICES ASSUME k + 1 <= n
                 PROVE  IF k + 1 < d THEN g[k + 1] = <<>> /\ g2[k + 1] = <<>>
                        ELSE g[k + 1] = <<e>> \o g2[k + 1]
    OBVIOUS
  <2>2. /\ g[k] \in Seq(Elem) /\ g[k + 1] \in Seq(Elem) /\ f[k + 1] \in Seq(Elem)
        /\ g[k + 1] = g[k] \o f[k + 1]
    BY <2>1, <1>j
  <2>3. /\ g2[k] \in Seq(Elem) /\ f2[k + 1] \in Seq(Elem)
        /\ g2[k + 1] = g2[k] \o f2[k + 1]
    BY <2>1, <1>i
  <2>4. IF k < d THEN g[k] = <<>> /\ g2[k] = <<>> ELSE g[k] = <<e>> \o g2[k]
    BY <1>2, <2>1
  <2>5. CASE k + 1 < d
    <3>1. k + 1 \in 1 .. n /\ k + 1 # d /\ k < d /\ k + 1 \in 1 .. d - 1
      BY <2>1, <2>5
    <3>2. f[k + 1] = <<>> /\ f2[k + 1] = <<>> /\ g[k] = <<>> /\ g2[k] = <<>>
      BY <2>4, <3>1
    <3> QED BY <2>2, <2>3, <2>5, <3>2, ConcatEmptySeq
  <2>6. CASE k + 1 = d
    <3>1. g[k] = <<>> /\ g2[k] = <<>> /\ f2[k + 1] = Tail(f[k + 1])
      BY <2>4, <2>6
    <3>2. g[k + 1] = f[k + 1] /\ g2[k + 1] = f2[k + 1]
      BY <2>2, <2>3, <3>1, ConcatEmptySeq
    <3> QED BY <1>e, <2>6, <3>1, <3>2
  <2>7. CASE k + 1 > d
    <3>1. k + 1 \in 1 .. n /\ k + 1 # d /\ ~(k < d) /\ ~(k + 1 < d)
      BY <2>1, <2>7
    <3>2. g[k] = <<e>> \o g2[k] /\ f2[k + 1] = f[k + 1]
      BY <2>4, <3>1
    <3>3. (<<e>> \o g2[k]) \o f[k + 1] = <<e>> \o (g2[k] \o f[k + 1])
      <4>1. <<e>> \in Seq(Elem) /\ g2[k] \in Seq(Elem) /\ f[k + 1] \in Seq(Elem)
        BY <1>e, <2>2, <2>3
      <4> QED BY <4>1, Associative
    <3> QED BY <2>2, <2>3, <3>1, <3>2, <3>3
  <2> QED BY <2>5, <2>6, <2>7
<1> HIDE DEF S
<1>3. n \in S
  BY <1>1, <1>2, Inducts
<1>4. g[n] = <<e>> \o g2[n] /\ g2[n] \in Seq(Elem)
  <2>1. n <= n /\ ~(n < d)
    OBVIOUS
  <2> QED BY <1>i, <1>3, <2>1 DEF S
<1>5. g[n] # <<>> /\ Head(g[n]) = e /\ Tail(g[n]) = g2[n]
  BY <1>e, <1>4, FirstThenRest
<1> QED BY <1>5 DEF e

\* It makes no difference which of the empty parts in front come last.
Shifted(f, f2, m, n) ==
  /\ \A k \in 1 .. m : f[k] = <<>>
  /\ \A k \in 1 .. n - m : f2[k] = f[k + m]
  /\ \A k \in n - m + 1 .. n : f2[k] = <<>>

LEMMA JoinShifts ==
  ASSUME NEW n \in Nat, NEW f \in Parts(n), NEW g, Joins(g, f, n),
         NEW f2 \in Parts(n), NEW g2, Joins(g2, f2, n),
         NEW m \in Nat, m <= n, Shifted(f, f2, m, n)
  PROVE  g2[n] = g[n]
<1>j. /\ g[0] = <<>> /\ g[n] \in Seq(Elem)
      /\ \A k \in Nat : k + 1 <= n =>
           /\ g[k] \in Seq(Elem) /\ g[k + 1] \in Seq(Elem) /\ f[k + 1] \in Seq(Elem)
           /\ g[k + 1] = g[k] \o f[k + 1]
  BY JoinType
<1>i. /\ g2[0] = <<>> /\ g2[n] \in Seq(Elem)
      /\ \A k \in Nat : k + 1 <= n =>
           /\ g2[k] \in Seq(Elem) /\ g2[k + 1] \in Seq(Elem) /\ f2[k + 1] \in Seq(Elem)
           /\ g2[k + 1] = g2[k] \o f2[k + 1]
  BY JoinType
<1>s. /\ \A k \in 1 .. m : f[k] = <<>>
      /\ \A k \in 1 .. n - m : f2[k] = f[k + m]
      /\ \A k \in n - m + 1 .. n : f2[k] = <<>>
  BY DEF Shifted
<1> DEFINE R == {k \in Nat : k <= m => g[k] = <<>>}
<1>1. 0 \in R
  BY DEF Joins
<1>2. ASSUME NEW k \in Nat, k \in R PROVE k + 1 \in R
  <2>1. SUFFICES ASSUME k + 1 <= m PROVE g[k + 1] = <<>>
    OBVIOUS
  <2>2. /\ g[k] \in Seq(Elem) /\ f[k + 1] \in Seq(Elem) /\ g[k + 1] = g[k] \o f[k + 1]
    <3>1. k + 1 <= n
      BY <2>1
    <3> QED BY <3>1, <1>j
  <2>3. g[k] = <<>> /\ k + 1 \in 1 .. m
    BY <1>2, <2>1
  <2> QED BY <1>s, <2>2, <2>3, ConcatEmptySeq
<1> HIDE DEF R
<1>3. g[m] = <<>>
  <2>1. m \in R
    BY <1>1, <1>2, Inducts
  <2> QED BY <2>1 DEF R
<1> DEFINE S == {k \in Nat : k <= n => g2[k] = IF k <= n - m THEN g[k + m] ELSE g[n]}
<1>4. 0 \in S
  <2>1. 0 <= n - m /\ 0 + m = m /\ g2[0] = <<>>
    BY DEF Joins
  <2> QED BY <1>3, <2>1
<1>5. ASSUME NEW k \in Nat, k \in S PROVE k + 1 \in S
  <2>1. SUFFICES ASSUME k + 1 <= n
                 PROVE  g2[k + 1] = IF k + 1 <= n - m THEN g[(k + 1) + m] ELSE g[n]
    OBVIOUS
  <2>2. /\ g2[k] \in Seq(Elem) /\ f2[k + 1] \in Seq(Elem)
        /\ g2[k + 1] = g2[k] \o f2[k + 1]
    BY <2>1, <1>i
  <2>3. g2[k] = IF k <= n - m THEN g[k + m] ELSE g[n]
    BY <1>5, <2>1
  <2>4. CASE k + 1 <= n - m
    <3>1. k + m \in Nat /\ (k + m) + 1 <= n /\ (k + 1) + m = (k + m) + 1 /\ k <= n - m
      BY <2>4
    <3>2. g[(k + m) + 1] = g[k + m] \o f[(k + m) + 1]
      BY <3>1, <1>j
    <3>3. f2[k + 1] = f[(k + m) + 1]
      <4>1. k + 1 \in 1 .. n - m
        BY <2>4
      <4>2. f2[k + 1] = f[(k + 1) + m]
        BY <1>s, <4>1
      <4> QED BY <3>1, <4>2
    <3>4. g2[k] = g[k + m]
      BY <2>3, <3>1
    <3>5. g2[k + 1] = g[(k + 1) + m]
      BY <2>2, <3>1, <3>2, <3>3, <3>4
    <3> QED BY <2>4, <3>5
  <2>5. CASE ~(k + 1 <= n - m)
    <3>1. k + 1 \in n - m + 1 .. n
      BY <2>1, <2>5
    <3>2. g2[k] = g[n]
      <4>1. CASE k <= n - m
        <5>1. k + m = n
          BY <2>5, <4>1
        <5> QED BY <2>3, <4>1, <5>1
      <4>2. CASE ~(k <= n - m)
        BY <2>3, <4>2
      <4> QED BY <4>1, <4>2
    <3>3. f2[k + 1] = <<>>
      BY <1>s, <3>1
    <3>4. g2[k + 1] = g2[k]
      BY <2>2, <3>3, ConcatEmptySeq
    <3> QED BY <2>5, <3>2, <3>4
  <2> QED BY <2>4, <2>5
<1> HIDE DEF S
<1>6. n \in S
  BY <1>4, <1>5, Inducts
<1>7. CASE n <= n - m
  <2>1. n + m = n
    BY <1>7
  <2> QED BY <1>6, <1>7, <2>1 DEF S
<1>8. CASE ~(n <= n - m)
  BY <1>6, <1>8 DEF S
<1> QED BY <1>7, <1>8

\* The join is no longer than its parts.
LEMMA SumsOrdered == \A x, y, u, v \in Nat : x <= u /\ y <= v => x + y <= u + v
OBVIOUS

LEMMA JoinBounded ==
  ASSUME NEW n \in Nat, NEW f \in Parts(n), NEW g, Joins(g, f, n),
         NEW b \in Nat, \A k \in 1 .. n : Len(f[k]) <= b
  PROVE  g[n] \in Seq(Elem) /\ Len(g[n]) <= n * b
<1>j. /\ g[0] = <<>> /\ g[n] \in Seq(Elem)
      /\ \A k \in Nat : k + 1 <= n =>
           /\ g[k] \in Seq(Elem) /\ g[k + 1] \in Seq(Elem) /\ f[k + 1] \in Seq(Elem)
           /\ g[k + 1] = g[k] \o f[k + 1]
  BY JoinType
<1> DEFINE times == [k \in Nat |-> k * b]
<1>t. times[0] = 0 /\ \A k \in Nat : times[k] \in Nat /\ times[k + 1] = times[k] + b
  OBVIOUS
<1> HIDE DEF times
<1> DEFINE S == {k \in Nat : k <= n => Len(g[k]) <= times[k]}
<1>1. 0 \in S
  <2>1. Len(g[0]) = 0
    BY <1>j, EmptySeq
  <2> QED BY <1>t, <2>1
<1>2. ASSUME NEW k \in Nat, k \in S PROVE k + 1 \in S
  <2>1. SUFFICES ASSUME k + 1 <= n PROVE Len(g[k + 1]) <= times[k + 1]
    OBVIOUS
  <2>2. /\ g[k] \in Seq(Elem) /\ f[k + 1] \in Seq(Elem) /\ g[k + 1] = g[k] \o f[k + 1]
    BY <2>1, <1>j
  <2>3. Len(g[k]) <= times[k] /\ Len(f[k + 1]) <= b
    <3>1. k <= n /\ k + 1 \in 1 .. n
      BY <2>1
    <3> QED BY <1>2, <3>1
  <2>4. /\ Len(g[k + 1]) = Len(g[k]) + Len(f[k + 1])
        /\ Len(g[k]) \in Nat /\ Len(f[k + 1]) \in Nat
    BY <2>2, ConcatProperties, LenProperties
  <2>5. times[k + 1] = times[k] + b /\ times[k] \in Nat
    BY <1>t
  <2>6. Len(g[k]) + Len(f[k + 1]) <= times[k] + b
    BY <2>3, <2>4, <2>5, SumsOrdered, Zenon
  <2> QED BY <2>4, <2>5, <2>6
<1> HIDE DEF S
<1>3. n \in S
  BY <1>1, <1>2, Inducts
<1> QED BY <1>j, <1>3 DEF S, times

-----------------------------------------------------------------------------
(* The contents, chunk by chunk.                                           *)

\* A remainder on a ring, by one subtraction at most.
LEMMA ModOnce ==
  ASSUME NEW n \in Nat, n >= 1, NEW a \in 0 .. n - 1, NEW k \in 1 .. n
  PROVE  (a + k - 1) % n = IF a + k - 1 < n THEN a + k - 1 ELSE a + k - 1 - n
<1>1. CASE a + k - 1 < n
  <2>1. a + k - 1 \in 0 .. n - 1
    BY <1>1
  <2> QED BY <1>1, <2>1
<1>2. CASE ~(a + k - 1 < n)
  <2>1. a + k - 1 - n \in 0 .. n - 1
    BY <1>2
  <2>2. (a + k - 1 - n) % n = a + k - 1 - n
    BY <2>1
  <2> QED BY <1>2, <2>1, <2>2
<1> QED BY <1>1, <1>2

\* The k-th slot from slot a on.
SlotAt(a, k) == (a + k - 1) % ChunkSize

\* It is k - 1 slots ahead, and the only one that is.
LEMMA SlotAtBasics ==
  ASSUME NEW a \in Slots, NEW k \in 1 .. ChunkSize
  PROVE  /\ SlotAt(a, k) \in Slots /\ Dist(a, SlotAt(a, k)) = k - 1
         /\ \A i \in Slots : Dist(a, i) = k - 1 => SlotAt(a, k) = i
<1>1. SlotAt(a, k) = IF a + k - 1 < ChunkSize THEN a + k - 1 ELSE a + k - 1 - ChunkSize
  BY ChunkSizeAssumption, ModOnce DEF SlotAt, Slots
<1>2. SlotAt(a, k) \in Slots /\ Dist(a, SlotAt(a, k)) = k - 1
  BY <1>1, ChunkSizeAssumption DEF Slots, Dist
<1>3. ASSUME NEW i \in Slots, Dist(a, i) = k - 1 PROVE SlotAt(a, k) = i
  BY <1>2, <1>3, DistBasics
<1> QED BY <1>2, <1>3

\* The k-th chunk from the consumer's on.
ChunkAt(k) == (headChunk + k - 1) % ChunkCount

\* It is k - 1 chunks ahead, and the only one that is.
LEMMA ChunkAtBasics ==
  ASSUME headChunk \in Chunks, NEW k \in 1 .. ChunkCount
  PROVE  /\ ChunkAt(k) \in Chunks /\ ChunkDist(headChunk, ChunkAt(k)) = k - 1
         /\ \A c \in Chunks : ChunkDist(headChunk, c) = k - 1 => ChunkAt(k) = c
<1>1. ChunkAt(k) = IF headChunk + k - 1 < ChunkCount THEN headChunk + k - 1
                   ELSE headChunk + k - 1 - ChunkCount
  BY ChunkCountAssumption, ModOnce DEF ChunkAt, Chunks
<1>2. ChunkAt(k) \in Chunks /\ ChunkDist(headChunk, ChunkAt(k)) = k - 1
  BY <1>1, ChunkCountAssumption DEF Chunks, ChunkDist
<1>3. ASSUME NEW c \in Chunks, ChunkDist(headChunk, c) = k - 1 PROVE ChunkAt(k) = c
  BY <1>2, <1>3, ChunkDistBasics
<1> QED BY <1>2, <1>3

\* What lies between the two threads' positions in a chunk was constructed.
LEMMA PartIs ==
  ASSUME Invariant, NEW c \in Chunks
  PROVE  /\ ChunkContents(c) \in Seq(Elem)
         /\ Len(ChunkContents(c)) = Dist(Cursor(c), tail[c])
         /\ Dist(Cursor(c), tail[c]) \in Nat /\ Dist(Cursor(c), tail[c]) <= ChunkSize - 1
         /\ \A k \in 1 .. Dist(Cursor(c), tail[c]) :
              /\ ChunkContents(c)[k] = buffer[c][SlotAt(Cursor(c), k)]
              /\ k \in 1 .. ChunkSize
<1>a. TypeOK /\ Window /\ ProducerFrame /\ ConsumerFrame /\ LiveExactly
  BY DEF Invariant
<1>1. /\ Cursor(c) \in Slots /\ Built(c) \in Slots /\ tail[c] \in Slots
      /\ Off(c, Cursor(c)) \in Nat /\ Off(c, tail[c]) \in Nat /\ Off(c, Built(c)) \in Nat
      /\ Off(c, Cursor(c)) <= Off(c, tail[c]) /\ Off(c, tail[c]) <= Off(c, Built(c))
  <2>1. /\ Cursor(c) \in Slots /\ Off(c, Cursor(c)) \in Nat
        /\ Off(c, Cursor(c)) <= Off(c, tailSeen[c])
    BY <1>a, CursorInWindow
  <2>2. /\ Off(c, tailSeen[c]) \in Nat /\ Off(c, tail[c]) \in Nat /\ tail[c] \in Slots
        /\ Off(c, tailSeen[c]) <= Off(c, tail[c])
    BY <1>a, InWindow
  <2>3. Built(c) \in Slots /\ Off(c, Built(c)) \in Nat /\ Off(c, tail[c]) <= Off(c, Built(c))
    BY <1>a, BuiltInWindow
  <2> QED BY <2>1, <2>2, <2>3
<1> DEFINE n == Dist(Cursor(c), tail[c])
<1>2. n \in Nat /\ n <= ChunkSize - 1 /\ n <= Dist(Cursor(c), Built(c))
  <2>1. n \in Nat /\ n <= ChunkSize - 1
    BY <1>1, DistRange
  <2>2. n = Off(c, tail[c]) - Off(c, Cursor(c))
    BY <1>a, <1>1, OffTells
  <2>3. Dist(Cursor(c), Built(c)) = Off(c, Built(c)) - Off(c, Cursor(c))
    BY <1>a, <1>1, OffTells
  <2> QED BY <1>1, <2>1, <2>2, <2>3
<1>3. ChunkContents(c) = [k \in 1 .. n |-> buffer[c][SlotAt(Cursor(c), k)]]
  BY DEF ChunkContents, SlotAt
<1>4. ASSUME NEW k \in 1 .. n
      PROVE  buffer[c][SlotAt(Cursor(c), k)] \in Elem /\ k \in 1 .. ChunkSize
  <2>1. k \in 1 .. ChunkSize
    BY <1>2, ChunkSizeAssumption
  <2>2. /\ SlotAt(Cursor(c), k) \in Slots
        /\ Dist(Cursor(c), SlotAt(Cursor(c), k)) = k - 1
    BY <1>1, <2>1, SlotAtBasics
  <2>3. Dist(Cursor(c), SlotAt(Cursor(c), k)) < Dist(Cursor(c), Built(c))
    <3>1. Dist(Cursor(c), Built(c)) \in Nat
      BY <1>1, DistRange
    <3> QED BY <1>2, <2>2, <3>1
  <2>4. buffer[c][SlotAt(Cursor(c), k)] # Raw
    BY <1>a, <2>2, <2>3 DEF LiveExactly
  <2>5. buffer[c][SlotAt(Cursor(c), k)] \in Value
    BY <1>a, <2>2, Ranges
  <2> QED BY <2>1, <2>4, <2>5 DEF Value
<1> HIDE DEF n
<1>5. ChunkContents(c) \in Seq(Elem) /\ Len(ChunkContents(c)) = n
  BY <1>2, <1>3, <1>4
<1>6. \A k \in 1 .. n : ChunkContents(c)[k] = buffer[c][SlotAt(Cursor(c), k)]
  BY <1>3
<1> QED BY <1>2, <1>4, <1>5, <1>6 DEF n

\* The chunks' parts, the consumer's chunk first.
Row == [k \in 1 .. ChunkCount |-> ChunkContents(ChunkAt(k))]

\* They are sequences of elements, none longer than a chunk has room for.
LEMMA RowIs ==
  ASSUME Invariant
  PROVE  /\ ChunkCount \in Nat /\ Row \in Parts(ChunkCount)
         /\ \A k \in 1 .. ChunkCount :
              Row[k] = ChunkContents(ChunkAt(k)) /\ Len(Row[k]) <= ChunkSize - 1
<1>1. headChunk \in Chunks
  BY Ranges DEF Invariant
<1>2. ASSUME NEW k \in 1 .. ChunkCount
      PROVE  /\ ChunkContents(ChunkAt(k)) \in Seq(Elem)
             /\ Len(ChunkContents(ChunkAt(k))) <= ChunkSize - 1
  <2>1. ChunkAt(k) \in Chunks
    BY <1>1, ChunkAtBasics
  <2> QED BY <2>1, PartIs
<1> QED BY <1>2, ChunkCountAssumption DEF Row, Parts

\* The same of the next state.
LEMMA RowNext ==
  ASSUME NEW k \in 1 .. ChunkCount, NEW c \in Chunks, c = ChunkAt(k)'
  PROVE  Row'[k] = ChunkContents(c)'
BY DEF Row, ChunkContents, Cursor, Dist

\* The contents are the parts joined.
Joined == \E g : Joins(g, Row, ChunkCount) /\ Contents = g[ChunkCount]

LEMMA ContentsJoin ==
  ASSUME Invariant
  PROVE  Joined
<1> DEFINE Eq(g) == g = [k \in 0 .. ChunkCount |-> IF k = 0 THEN <<>>
                            ELSE g[k - 1] \o ChunkContents((headChunk + k - 1) % ChunkCount)]
           g0 == CHOOSE g : Eq(g)
<1>1. Contents = g0[ChunkCount]
  BY DEF Contents
<1>2. ASSUME NEW g
      PROVE  Eq(g) <=> g = [k \in 0 .. ChunkCount |-> IF k = 0 THEN <<>> ELSE g[k - 1] \o Row[k]]
  <2>1. ASSUME NEW k \in 0 .. ChunkCount, k # 0
        PROVE  Row[k] = ChunkContents((headChunk + k - 1) % ChunkCount)
    <3>1. k \in 1 .. ChunkCount
      BY <2>1, ChunkCountAssumption
    <3> QED BY <3>1 DEF Row, ChunkAt
  <2>2. [k \in 0 .. ChunkCount |-> IF k = 0 THEN <<>> ELSE g[k - 1] \o Row[k]]
        = [k \in 0 .. ChunkCount |-> IF k = 0 THEN <<>>
             ELSE g[k - 1] \o ChunkContents((headChunk + k - 1) % ChunkCount)]
    BY <2>1
  <2> QED BY <2>2
<1>3. ChunkCount \in Nat /\ Row \in Parts(ChunkCount)
  BY RowIs
<1>h. PICK g : g = [k \in 0 .. ChunkCount |-> IF k = 0 THEN <<>> ELSE g[k - 1] \o Row[k]]
  BY <1>3, JoinExists
<1> HIDE DEF Eq
<1>4. Eq(g)
  BY <1>2, <1>h
<1>5. Eq(g0)
  BY <1>4
<1> HIDE DEF g0
<1>6. Joins(g0, Row, ChunkCount)
  BY <1>2, <1>3, <1>5, JoinedOnce
<1> QED BY <1>1, <1>6 DEF Joined

\* The contents are a sequence of elements the chunks have room for.
ContentsFine == Contents \in Seq(Elem) /\ Len(Contents) <= ChunkCount * (ChunkSize - 1)

LEMMA ContentsBounded ==
  ASSUME Invariant
  PROVE  ContentsFine
<1>1. PICK g : Joins(g, Row, ChunkCount) /\ Contents = g[ChunkCount]
  BY ContentsJoin DEF Joined
<1>2. ChunkSize - 1 \in Nat
  BY ChunkSizeAssumption
<1> QED BY <1>1, <1>2, RowIs, JoinBounded DEF ContentsFine

-----------------------------------------------------------------------------
(* What a step does to the contents, by what it does to the parts.         *)

\* Nothing, when empty parts go from the front to the back.
LEMMA ContentsShifted ==
  ASSUME Invariant, Invariant', NEW m \in Nat, m <= ChunkCount,
         Shifted(Row, Row', m, ChunkCount)
  PROVE  Contents' = Contents
<1>1. PICK g : Joins(g, Row, ChunkCount) /\ Contents = g[ChunkCount]
  BY ContentsJoin DEF Joined
<1>2. PICK g2 : Joins(g2, Row', ChunkCount) /\ Contents' = g2[ChunkCount]
  <2>1. Joined'
    BY ContentsJoin, PTL
  <2> QED BY <2>1 DEF Joined
<1>3. ChunkCount \in Nat /\ Row \in Parts(ChunkCount)
  BY RowIs
<1>4. (Row \in Parts(ChunkCount))'
  BY RowIs, PTL
<1>5. g2[ChunkCount] = g[ChunkCount]
  BY <1>1, <1>2, <1>3, <1>4, JoinShifts
<1> QED BY <1>1, <1>2, <1>5

\* An element more, when the last part that is not empty has one more.
LEMMA ContentsAppended ==
  ASSUME Invariant, Invariant', NEW d \in 1 .. ChunkCount, NEW e \in Elem,
         Row'[d] = Append(Row[d], e),
         \A k \in 1 .. ChunkCount : k # d => Row'[k] = Row[k],
         \A k \in d + 1 .. ChunkCount : Row[k] = <<>>
  PROVE  Contents' = Append(Contents, e)
<1>1. PICK g : Joins(g, Row, ChunkCount) /\ Contents = g[ChunkCount]
  BY ContentsJoin DEF Joined
<1>2. PICK g2 : Joins(g2, Row', ChunkCount) /\ Contents' = g2[ChunkCount]
  <2>1. Joined'
    BY ContentsJoin, PTL
  <2> QED BY <2>1 DEF Joined
<1>3. ChunkCount \in Nat /\ Row \in Parts(ChunkCount)
  BY RowIs
<1>4. (Row \in Parts(ChunkCount))'
  BY RowIs, PTL
<1>5. g2[ChunkCount] = Append(g[ChunkCount], e)
  BY <1>1, <1>2, <1>3, <1>4, JoinAppends
<1> QED BY <1>1, <1>2, <1>5

\* The first one less, when the first part that is not empty loses its first.
LEMMA ContentsTaken ==
  ASSUME Invariant, Invariant', NEW d \in 1 .. ChunkCount,
         Row[d] # <<>>, Row'[d] = Tail(Row[d]),
         \A k \in 1 .. ChunkCount : k # d => Row'[k] = Row[k],
         \A k \in 1 .. d - 1 : Row[k] = <<>>
  PROVE  Contents # <<>> /\ Head(Contents) = Head(Row[d]) /\ Contents' = Tail(Contents)
<1>1. PICK g : Joins(g, Row, ChunkCount) /\ Contents = g[ChunkCount]
  BY ContentsJoin DEF Joined
<1>2. PICK g2 : Joins(g2, Row', ChunkCount) /\ Contents' = g2[ChunkCount]
  <2>1. Joined'
    BY ContentsJoin, PTL
  <2> QED BY <2>1 DEF Joined
<1>3. ChunkCount \in Nat /\ Row \in Parts(ChunkCount)
  BY RowIs
<1>4. (Row \in Parts(ChunkCount))'
  BY RowIs, PTL
<1>5. /\ g[ChunkCount] # <<>> /\ Head(g[ChunkCount]) = Head(Row[d])
      /\ g2[ChunkCount] = Tail(g[ChunkCount])
  BY <1>1, <1>2, <1>3, <1>4, JoinTakes
<1> QED BY <1>1, <1>2, <1>5

\* A part is the same while neither position of its chunk has moved, and the
\* slots between them have not changed.
LEMMA PartStays ==
  ASSUME Invariant, NEW c \in Chunks, Cursor(c)' = Cursor(c), tail'[c] = tail[c],
         \A i \in Slots : Dist(Cursor(c), i) < Dist(Cursor(c), tail[c]) =>
                            buffer'[c][i] = buffer[c][i]
  PROVE  ChunkContents(c)' = ChunkContents(c)
<1> DEFINE n == Dist(Cursor(c), tail[c])
<1>1. ASSUME NEW k \in 1 .. n
      PROVE  buffer'[c][SlotAt(Cursor(c), k)] = buffer[c][SlotAt(Cursor(c), k)]
  <2>1. k \in 1 .. ChunkSize /\ n \in Nat
    BY PartIs
  <2>2. Cursor(c) \in Slots
    BY CursorInWindow DEF Invariant
  <2>3. /\ SlotAt(Cursor(c), k) \in Slots
        /\ Dist(Cursor(c), SlotAt(Cursor(c), k)) = k - 1
    BY <2>1, <2>2, SlotAtBasics
  <2>4. Dist(Cursor(c), SlotAt(Cursor(c), k)) < n
    BY <2>1, <2>3
  <2> QED BY <2>3, <2>4
<1>2. ChunkContents(c) = [k \in 1 .. n |-> buffer[c][SlotAt(Cursor(c), k)]]
  BY DEF ChunkContents, SlotAt
<1>3. ChunkContents(c)' = [k \in 1 .. n |-> buffer'[c][SlotAt(Cursor(c), k)]]
  BY DEF ChunkContents, SlotAt, Dist
<1> HIDE DEF n
<1> QED BY <1>1, <1>2, <1>3

\* So are the contents when every part is.
LEMMA ContentsStay ==
  ASSUME Invariant, Invariant', UNCHANGED headChunk,
         \A c \in Chunks : ChunkContents(c)' = ChunkContents(c)
  PROVE  Contents' = Contents
<1>1. headChunk \in Chunks
  BY Ranges DEF Invariant
<1>2. ASSUME NEW k \in 1 .. ChunkCount PROVE Row'[k] = Row[k]
  <2>1. PICK c \in Chunks : c = ChunkAt(k) /\ c = ChunkAt(k)'
    BY <1>1, ChunkAtBasics DEF ChunkAt
  <2>2. Row'[k] = ChunkContents(c)'
    BY <2>1, RowNext
  <2> QED BY <2>1, <2>2, RowIs
<1>3. Shifted(Row, Row', 0, ChunkCount)
  BY <1>2, ChunkCountAssumption DEF Shifted
<1> QED BY <1>3, ContentsShifted, ChunkCountAssumption

\* So is the abstract state, when nothing the parts depend on has changed.
LEMMA FifoStays ==
  ASSUME Invariant, Invariant', UNCHANGED <<out, headChunk, tail, buffer>>,
         \A c \in Chunks : Cursor(c)' = Cursor(c)
  PROVE  UNCHANGED Fifo!vars
<1>1. \A c \in Chunks : ChunkContents(c)' = ChunkContents(c)
  BY PartStays
<1> QED BY <1>1, ContentsStay DEF Fifo!vars

-----------------------------------------------------------------------------
(* Which parts are empty.                                                  *)

\* Where the consumer has left, and where the producer has not entered.
LEMMA EmptyPart ==
  ASSUME Invariant, NEW c \in Chunks,
         \/ Ahead(c) < Ahead(Consuming)
         \/ Ahead(c) > Ahead(tailChunk) /\ ~(pPc = "publishChunk" /\ c = tc)
  PROVE  ChunkContents(c) = <<>>
<1>a. TypeOK /\ Window /\ ConsumerFrame /\ Left /\ Unentered
  BY DEF Invariant
<1>1. /\ Cursor(c) \in Slots /\ tail[c] \in Slots
      /\ Off(c, Cursor(c)) \in Nat /\ Off(c, head[c]) \in Nat /\ Off(c, tail[c]) \in Nat
      /\ Off(c, headSeen[c]) \in Nat /\ Off(c, tailSeen[c]) \in Nat
      /\ Off(c, headSeen[c]) <= Off(c, head[c]) /\ Off(c, head[c]) <= Off(c, Cursor(c))
      /\ Off(c, Cursor(c)) <= Off(c, tailSeen[c]) /\ Off(c, tailSeen[c]) <= Off(c, tail[c])
  <2>1. /\ Cursor(c) \in Slots /\ Off(c, Cursor(c)) \in Nat
        /\ Off(c, head[c]) <= Off(c, Cursor(c))
        /\ Off(c, Cursor(c)) <= Off(c, tailSeen[c])
    BY <1>a, CursorInWindow
  <2> QED BY <1>a, <2>1, InWindow
<1>2. head[c] = tail[c] \/ headSeen[c] = tail[c]
  BY <1>a DEF Left, Unentered
<1>3. Off(c, Cursor(c)) = Off(c, tail[c])
  BY <1>1, <1>2
<1>4. Cursor(c) = tail[c]
  BY <1>a, <1>1, <1>3, OffTells
<1>5. Dist(Cursor(c), tail[c]) = 0
  BY <1>1, <1>4, DistBasics
<1>6. ChunkContents(c) \in Seq(Elem) /\ Len(ChunkContents(c)) = 0
  BY <1>5, PartIs
<1> QED BY <1>6, EmptySeq

\* The chunks between the consumer's and the one it goes on to are empty.
LEMMA EmptyInFront ==
  ASSUME Invariant, NEW c \in Chunks,
         ChunkDist(headChunk, c) < ChunkDist(headChunk, Consuming)
  PROVE  ChunkContents(c) = <<>>
<1>a. TypeOK /\ Order
  BY DEF Invariant
<1>r. headChunk \in Chunks /\ Consuming \in Chunks /\ headChunkSeen \in Chunks
  BY <1>a, Ranges
<1>1. /\ Ahead(headChunk) \in Nat /\ Ahead(Consuming) \in Nat /\ Ahead(c) \in Nat
      /\ Ahead(headChunk) <= Ahead(Consuming)
  BY <1>a, <1>r, AheadRanges DEF Order
<1>2. /\ ChunkDist(headChunk, Consuming) = Ahead(Consuming) - Ahead(headChunk)
      /\ Ahead(headChunk) <= Ahead(c) =>
           ChunkDist(headChunk, c) = Ahead(c) - Ahead(headChunk)
  BY <1>r, <1>1, ChunkDistBasics DEF Ahead
<1>3. Ahead(c) < Ahead(Consuming)
  BY <1>1, <1>2
<1> QED BY <1>3, EmptyPart

\* Those after the producer's are empty too.
LEMMA EmptyBehind ==
  ASSUME Invariant, NEW c \in Chunks,
         ChunkDist(headChunk, c) > ChunkDist(headChunk, tc)
  PROVE  ChunkContents(c) = <<>>
<1>a. TypeOK /\ Order
  BY DEF Invariant
<1>r. headChunk \in Chunks /\ Consuming \in Chunks /\ headChunkSeen \in Chunks
      /\ tc \in Chunks /\ tailChunk \in Chunks /\ tailChunkSeen \in Chunks
  BY <1>a, Ranges
<1>1. /\ Ahead(headChunk) \in Nat /\ Ahead(Consuming) \in Nat /\ Ahead(c) \in Nat
      /\ Ahead(tc) \in Nat /\ Ahead(tailChunk) \in Nat /\ Ahead(tailChunkSeen) \in Nat
      /\ Ahead(headChunk) <= Ahead(Consuming) /\ Ahead(Consuming) <= Ahead(tailChunkSeen)
      /\ Ahead(tailChunkSeen) <= Ahead(tailChunk) /\ Ahead(tailChunk) <= Ahead(tc)
  BY <1>a, <1>r, AheadRanges DEF Order
<1>2. /\ ChunkDist(headChunk, tc) = Ahead(tc) - Ahead(headChunk)
      /\ Ahead(headChunk) <= Ahead(c) =>
           ChunkDist(headChunk, c) = Ahead(c) - Ahead(headChunk)
  <2>1. Ahead(headChunk) <= Ahead(tc)
    BY <1>1
  <2> QED BY <1>r, <1>1, <2>1, ChunkDistBasics DEF Ahead
<1>3. Ahead(c) < Ahead(Consuming) \/ (Ahead(c) > Ahead(tailChunk) /\ c # tc)
  BY <1>1, <1>2
<1> QED BY <1>3, EmptyPart

\* Where chunk c is in the row.
LEMMA PlaceInRow ==
  ASSUME Invariant, NEW c \in Chunks, NEW d, d = ChunkDist(headChunk, c) + 1
  PROVE  /\ d \in 1 .. ChunkCount /\ Row[d] = ChunkContents(c) /\ ChunkAt(d) = c
         /\ \A k \in 1 .. ChunkCount :
              /\ ChunkAt(k) \in Chunks /\ Row[k] = ChunkContents(ChunkAt(k))
              /\ ChunkDist(headChunk, ChunkAt(k)) = k - 1
              /\ k # d => ChunkAt(k) # c
<1>1. headChunk \in Chunks
  BY Ranges DEF Invariant
<1>2. ChunkDist(headChunk, c) \in Nat /\ ChunkDist(headChunk, c) <= ChunkCount - 1
  BY <1>1, ChunkDistBasics
<1>3. d \in 1 .. ChunkCount /\ d - 1 = ChunkDist(headChunk, c)
  BY <1>2, ChunkCountAssumption
<1>4. ChunkAt(d) = c
  BY <1>1, <1>3, ChunkAtBasics
<1>5. ASSUME NEW k \in 1 .. ChunkCount
      PROVE  /\ ChunkAt(k) \in Chunks /\ Row[k] = ChunkContents(ChunkAt(k))
             /\ ChunkDist(headChunk, ChunkAt(k)) = k - 1
             /\ k # d => ChunkAt(k) # c
  <2>1. ChunkAt(k) \in Chunks /\ ChunkDist(headChunk, ChunkAt(k)) = k - 1
    BY <1>1, ChunkAtBasics
  <2>2. Row[k] = ChunkContents(ChunkAt(k))
    BY RowIs
  <2>3. k # d => ChunkAt(k) # c
    BY <1>3, <2>1
  <2> QED BY <2>1, <2>2, <2>3
<1> QED BY <1>3, <1>4, <1>5

\* The next row, while the consumer keeps its chunk and the other parts are the
\* same.
LEMMA RowKept ==
  ASSUME Invariant, UNCHANGED headChunk, NEW c \in Chunks,
         NEW d, d = ChunkDist(headChunk, c) + 1,
         \A b \in Chunks : b # c => ChunkContents(b)' = ChunkContents(b)
  PROVE  /\ Row'[d] = ChunkContents(c)'
         /\ \A k \in 1 .. ChunkCount : k # d => Row'[k] = Row[k]
<1>1. \A k \in 1 .. ChunkCount : ChunkAt(k)' = ChunkAt(k)
  BY DEF ChunkAt
<1>2. d \in 1 .. ChunkCount /\ c = ChunkAt(d)'
  BY <1>1, PlaceInRow
<1>3. Row'[d] = ChunkContents(c)'
  BY <1>2, RowNext
<1>4. ASSUME NEW k \in 1 .. ChunkCount, k # d PROVE Row'[k] = Row[k]
  <2>1. PICK b \in Chunks : b = ChunkAt(k) /\ b = ChunkAt(k)' /\ b # c
    BY <1>1, <1>4, PlaceInRow
  <2>2. Row'[k] = ChunkContents(b)'
    BY <2>1, RowNext
  <2> QED BY <2>1, <2>2, PlaceInRow
<1> QED BY <1>3, <1>4

-----------------------------------------------------------------------------
(* The steps that change the contents.                                     *)

\* The parts, slot by slot.
PartsAre ==
  \A c \in Chunks :
    /\ ChunkContents(c) \in Seq(Elem)
    /\ Len(ChunkContents(c)) = Dist(Cursor(c), tail[c])
    /\ \A k \in 1 .. Dist(Cursor(c), tail[c]) :
         ChunkContents(c)[k] = buffer[c][SlotAt(Cursor(c), k)]

LEMMA PartsFine ==
  ASSUME Invariant
  PROVE  PartsAre
BY PartIs DEF PartsAre

\* An element behind a sequence.
LEMMA AppendedBehind ==
  ASSUME NEW s \in Seq(Elem), NEW e \in Elem
  PROVE  /\ Append(s, e) \in Seq(Elem) /\ Len(Append(s, e)) = Len(s) + 1
         /\ SubSeq(Append(s, e), 1, Len(s)) = s
<1>1. /\ Append(s, e) \in Seq(Elem) /\ Len(Append(s, e)) = Len(s) + 1 /\ Len(s) \in Nat
      /\ \A k \in 1 .. Len(s) : Append(s, e)[k] = s[k]
  BY AppendProperties
<1> DEFINE r == SubSeq(Append(s, e), 1, Len(s))
<1>2. r \in Seq(Elem) /\ Len(r) = Len(s) /\ \A k \in 1 .. Len(s) : r[k] = s[k]
  BY <1>1
<1> HIDE DEF r
<1>3. r = s
  BY <1>2, SeqEqual
<1> QED BY <1>1, <1>3 DEF r

\* A sequence that goes one element beyond another is that one, appended to.
LEMMA AppendIs ==
  ASSUME NEW s \in Seq(Elem), NEW r \in Seq(Elem), Len(r) = Len(s) + 1,
         \A k \in 1 .. Len(s) : r[k] = s[k]
  PROVE  r[Len(s) + 1] \in Elem /\ r = Append(s, r[Len(s) + 1])
<1>1. Len(s) \in Nat /\ r[Len(s) + 1] \in Elem
  OBVIOUS
<1> DEFINE e == r[Len(s) + 1]
           q == Append(s, e)
<1>2. /\ q \in Seq(Elem) /\ Len(q) = Len(s) + 1 /\ q[Len(s) + 1] = e
      /\ \A k \in 1 .. Len(s) : q[k] = s[k]
  BY <1>1, AppendProperties
<1> HIDE DEF q
<1>3. \A k \in 1 .. Len(r) : r[k] = q[k]
  BY <1>1, <1>2
<1>4. r = q
  BY <1>2, <1>3, SeqEqual
<1> QED BY <1>1, <1>4 DEF q

\* The chunk's part grows by the element that was constructed.
LEMMA PartGrows ==
  ASSUME Invariant, Invariant', PublishTail
  PROVE  \E e \in Elem : ChunkContents(tc)' = Append(ChunkContents(tc), e)
<1>a. TypeOK /\ Window /\ ProducerFrame /\ ConsumerFrame
  BY DEF Invariant
<1>r. tc \in Chunks /\ tail \in [Chunks -> Slots] /\ tail[tc] \in Slots
  BY <1>a, Ranges
<1>s. /\ tail' = [tail EXCEPT ![tc] = Next1(tail[tc])] /\ pPc = "publish"
      /\ UNCHANGED <<head, buffer, tc, hc, cPc, h>>
  BY DEF PublishTail, StoreTail, consumer
<1>1. Cursor(tc)' = Cursor(tc) /\ tail'[tc] = Next1(tail[tc]) /\ Cursor(tc) \in Slots
  BY <1>a, <1>r, <1>s, CursorInWindow DEF Cursor
<1> DEFINE n == Dist(Cursor(tc), tail[tc])
           s == ChunkContents(tc)
           r == ChunkContents(tc)'
<1>2. /\ s \in Seq(Elem) /\ Len(s) = n /\ n \in Nat
      /\ \A k \in 1 .. n : s[k] = buffer[tc][SlotAt(Cursor(tc), k)]
  BY <1>r, PartIs
<1>3. n < ChunkSize - 1
  <2>1. Off(tc, tail[tc]) < ChunkSize - 1
    BY <1>a, <1>s DEF ProducerFrame
  <2>2. /\ Dist(Cursor(tc), tail[tc]) = Off(tc, tail[tc]) - Off(tc, Cursor(tc))
        /\ Off(tc, Cursor(tc)) \in Nat /\ Off(tc, tail[tc]) \in Nat
    BY <1>a, <1>r, CursorInWindow, InWindow
  <2> QED BY <2>1, <2>2, ChunkSizeAssumption
<1>4. Dist(Cursor(tc)', tail'[tc]) = n + 1
  <2>1. Dist(Cursor(tc), Next1(tail[tc])) = n + 1
    BY <1>1, <1>3, <1>r, NextBasics
  <2> QED BY <1>1, <2>1
<1>5. /\ r \in Seq(Elem) /\ Len(r) = n + 1
      /\ \A k \in 1 .. n + 1 : r[k] = buffer[tc][SlotAt(Cursor(tc), k)]
  <2>1. PartsAre'
    BY PartsFine, PTL
  <2>2. /\ ChunkContents(tc)' \in Seq(Elem)
        /\ Len(ChunkContents(tc)') = Dist(Cursor(tc)', tail'[tc])
        /\ \A k \in 1 .. Dist(Cursor(tc)', tail'[tc]) :
             ChunkContents(tc)'[k] = buffer'[tc][SlotAt(Cursor(tc)', k)]
    BY <2>1, <1>r, <1>s DEF PartsAre
  <2> QED BY <2>2, <1>1, <1>4, <1>r, <1>s
<1> HIDE DEF n, s, r
<1>6. \A k \in 1 .. Len(s) : r[k] = s[k]
  BY <1>2, <1>5
<1>7. r[Len(s) + 1] \in Elem /\ r = Append(s, r[Len(s) + 1])
  BY <1>2, <1>5, <1>6, AppendIs
<1> QED BY <1>7 DEF r, s

\* Publication appends one element.
LEMMA PublishTailEnqueues ==
  ASSUME Invariant, Invariant', PublishTail
  PROVE  Fifo!Enqueue
<1>a. TypeOK /\ Window /\ ProducerFrame /\ ConsumerFrame
  BY DEF Invariant
<1>r. tc \in Chunks /\ tail \in [Chunks -> Slots] /\ tail[tc] \in Slots /\ headChunk \in Chunks
  BY <1>a, Ranges
<1>s. /\ tail' = [tail EXCEPT ![tc] = Next1(tail[tc])] /\ pPc = "publish"
      /\ UNCHANGED <<head, headChunk, buffer, tc, hc, cPc, h, out>>
  BY DEF PublishTail, StoreTail, consumer
<1>0. PICK c \in Chunks : c = tc /\ c = tc'
  BY <1>r, <1>s
<1>1. PICK e \in Elem : ChunkContents(c)' = Append(ChunkContents(c), e)
  BY <1>0, PartGrows DEF ChunkContents, Cursor, Dist
<1>2. \A b \in Chunks : b # c => ChunkContents(b)' = ChunkContents(b)
  <2> SUFFICES ASSUME NEW b \in Chunks, b # c PROVE ChunkContents(b)' = ChunkContents(b)
    OBVIOUS
  <2>1. Cursor(b)' = Cursor(b) /\ tail'[b] = tail[b] /\ buffer' = buffer
    BY <1>0, <1>r, <1>s DEF Cursor
  <2> QED BY <2>1, PartStays
<1> DEFINE d == ChunkDist(headChunk, c) + 1
<1>3. /\ d \in 1 .. ChunkCount /\ Row[d] = ChunkContents(c)
      /\ \A k \in 1 .. ChunkCount :
           /\ ChunkAt(k) \in Chunks /\ Row[k] = ChunkContents(ChunkAt(k))
           /\ ChunkDist(headChunk, ChunkAt(k)) = k - 1
  BY PlaceInRow
<1>4. Row'[d] = Append(Row[d], e) /\ \A k \in 1 .. ChunkCount : k # d => Row'[k] = Row[k]
  BY <1>1, <1>2, <1>3, <1>s, RowKept
<1>5. ASSUME NEW k \in d + 1 .. ChunkCount PROVE Row[k] = <<>>
  <2>1. k \in 1 .. ChunkCount /\ k - 1 > d - 1
    BY <1>3
  <2>2. PICK b \in Chunks : b = ChunkAt(k)
    BY <1>3, <2>1
  <2>3. ChunkDist(headChunk, b) > ChunkDist(headChunk, tc)
    <3>1. ChunkDist(headChunk, tc) = d - 1
      BY <1>0, <1>r, ChunkDistBasics
    <3> QED BY <1>3, <2>1, <2>2, <3>1
  <2>4. ChunkContents(b) = <<>>
    BY <2>3, EmptyBehind
  <2> QED BY <1>3, <2>1, <2>2, <2>4
<1> HIDE DEF d
<1>6. Contents' = Append(Contents, e)
  BY <1>3, <1>4, <1>5, ContentsAppended
<1>7. ContentsFine
  BY ContentsBounded
<1>8. ContentsFine'
  BY ContentsBounded, PTL
<1>9. /\ Contents \in Seq(Elem) /\ Len(Contents) \in Nat
      /\ Contents' \in Seq(Elem) /\ Len(Contents') = Len(Contents) + 1
      /\ SubSeq(Contents', 1, Len(Contents)) = Contents
      /\ Len(Contents') <= ChunkCount * (ChunkSize - 1)
  <2>1. Contents \in Seq(Elem) /\ Len(Contents) \in Nat
    BY <1>7 DEF ContentsFine
  <2>2. Len(Contents') <= ChunkCount * (ChunkSize - 1)
    BY <1>8 DEF ContentsFine
  <2> QED BY <1>6, <2>1, <2>2, AppendedBehind
<1>10. Len(Contents') \in Len(Contents) .. ChunkCount * (ChunkSize - 1)
  <2>1. ChunkCount * (ChunkSize - 1) \in Int
    BY ChunkCountAssumption, ChunkSizeAssumption
  <2> DEFINE m == ChunkCount * (ChunkSize - 1)
  <2> HIDE DEF m
  <2>2. Len(Contents') \in Len(Contents) .. m
    BY <1>9, <2>1 DEF m
  <2> QED BY <2>2 DEF m
<1> QED BY <1>9, <1>10, <1>s DEF Fifo!Enqueue

\* The slots that follow.
LEMMA SlotAtNext ==
  ASSUME NEW a \in Slots, NEW k \in 1 .. ChunkSize - 1
  PROVE  SlotAt(Next1(a), k) = SlotAt(a, k + 1) /\ SlotAt(a, k + 1) # a
         /\ SlotAt(a, k + 1) \in Slots
<1>1. k \in 1 .. ChunkSize /\ k + 1 \in 1 .. ChunkSize /\ (k + 1) - 1 = k
  BY ChunkSizeAssumption
<1>2. Next1(a) \in Slots
  BY NextBasics
<1>3. SlotAt(a, k + 1) \in Slots /\ Dist(a, SlotAt(a, k + 1)) = k /\ Dist(a, a) = 0
  BY <1>1, SlotAtBasics, DistBasics
<1>4. SlotAt(a, k + 1) # a
  BY <1>3
<1>5. Dist(Next1(a), SlotAt(a, k + 1)) = k - 1
  BY <1>2, <1>3, <1>4, ChunkSizeAssumption DEF Dist, Next1, Slots
<1>6. SlotAt(Next1(a), k) = SlotAt(a, k + 1)
  BY <1>1, <1>2, <1>3, <1>5, SlotAtBasics
<1> QED BY <1>3, <1>4, <1>6

\* A slot on is a slot less to go.
LEMMA DistFromNext ==
  ASSUME NEW a \in Slots, NEW b \in Slots, a # b
  PROVE  Dist(a, b) >= 1 /\ Dist(Next1(a), b) = Dist(a, b) - 1
BY ChunkSizeAssumption DEF Dist, Next1, Slots

\* The chunk's part loses its oldest element.
LEMMA PartShrinks ==
  ASSUME Invariant, Invariant', TakeElement, NEW c \in Chunks, c = hc, c = hc',
         Cursor(c) = h, Cursor(c)' = Next1(h), UNCHANGED tail, h # tail[c]
  PROVE  /\ ChunkContents(c) # <<>> /\ ChunkContents(c)' = Tail(ChunkContents(c))
         /\ out' = Head(ChunkContents(c))
<1>r. /\ h \in Slots /\ tail[c] \in Slots /\ buffer \in [Chunks -> [Slots -> Value]]
  BY Ranges DEF Invariant
<1> DEFINE n == Dist(h, tail[c])
           s == ChunkContents(c)
           r == ChunkContents(c)'
<1>1. /\ s \in Seq(Elem) /\ Len(s) = n /\ n \in Nat /\ n <= ChunkSize - 1
      /\ \A k \in 1 .. n : s[k] = buffer[c][SlotAt(h, k)]
  BY PartIs
<1>2. n >= 1 /\ Dist(Next1(h), tail[c]) = n - 1
  BY <1>r, DistFromNext
<1>3. /\ r \in Seq(Elem) /\ Len(r) = n - 1
      /\ \A k \in 1 .. n - 1 : r[k] = buffer'[c][SlotAt(Next1(h), k)]
  <2>1. PartsAre'
    BY PartsFine, PTL
  <2>2. /\ ChunkContents(c)' \in Seq(Elem)
        /\ Len(ChunkContents(c)') = Dist(Cursor(c)', tail'[c])
        /\ \A k \in 1 .. Dist(Cursor(c)', tail'[c]) :
             ChunkContents(c)'[k] = buffer'[c][SlotAt(Cursor(c)', k)]
    BY <2>1 DEF PartsAre
  <2> QED BY <1>2, <2>2
<1> HIDE DEF n, s, r
<1>4. s # <<>> /\ out' = Head(s)
  <2>1. SlotAt(h, 1) = h
    <3>1. 1 \in 1 .. ChunkSize /\ Dist(h, h) = 1 - 1
      BY <1>r, DistBasics, ChunkSizeAssumption
    <3> QED BY <1>r, <3>1, SlotAtBasics
  <2>2. 1 \in 1 .. n
    BY <1>1, <1>2
  <2>3. s[1] = buffer[c][h]
    BY <1>1, <2>1, <2>2
  <2>4. s # <<>> /\ Head(s) = s[1]
    BY <1>1, <1>2
  <2> QED BY <2>3, <2>4 DEF TakeElement
<1>5. /\ Tail(s) \in Seq(Elem) /\ Len(Tail(s)) = n - 1
      /\ \A k \in 1 .. n - 1 : Tail(s)[k] = s[k + 1]
  BY <1>1, <1>4, HeadTailProperties
<1>6. ASSUME NEW k \in 1 .. n - 1 PROVE r[k] = s[k + 1]
  <2>1. k \in 1 .. ChunkSize - 1 /\ k + 1 \in 1 .. n
    BY <1>1, ChunkSizeAssumption
  <2>2. /\ SlotAt(Next1(h), k) = SlotAt(h, k + 1) /\ SlotAt(h, k + 1) # h
        /\ SlotAt(h, k + 1) \in Slots
    BY <1>r, <2>1, SlotAtNext
  <2>3. buffer'[c][SlotAt(h, k + 1)] = buffer[c][SlotAt(h, k + 1)]
    BY <1>r, <2>2 DEF TakeElement
  <2> QED BY <1>1, <1>3, <2>1, <2>2, <2>3
<1>7. r = Tail(s)
  BY <1>3, <1>5, <1>6, SeqEqual
<1> QED BY <1>4, <1>7 DEF s, r

\* Taking hands over the oldest element.
LEMMA TakeDequeues ==
  ASSUME Invariant, Invariant', TakeElement, UNCHANGED <<tail, head, headChunk, hc>>,
         \/ cPc = "take" /\ cPc' = "release"
         \/ cPc = "drain" /\ cPc' = "drain" /\ h # t
  PROVE  Fifo!Dequeue
<1>a. TypeOK /\ Window /\ ConsumerFrame
  BY DEF Invariant
<1>r. /\ hc \in Chunks /\ h \in Slots /\ headChunk \in Chunks /\ tail[hc] \in Slots
      /\ head[hc] \in Slots /\ tailSeen[hc] \in Slots
      /\ buffer \in [Chunks -> [Slots -> Value]]
  BY <1>a, Ranges
<1>0. PICK c \in Chunks : c = hc /\ c = hc'
  BY <1>r
<1>1. Cursor(c) = h /\ Cursor(c)' = Next1(h) /\ Consuming = c
  BY <1>0, <1>a DEF Cursor, TakeElement, Consuming, ConsumerFrame
<1>2. h # tail[c]
  <2>1. Dist(head[hc], h) < Dist(head[hc], tailSeen[hc])
    BY TakerHandedOver
  <2>2. /\ Off(hc, head[hc]) <= Off(hc, h) /\ Off(hc, h) \in Nat
        /\ Off(hc, head[hc]) \in Nat /\ Off(hc, tailSeen[hc]) \in Nat
        /\ Off(hc, tail[hc]) \in Nat /\ Off(hc, head[hc]) <= Off(hc, tailSeen[hc])
        /\ Off(hc, tailSeen[hc]) <= Off(hc, tail[hc])
    BY <1>0, <1>1, <1>a, <1>r, CursorInWindow, InWindow
  <2>3. /\ Dist(head[hc], h) = Off(hc, h) - Off(hc, head[hc])
        /\ Dist(head[hc], tailSeen[hc]) = Off(hc, tailSeen[hc]) - Off(hc, head[hc])
    BY <1>a, <1>r, <2>2, OffTells
  <2>4. Off(hc, h) < Off(hc, tail[hc])
    BY <2>1, <2>2, <2>3
  <2> QED BY <1>0, <2>2, <2>4
<1>3. /\ ChunkContents(c) # <<>> /\ ChunkContents(c)' = Tail(ChunkContents(c))
      /\ out' = Head(ChunkContents(c))
  BY <1>0, <1>1, <1>2, PartShrinks
<1>4. \A b \in Chunks : b # c => ChunkContents(b)' = ChunkContents(b)
  <2> SUFFICES ASSUME NEW b \in Chunks, b # c PROVE ChunkContents(b)' = ChunkContents(b)
    OBVIOUS
  <2>1. Cursor(b)' = Cursor(b) /\ tail'[b] = tail[b]
    BY <1>0 DEF Cursor
  <2>2. \A i \in Slots : buffer'[b][i] = buffer[b][i]
    BY <1>0, <1>r DEF TakeElement
  <2> QED BY <2>1, <2>2, PartStays
<1> DEFINE d == ChunkDist(headChunk, c) + 1
<1>5. /\ d \in 1 .. ChunkCount /\ Row[d] = ChunkContents(c)
      /\ \A k \in 1 .. ChunkCount :
           /\ ChunkAt(k) \in Chunks /\ Row[k] = ChunkContents(ChunkAt(k))
           /\ ChunkDist(headChunk, ChunkAt(k)) = k - 1
  BY PlaceInRow
<1>6. Row'[d] = Tail(Row[d]) /\ \A k \in 1 .. ChunkCount : k # d => Row'[k] = Row[k]
  BY <1>3, <1>4, <1>5, RowKept
<1>d. ChunkDist(headChunk, Consuming) = d - 1
  BY <1>1, <1>r, ChunkDistBasics
<1> HIDE DEF d
<1>7. ASSUME NEW k \in 1 .. d - 1 PROVE Row[k] = <<>>
  <2>1. k \in 1 .. ChunkCount /\ k - 1 < d - 1
    <3>1. d \in 1 .. ChunkCount
      BY <1>5
    <3> QED BY <3>1, ChunkCountAssumption
  <2>2. PICK b \in Chunks : b = ChunkAt(k)
    BY <1>5, <2>1
  <2>3. ChunkDist(headChunk, b) < ChunkDist(headChunk, Consuming)
    BY <1>5, <1>d, <2>1, <2>2
  <2>4. ChunkContents(b) = <<>>
    BY <2>3, EmptyInFront
  <2> QED BY <1>5, <2>1, <2>2, <2>4
<1>8. Contents # <<>> /\ Head(Contents) = Head(Row[d]) /\ Contents' = Tail(Contents)
  BY <1>3, <1>5, <1>6, <1>7, ContentsTaken
<1> QED BY <1>3, <1>5, <1>8 DEF Fifo!Dequeue

\* The consumer's chunk moves on over empty ones.
LEMMA ReleaseChunkKeeps ==
  ASSUME Invariant, Invariant', ReleaseChunk
  PROVE  UNCHANGED Fifo!vars
<1>s. /\ headChunk' = hc /\ cPc = "releaseChunk" /\ cPc' = "idle" /\ Consuming = hc
      /\ UNCHANGED <<tail, head, buffer, out>>
  BY DEF ReleaseChunk, StoreHeadChunk, Consuming
<1>r. hc \in Chunks /\ headChunk \in Chunks
  BY Ranges DEF Invariant
<1>1. \A c \in Chunks : Cursor(c)' = Cursor(c)
  BY <1>s DEF Cursor
<1>2. \A c \in Chunks : ChunkContents(c)' = ChunkContents(c)
  BY <1>1, <1>s, PartStays
<1> DEFINE m == ChunkDist(headChunk, hc)
<1>3. m \in Nat /\ m <= ChunkCount - 1 /\ ChunkCount \in Nat
  BY <1>r, ChunkDistBasics, ChunkCountAssumption
<1>4. ASSUME NEW c \in Chunks, ChunkDist(headChunk, c) < m PROVE ChunkContents(c) = <<>>
  BY <1>4, <1>s, EmptyInFront
<1>5. ASSUME NEW k \in 1 .. ChunkCount
      PROVE  \E c \in Chunks : /\ Row[k] = ChunkContents(c)
                               /\ ChunkDist(headChunk, c) = k - 1
  BY <1>r, ChunkAtBasics, RowIs
<1>6. ASSUME NEW k \in 1 .. ChunkCount
      PROVE  \E c \in Chunks : Row'[k] = ChunkContents(c) /\ ChunkDist(hc, c) = k - 1
  <2>1. ChunkAt(k)' = (hc + k - 1) % ChunkCount
    BY <1>s DEF ChunkAt
  <2>2. ChunkAt(k)' \in Chunks /\ ChunkDist(hc, ChunkAt(k)') = k - 1
    <3>1. ChunkAt(k)' = IF hc + k - 1 < ChunkCount THEN hc + k - 1
                        ELSE hc + k - 1 - ChunkCount
      BY <1>r, <2>1, ChunkCountAssumption, ModOnce DEF Chunks
    <3> QED BY <1>r, <3>1, ChunkCountAssumption DEF Chunks, ChunkDist
  <2>3. PICK c \in Chunks : c = ChunkAt(k)'
    BY <2>2
  <2>4. Row'[k] = ChunkContents(c)'
    BY <2>3, RowNext
  <2> QED BY <1>2, <2>2, <2>3, <2>4
<1>7. ASSUME NEW c \in Chunks
      PROVE  /\ ChunkDist(headChunk, c) \in Nat /\ ChunkDist(headChunk, c) <= ChunkCount - 1
             /\ m <= ChunkDist(headChunk, c) => ChunkDist(hc, c) = ChunkDist(headChunk, c) - m
  BY <1>r, ChunkDistBasics
<1>8. \A b, c \in Chunks : ChunkDist(hc, b) = ChunkDist(hc, c) => b = c
  BY <1>r, ChunkDistBasics
<1> HIDE DEF m
<1>9. \A k \in 1 .. m : Row[k] = <<>>
  <2> TAKE k \in 1 .. m
  <2>1. k \in 1 .. ChunkCount
    BY <1>3
  <2>2. PICK c \in Chunks : Row[k] = ChunkContents(c) /\ ChunkDist(headChunk, c) = k - 1
    BY <1>5, <2>1
  <2>3. ChunkDist(headChunk, c) < m
    BY <1>3, <2>2
  <2> QED BY <1>4, <2>2, <2>3
<1>10. \A k \in 1 .. ChunkCount - m : Row'[k] = Row[k + m]
  <2> TAKE k \in 1 .. ChunkCount - m
  <2>1. k \in 1 .. ChunkCount /\ k + m \in 1 .. ChunkCount
    BY <1>3
  <2>2. PICK b \in Chunks : Row'[k] = ChunkContents(b) /\ ChunkDist(hc, b) = k - 1
    BY <1>6, <2>1
  <2>3. PICK c \in Chunks : /\ Row[k + m] = ChunkContents(c)
                            /\ ChunkDist(headChunk, c) = (k + m) - 1
    BY <1>5, <2>1
  <2>4. ChunkDist(hc, c) = k - 1
    BY <1>3, <1>7, <2>3
  <2>5. b = c
    BY <1>8, <2>2, <2>4
  <2> QED BY <2>2, <2>3, <2>5
<1>11. \A k \in ChunkCount - m + 1 .. ChunkCount : Row'[k] = <<>>
  <2> TAKE k \in ChunkCount - m + 1 .. ChunkCount
  <2>1. k \in 1 .. ChunkCount /\ k - 1 >= ChunkCount - m
    BY <1>3
  <2>2. PICK b \in Chunks : Row'[k] = ChunkContents(b) /\ ChunkDist(hc, b) = k - 1
    BY <1>6, <2>1
  <2>3. ChunkDist(headChunk, b) < m
    BY <1>3, <1>7, <2>1, <2>2
  <2> QED BY <1>4, <2>2, <2>3
<1>12. Shifted(Row, Row', m, ChunkCount)
  BY <1>9, <1>10, <1>11 DEF Shifted
<1>13. Contents' = Contents
  BY <1>3, <1>12, ContentsShifted
<1> QED BY <1>13, <1>s DEF Fifo!vars

-----------------------------------------------------------------------------
(* The refinement.                                                         *)

\* The consumer's positions stay, seen from outside its copy of one.
LEMMA CursorStays ==
  ASSUME UNCHANGED head, {cPc, cPc'} \cap {"release", "drain"} = {}
  PROVE  \A c \in Chunks : Cursor(c)' = Cursor(c)
BY DEF Cursor

\* So they do when the copy is stored.
LEMMA CursorStored ==
  ASSUME Invariant, StoreHead(hc, h), cPc \in {"release", "drain"},
         cPc' \notin {"release", "drain"}
  PROVE  \A c \in Chunks : Cursor(c)' = Cursor(c)
<1>1. hc \in Chunks /\ head \in [Chunks -> Slots]
  BY Ranges DEF Invariant
<1>2. \A c \in Chunks : head'[c] = IF c = hc THEN h ELSE head[c]
  BY <1>1 DEF StoreHead
<1> QED BY <1>2 DEF Cursor

\* Every step is a step of the sequence, or leaves it alone.
LEMMA NextRefines ==
  ASSUME Invariant, Invariant', [Next]_vars
  PROVE  [Fifo!Next]_Fifo!vars
<1>1. CASE ProducerStep
  <2>1. CASE Construct
    <3>1. /\ buffer \in [Chunks -> [Slots -> Value]] /\ tc \in Chunks
          /\ UNCHANGED <<out, headChunk, tail, head, hc, h, cPc>>
      BY <2>1, Ranges DEF Invariant, Construct, shared, consumer
    <3>2. ASSUME NEW c \in Chunks PROVE ChunkContents(c)' = ChunkContents(c)
      <4>1. Cursor(c)' = Cursor(c) /\ tail'[c] = tail[c]
        BY <3>1 DEF Cursor
      <4>2. ASSUME NEW i \in Slots, Dist(Cursor(c), i) < Dist(Cursor(c), tail[c])
            PROVE  buffer'[c][i] = buffer[c][i]
        <5>1. c = tc => i # tail[c]
          <6>1. Dist(Cursor(c), tail[c]) \in Nat
            BY PartIs
          <6> QED BY <4>2, <6>1
        <5> QED BY <2>1, <3>1, <5>1 DEF Construct
      <4> QED BY <4>1, <4>2, PartStays
    <3> QED BY <3>1, <3>2, ContentsStay DEF Fifo!vars
  <2>2. CASE PublishTail
    BY <2>2, PublishTailEnqueues DEF Fifo!Next
  <2>3. CASE ~(Construct \/ PublishTail)
    <3>1. UNCHANGED <<out, headChunk, tail, buffer, head, hc, h, cPc>>
      BY <1>1, <2>3 DEF ProducerStep, Enqueue, ReloadHead, CrossToNext, RefreshHead, Throw,
         PublishChunk, StoreTailChunk, shared, consumer
    <3>2. \A c \in Chunks : Cursor(c)' = Cursor(c)
      BY <3>1 DEF Cursor
    <3> QED BY <3>1, <3>2, FifoStays
  <2> QED BY <2>1, <2>2, <2>3
<1>2. CASE ConsumerStep
  <2>1. CASE Take \/ DrainElement
    <3>1. /\ TakeElement /\ UNCHANGED <<tail, head, headChunk, hc>>
          /\ \/ cPc = "take" /\ cPc' = "release"
             \/ cPc = "drain" /\ cPc' = "drain" /\ h # t
      BY <2>1 DEF Take, DrainElement, shared
    <3> QED BY <3>1, TakeDequeues DEF Fifo!Next
  <2>2. CASE ReleaseChunk
    BY <2>2, ReleaseChunkKeeps
  <2>3. CASE ReleaseHead \/ DrainRelease
    <3>1. /\ UNCHANGED <<out, headChunk, tail, buffer>> /\ StoreHead(hc, h)
          /\ cPc \in {"release", "drain"} /\ cPc' \notin {"release", "drain"}
      BY <2>3 DEF ReleaseHead, DrainRelease, StoreHead
    <3> QED BY <3>1, CursorStored, FifoStays
  <2>4. CASE DrainChunk
    <3>1. /\ UNCHANGED <<out, headChunk, tail, buffer, head, hc>>
          /\ cPc = "drainChunk" /\ h' = head[hc]
      BY <2>4 DEF DrainChunk, shared
    <3>2. \A c \in Chunks : Cursor(c)' = Cursor(c)
      BY <3>1 DEF Cursor
    <3> QED BY <3>1, <3>2, FifoStays
  <2>5. CASE \/ Dequeue \/ Pop \/ LoadTailChunk \/ ReloadTail \/ EnterNext \/ Decline
             \/ ConsumeAll
    <3>1. /\ UNCHANGED <<out, headChunk, tail, buffer, head>>
          /\ {cPc, cPc'} \cap {"release", "drain"} = {}
      BY <2>5 DEF Dequeue, Pop, ReadChunk, LoadTailChunk, ReloadTail, EnterNext, Decline,
         ConsumeAll, shared
    <3> QED BY <3>1, CursorStays, FifoStays
  <2> QED BY <1>2, <2>1, <2>2, <2>3, <2>4, <2>5 DEF ConsumerStep
<1>3. CASE IsEmpty \/ ChunkIsEmpty
  <2>1. /\ UNCHANGED <<out, headChunk, tail, buffer, head>>
        /\ {cPc, cPc'} \cap {"release", "drain"} = {}
    BY <1>3 DEF IsEmpty, ChunkIsEmpty, shared
  <2> QED BY <2>1, CursorStays, FifoStays
<1>4. CASE PropagateTail \/ PropagateHead \/ UNCHANGED vars
  <2>1. UNCHANGED <<out, headChunk, tail, buffer, head, hc, h, cPc>>
    BY <1>4 DEF PropagateTail, PropagateHead, vars, consumer
  <2>2. \A c \in Chunks : Cursor(c)' = Cursor(c)
    BY <2>1 DEF Cursor
  <2> QED BY <2>1, <2>2, FifoStays
<1> QED BY <1>1, <1>2, <1>3, <1>4 DEF Next

\* Of every class, with chunks of every size and number, the queue passes its
\* elements on as a bounded first-in first-out sequence does: none is lost,
\* repeated or reordered, within a chunk or from one to the next.
THEOREM ImplementsFifo ==
  ASSUME KeepToOne
  PROVE  Spec => FifoSpec
<1>1. Init => Fifo!Init
  <2> SUFFICES ASSUME Init PROVE Fifo!Init
    OBVIOUS
  <2>1. Invariant
    BY InitInvariant
  <2>2. ContentsFine
    BY <2>1, ContentsBounded
  <2> QED BY <2>2 DEF ContentsFine, Fifo!Init, Fifo!TypeOK
<1>2. Invariant /\ Invariant' /\ [Next]_vars => [Fifo!Next]_Fifo!vars
  BY NextRefines
<1> QED BY <1>1, <1>2, InvariantHolds, PTL DEF Spec, FifoSpec, Fifo!Spec
=============================================================================
