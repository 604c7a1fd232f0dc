--------------------------- MODULE SpscQueueProofs ---------------------------
(***************************************************************************)
(* Theorems about SpscQueue, for every queue size, word width, element set *)
(* and choice of client calls.  The only calls left out are those that     *)
(* discard after is_empty() alone, for which the theorems are false (run   *)
(* spsc_unpeeked).                                                         *)
(*                                                                         *)
(* First the safety of the two threads and of the elements.  Then what the *)
(* calls return: counts that are computed from indices that wrap are the   *)
(* number of elements passed, a short batch means a full queue, and        *)
(* is_full() and is_empty() keep their word although the calls after them  *)
(* begin with stale caches.                                                *)
(*                                                                         *)
(* Last, that the queue is a first-in first-out queue of Size - 1          *)
(* elements: every step is a step of BoundedFifo on Contents or leaves it  *)
(* alone.  Two operations are left out there because it is false with      *)
(* them: discard after is_empty() alone, and read, which hands over        *)
(* nothing.                                                                *)
(***************************************************************************)
EXTENDS SpscQueue, RingProofs, SequenceTheorems

-----------------------------------------------------------------------------
(* Index arithmetic.                                                       *)

\* _next with an increment advances by the increment, as long as it does not
\* pass the origin.
LEMMA NextByBasics ==
  ASSUME NEW a \in Slots, NEW b \in Slots, NEW n \in Nat,
         Dist(a, b) + n < Size
  PROVE  NextBy(b, n) \in Slots /\ Dist(a, NextBy(b, n)) = Dist(a, b) + n
BY SizeAssumption DEF Slots, Dist, NextBy

\* The unsigned subtractions and their corrections compute what is meant.
LEMMA RoomBasics ==
  ASSUME NEW h \in Slots, NEW t \in Slots
  PROVE  /\ Free(h, t) = Size - Dist(h, t)
         /\ Filled(h, t) = Dist(h, t)
BY SizeAssumption, WordAssumption DEF Slots, Dist, Free, Filled, Sub, Add

\* The signed difference consume_all returns.
LEMMA DrainBasics ==
  ASSUME cHead \in Slots, head \in Slots
  PROVE  DrainCount = Dist(head, cHead)
BY SizeAssumption DEF Slots, Dist, DrainCount

-----------------------------------------------------------------------------
(* Facts every step uses.                                                  *)

\* All indices are slots.
LEMMA Ranges ==
  ASSUME TypeOK
  PROVE  /\ tail \in Slots /\ headCache \in Slots /\ head \in Slots
         /\ tailCache \in Slots /\ tailSeen \in Slots /\ headSeen \in Slots
         /\ pTail \in Slots /\ pGoal \in Slots
         /\ cHead \in Slots /\ cGoal \in Slots
BY DEF TypeOK

\* Loading the head moves the origin of all offsets up to headSeen, which
\* none of the other indices is behind.
LEMMA ReloadMovesOrigin ==
  ASSUME TypeOK, Window, ConsumerFrame, headCache' = headSeen,
         UNCHANGED <<headSeen, consumerLine, tail, tailSeen, pTail, consumer>>
  PROVE  /\ Window'
         /\ ConsumerFrame'
         /\ Offset(pTail)' = Offset(pTail) - Offset(headSeen)
<1> USE DEF consumerLine, consumer
<1>1. \A i \in Slots : Offset(headSeen) <= Offset(i) =>
        Dist(headSeen, i) = Offset(i) - Offset(headSeen)
  BY Ranges, DistBasics DEF Offset
<1>2. /\ Offset(headSeen) \in Nat /\ Offset(head) \in Nat
      /\ Offset(cHead) \in Nat /\ Offset(tailCache) \in Nat
      /\ Offset(tailSeen) \in Nat /\ Offset(tail) \in Nat
      /\ Offset(pTail) \in Nat /\ Offset(cGoal) \in Nat
  BY Ranges, DistBasics DEF Offset, Slots
<1>3. /\ Offset(headSeen) <= Offset(head)
      /\ Offset(headSeen) <= Offset(cHead)
      /\ Offset(headSeen) <= Offset(tailCache)
      /\ Offset(headSeen) <= Offset(tailSeen)
      /\ Offset(headSeen) <= Offset(tail)
      /\ Offset(headSeen) <= Offset(pTail)
  BY <1>2 DEF Window
<1>4. /\ Offset(headSeen)' = 0
      /\ Offset(head)' = Offset(head) - Offset(headSeen)
      /\ Offset(cHead)' = Offset(cHead) - Offset(headSeen)
      /\ Offset(tailCache)' = Offset(tailCache) - Offset(headSeen)
      /\ Offset(tailSeen)' = Offset(tailSeen) - Offset(headSeen)
      /\ Offset(tail)' = Offset(tail) - Offset(headSeen)
      /\ Offset(pTail)' = Offset(pTail) - Offset(headSeen)
  BY <1>1, <1>3, Ranges, DistBasics DEF Offset
<1>5. Window'
  BY <1>2, <1>3, <1>4 DEF Window
<1>6. cPc \in {"drain", "copy"} =>
        Offset(cGoal)' = Offset(cGoal) - Offset(headSeen)
  <2>1. cPc \in {"drain", "copy"} => Offset(headSeen) <= Offset(cGoal)
    BY <1>2, <1>3 DEF ConsumerFrame
  <2> QED BY <1>1, <2>1, Ranges DEF Offset
<1>7. ConsumerFrame'
  <2>1. cPc' = "drain" => /\ Offset(cHead)' <= Offset(cGoal)'
                          /\ Offset(cGoal)' <= Offset(tailCache)'
    BY <1>2, <1>4, <1>6 DEF ConsumerFrame
  <2>2. cPc' = "copy" => /\ Offset(cHead)' < Offset(cGoal)'
                         /\ Offset(cGoal)' <= Offset(tailCache)'
    BY <1>2, <1>4, <1>6 DEF ConsumerFrame
  <2> QED BY <2>1, <2>2 DEF ConsumerFrame
<1> QED BY <1>4, <1>5, <1>7

-----------------------------------------------------------------------------
(* The producer's steps.                                                   *)

\* One slot is granted only if the next index is not the cached head.
LEMMA StartOneStep ==
  ASSUME Invariant, NEW op \in OneOps, StartOne(op)
  PROVE  Invariant'
<1> USE DEF StartOne, producer, consumer, producerLine, consumerLine, seen
<1>a. TypeOK /\ Window /\ ProducerFrame /\ ConsumerFrame /\ LiveExactly
  BY DEF Invariant
<1>1. TypeOK'
  BY <1>a, NextBasics, WordAssumption, SizeAssumption DEF TypeOK, OneOps
<1>2. Window'
  BY <1>a DEF Window, Offset, ProducerFrame
<1>3. ProducerFrame'
  <2>1. Next1(tail) # headCache => Offset(tail) < Offset(Next1(tail))
    BY <1>a, Ranges, NextFits DEF Offset
  <2>2. pPc' = "fill" => Offset(pTail)' < Offset(pGoal)'
    BY <2>1 DEF Offset
  <2> QED BY <1>a, <2>2 DEF ProducerFrame, OneOps
<1>4. ConsumerFrame'
  BY <1>a DEF ConsumerFrame, Offset
<1>5. LiveExactly'
  BY <1>a DEF LiveExactly, ProducerFrame
<1> QED BY <1>1, <1>2, <1>3, <1>4, <1>5 DEF Invariant

\* The freshly loaded head moves the origin; the grant is tested against it.
LEMMA ReloadOneStep ==
  ASSUME Invariant, ReloadOne
  PROVE  Invariant'
<1> USE DEF ReloadOne, ProducerReturns, ProducerLeaves, producer, consumer,
            producerLine, consumerLine, seen
<1>a. TypeOK /\ Window /\ ProducerFrame /\ ConsumerFrame /\ LiveExactly
  BY DEF Invariant
<1>1. TypeOK'
  BY <1>a, WordAssumption, SizeAssumption DEF TypeOK, Slots
<1>2. Window' /\ ConsumerFrame'
  BY <1>a, ReloadMovesOrigin
<1>3. ProducerFrame'
  <2>1. pTail = tail /\ pGoal = Next1(tail)
    BY <1>a DEF ProducerFrame
  <2>2. Next1(tail) # headSeen =>
          Dist(headSeen, tail) < Dist(headSeen, Next1(tail))
    BY <1>a, Ranges, NextFits
  <2>3. pPc' = "fill" => Offset(pTail)' < Offset(pGoal)'
    BY <2>1, <2>2 DEF Offset
  <2> QED BY <1>a, <2>1, <2>3 DEF ProducerFrame, OneOps
<1>5. LiveExactly'
  BY <1>a DEF LiveExactly
<1> QED BY <1>1, <1>2, <1>3, <1>5 DEF Invariant

\* A grant that stays below the free space ends within the window.
LEMMA GrantEnds ==
  ASSUME NEW h \in Slots, NEW t \in Slots, NEW n \in Nat, n < Free(h, t)
  PROVE  NextBy(t, n) \in Slots /\ Dist(h, NextBy(t, n)) = Dist(h, t) + n
<1>1. Free(h, t) = Size - Dist(h, t) /\ Dist(h, t) \in Nat
  BY RoomBasics, DistBasics DEF Slots
<1>2. Dist(h, t) + n < Size
  BY <1>1, SizeAssumption
<1> QED BY <1>2, NextByBasics

\* A batch is granted at once only below the free space the cache shows.
LEMMA StartBulkStep ==
  ASSUME Invariant, NEW op \in BulkOps, NEW n \in Counts, StartBulk(op, n)
  PROVE  Invariant'
<1> USE DEF StartBulk, Grant, ProducerReturns, ProducerLeaves, producer,
            consumer, producerLine, consumerLine, seen
<1>a. TypeOK /\ Window /\ ProducerFrame /\ ConsumerFrame /\ LiveExactly
  BY DEF Invariant
<1>n. n \in Nat /\ n \in 0 .. Word - 1
  BY CountsAssumption, WordAssumption
<1>g. n < Free(headCache, tail) =>
        /\ NextBy(tail, n) \in Slots
        /\ Dist(headCache, NextBy(tail, n)) = Dist(headCache, tail) + n
  BY <1>a, <1>n, Ranges, GrantEnds
<1>1. TypeOK'
  BY <1>a, <1>n, <1>g, WordAssumption, SizeAssumption DEF TypeOK, BulkOps, Slots
<1>2. Window'
  BY <1>a DEF Window, Offset, ProducerFrame
<1>3. ProducerFrame'
  <2>1. pPc' = "fill" => Offset(pTail)' < Offset(pGoal)'
    BY <1>a, <1>n, <1>g, Ranges, DistBasics DEF Offset
  <2> QED BY <1>a, <2>1 DEF ProducerFrame, OneOps, BulkOps
<1>4. ConsumerFrame'
  BY <1>a DEF ConsumerFrame, Offset
<1>5. LiveExactly'
  BY <1>a DEF LiveExactly, ProducerFrame
<1> QED BY <1>1, <1>2, <1>3, <1>4, <1>5 DEF Invariant

\* The second look moves the origin; the grant is cut to what is then free.
LEMMA ReloadBulkStep ==
  ASSUME Invariant, ReloadBulk
  PROVE  Invariant'
<1> USE DEF ReloadBulk, Grant, ProducerReturns, ProducerLeaves, producer,
            consumer, producerLine, consumerLine, seen
<1>a. TypeOK /\ Window /\ ProducerFrame /\ ConsumerFrame /\ LiveExactly
  BY DEF Invariant
<1> DEFINE free == Free(headSeen, tail)
           n == IF pAsked >= free THEN free - 1 ELSE pAsked
<1>f. free \in 1 .. Size
  BY <1>a, Ranges, RoomBasics, DistRange, SizeAssumption
<1>n. n \in Nat /\ n < free /\ n \in 0 .. Word - 1
  BY <1>a, <1>f, SizeAssumption, WordAssumption DEF TypeOK
<1>g. /\ NextBy(tail, n) \in Slots
      /\ Dist(headSeen, NextBy(tail, n)) = Dist(headSeen, tail) + n
  BY <1>a, <1>n, Ranges, GrantEnds
<1>s. Grant(pOp, pAsked, n)
  BY DEF ReloadBulk
<1> HIDE DEF n, free, ReloadBulk
<1>1. TypeOK'
  BY <1>a, <1>n, <1>g, <1>s, WordAssumption, SizeAssumption
  DEF TypeOK, BulkOps, Slots, ReloadBulk
<1>2. Window' /\ ConsumerFrame'
  BY <1>a, ReloadMovesOrigin DEF ReloadBulk
<1>3. ProducerFrame'
  <2>1. pTail = tail /\ pTail' = tail
    BY <1>a DEF ProducerFrame, ReloadBulk
  <2>2. pPc' = "fill" => Offset(pTail)' < Offset(pGoal)'
    BY <1>a, <1>n, <1>g, <1>s, <2>1, Ranges, DistBasics
    DEF Offset, ReloadBulk
  <2> QED BY <1>a, <1>s, <2>1, <2>2 DEF ProducerFrame, OneOps, BulkOps, ReloadBulk
<1>5. LiveExactly'
  BY <1>a DEF LiveExactly, ReloadBulk
<1> QED BY <1>1, <1>2, <1>3, <1>5 DEF Invariant

\* write_internal starts at its own index with nothing written.
LEMMA WriteInternalStep ==
  ASSUME Invariant, NEW n \in Counts, WriteInternal(n)
  PROVE  Invariant'
<1> USE DEF WriteInternal, producer, consumer, producerLine, consumerLine, seen
<1>a. TypeOK /\ Window /\ ProducerFrame /\ ConsumerFrame /\ LiveExactly
  BY DEF Invariant
<1>1. TypeOK'
  BY <1>a, CountsAssumption, WordAssumption, SizeAssumption DEF TypeOK, Slots
<1>2. Window'
  BY <1>a DEF Window, Offset, ProducerFrame
<1>3. ProducerFrame'
  BY <1>a DEF ProducerFrame, OneOps
<1>4. ConsumerFrame'
  BY <1>a DEF ConsumerFrame, Offset
<1>5. LiveExactly'
  BY <1>a DEF LiveExactly, ProducerFrame
<1> QED BY <1>1, <1>2, <1>3, <1>4, <1>5 DEF Invariant

\* write_internal admits the next slot only if it is not the cached head.
LEMMA WriteEachStep ==
  ASSUME Invariant, WriteEach
  PROVE  Invariant'
<1> USE DEF WriteEach, producer, consumer, producerLine, consumerLine, seen
<1>a. TypeOK /\ Window /\ ProducerFrame /\ ConsumerFrame /\ LiveExactly
  BY DEF Invariant
<1>1. TypeOK'
  BY <1>a, NextBasics DEF TypeOK
<1>2. Window'
  BY <1>a DEF Window, Offset
<1>3. ProducerFrame'
  <2>1. pPc' = "fill" => Offset(pTail)' < Offset(pGoal)'
    BY <1>a, Ranges, NextFits DEF Offset
  <2> QED BY <1>a, <2>1 DEF ProducerFrame, OneOps
<1>4. ConsumerFrame'
  BY <1>a DEF ConsumerFrame, Offset
<1>5. LiveExactly'
  BY <1>a DEF LiveExactly
<1> QED BY <1>1, <1>2, <1>3, <1>4, <1>5 DEF Invariant

\* The loaded head moves the origin; the slot is taken only if it is free.
LEMMA ReloadEachStep ==
  ASSUME Invariant, ReloadEach
  PROVE  Invariant'
<1> USE DEF ReloadEach, producer, consumer, producerLine, consumerLine, seen
<1>a. TypeOK /\ Window /\ ProducerFrame /\ ConsumerFrame /\ LiveExactly
  BY DEF Invariant
<1>1. TypeOK'
  BY <1>a DEF TypeOK
<1>2. Window' /\ ConsumerFrame'
  BY <1>a, ReloadMovesOrigin
<1>3. ProducerFrame'
  <2>1. pGoal = Next1(pTail) /\ pOp = "write_internal" /\ pCount < pAsked
    BY <1>a DEF ProducerFrame
  <2>2. pPc' = "fill" => Offset(pTail)' < Offset(pGoal)'
    BY <1>a, <2>1, Ranges, NextFits DEF Offset
  <2> QED BY <1>a, <2>1, <2>2 DEF ProducerFrame, OneOps
<1>5. LiveExactly'
  BY <1>a DEF LiveExactly
<1> QED BY <1>1, <1>2, <1>3, <1>5 DEF Invariant

\* The two cursors, seen from the origin and from the consumer.
LEMMA Cursors ==
  ASSUME TypeOK, Window
  PROVE  /\ Offset(cHead) \in Nat /\ Offset(tailCache) \in Nat
         /\ Offset(pTail) \in Nat /\ Offset(pTail) <= Size - 1
         /\ Offset(tailCache) <= Offset(pTail)
         /\ Offset(cHead) <= Offset(pTail)
         /\ Dist(cHead, pTail) = Offset(pTail) - Offset(cHead)
<1>1. /\ Offset(cHead) \in Nat /\ Offset(tailCache) \in Nat
      /\ Offset(tailSeen) \in Nat /\ Offset(tail) \in Nat
      /\ Offset(pTail) \in Nat /\ Offset(pTail) <= Size - 1
  BY Ranges, DistRange DEF Offset
<1>2. /\ Offset(cHead) <= Offset(pTail)
      /\ Offset(tailCache) <= Offset(pTail)
  BY <1>1 DEF Window
<1> QED BY <1>1, <1>2, Ranges, DistBasics DEF Offset

\* While the producer constructs, its next index does not meet the origin.
LEMMA FillFits ==
  ASSUME TypeOK, Window, ProducerFrame, pPc = "fill"
  PROVE  /\ Next1(pTail) \in Slots
         /\ Offset(Next1(pTail)) = Offset(pTail) + 1
         /\ Dist(cHead, Next1(pTail)) = Dist(cHead, pTail) + 1
<1>1. Offset(pTail) < Size - 1
  <2>1. Offset(pTail) < Offset(pGoal)
    BY DEF ProducerFrame
  <2>2. Offset(pGoal) \in Nat /\ Offset(pGoal) <= Size - 1 /\ Offset(pTail) \in Nat
    BY Ranges, DistRange DEF Offset
  <2> QED BY <2>1, <2>2, SizeAssumption
<1>2. Dist(cHead, pTail) < Size - 1
  BY <1>1, Cursors, SizeAssumption
<1> QED BY <1>1, <1>2, Ranges, NextBasics DEF Offset

\* The constructed slot was the first one past the live ones.
LEMMA ConstructStep ==
  ASSUME Invariant, Construct
  PROVE  Invariant'
<1> USE DEF Construct, producer, consumer, producerLine, consumerLine, seen
<1>a. TypeOK /\ Window /\ ProducerFrame /\ ConsumerFrame /\ LiveExactly
  BY DEF Invariant
<1>f. /\ Next1(pTail) \in Slots
      /\ Offset(Next1(pTail)) = Offset(pTail) + 1
      /\ Dist(cHead, Next1(pTail)) = Dist(cHead, pTail) + 1
  BY <1>a, FillFits
<1>c. /\ Offset(pTail) \in Nat /\ Offset(tail) \in Nat
      /\ Offset(pGoal) \in Nat /\ Dist(cHead, pTail) \in Nat
  BY <1>a, Ranges, DistRange DEF Offset
<1>1. TypeOK'
  <2>1. buffer' \in [Slots -> Value]
    BY <1>a DEF TypeOK, Value
  <2>2. pCount' \in 0 .. Word - 1
    BY <1>a, WordAssumption DEF TypeOK, ProducerFrame
  <2> QED BY <1>a, <1>f, <2>1, <2>2 DEF TypeOK
<1>2. Window'
  <2>1. Offset(tail)' = Offset(tail) /\ Offset(pTail)' = Offset(pTail) + 1
    BY <1>f DEF Offset
  <2> QED BY <1>a, <1>c, <2>1 DEF Window, Offset
<1>3. ProducerFrame'
  <2>1. pPc' = "fill" => pOp \in BulkOps
    BY <1>a DEF ProducerFrame, TypeOK
  <2>2. pPc' = "fill" => Offset(pTail)' < Offset(pGoal)'
    <3>1. pPc' = "fill" => Offset(Next1(pTail)) # Offset(pGoal)
      BY <1>a, <1>f, Ranges, DistBasics DEF Offset
    <3>2. Offset(pTail) < Offset(pGoal)
      BY <1>a DEF ProducerFrame
    <3> QED BY <1>c, <1>f, <3>1, <3>2 DEF Offset
  <2> QED BY <1>a, <2>1, <2>2 DEF ProducerFrame, OneOps, BulkOps
<1>4. ConsumerFrame'
  BY <1>a DEF ConsumerFrame, Offset
<1>5. LiveExactly'
  <2> SUFFICES ASSUME NEW i \in Slots
               PROVE  buffer'[i] # Raw <=>
                        Dist(cHead, i) < Dist(cHead, Next1(pTail))
    BY DEF LiveExactly
  <2>1. Dist(cHead, i) \in Nat
    BY <1>a, Ranges, DistRange
  <2>2. CASE i = pTail
    <3>1. buffer'[i] \in Elem
      BY <1>a, <2>2 DEF TypeOK
    <3> QED BY <1>c, <1>f, <2>2, <3>1, ElemAssumption
  <2>3. CASE i # pTail
    <3>1. buffer'[i] = buffer[i]
      BY <1>a, <2>3 DEF TypeOK
    <3>2. Dist(cHead, i) # Dist(cHead, pTail)
      BY <1>a, <2>3, Ranges, DistBasics
    <3>3. buffer[i] # Raw <=> Dist(cHead, i) < Dist(cHead, pTail)
      BY <1>a DEF LiveExactly
    <3> QED BY <1>c, <1>f, <2>1, <3>1, <3>2, <3>3
  <2> QED BY <2>2, <2>3
<1> QED BY <1>1, <1>2, <1>3, <1>4, <1>5 DEF Invariant

\* A refusing callback leaves the cursor, so what was built is kept.
LEMMA RefuseStep ==
  ASSUME Invariant, Refuse
  PROVE  Invariant'
<1> USE DEF Refuse, ProducerReturns, ProducerLeaves, producer, consumer,
            producerLine, consumerLine, seen
<1>a. TypeOK /\ Window /\ ProducerFrame /\ ConsumerFrame /\ LiveExactly
  BY DEF Invariant
<1>1. TypeOK'
  BY <1>a, SizeAssumption, WordAssumption DEF TypeOK, Slots, Sub
<1>2. Window'
  BY <1>a DEF Window, Offset
<1>3. ProducerFrame'
  BY <1>a DEF ProducerFrame, OneOps
<1>4. ConsumerFrame'
  BY <1>a DEF ConsumerFrame, Offset
<1>5. LiveExactly'
  BY <1>a DEF LiveExactly
<1> QED BY <1>1, <1>2, <1>3, <1>4, <1>5 DEF Invariant

\* A throw leaves the cursor, so what was built is kept.
LEMMA ThrowStep ==
  ASSUME Invariant, Throw
  PROVE  Invariant'
<1> USE DEF Throw, ProducerReturns, ProducerLeaves, producer, consumer,
            producerLine, consumerLine, seen
<1>a. TypeOK /\ Window /\ ProducerFrame /\ ConsumerFrame /\ LiveExactly
  BY DEF Invariant
<1>1. TypeOK'
  BY <1>a, SizeAssumption, WordAssumption DEF TypeOK, Slots
<1>2. Window'
  BY <1>a DEF Window, Offset
<1>3. ProducerFrame'
  BY <1>a DEF ProducerFrame, OneOps, BulkOps, TypeOK
<1>4. ConsumerFrame'
  BY <1>a DEF ConsumerFrame, Offset
<1>5. LiveExactly'
  BY <1>a DEF LiveExactly
<1> QED BY <1>1, <1>2, <1>3, <1>4, <1>5 DEF Invariant

\* Publishing moves tail up to the cursor.
LEMMA PublishStep ==
  ASSUME Invariant, Publish
  PROVE  Invariant'
<1> USE DEF Publish, ProducerReturns, ProducerLeaves, producer, consumer,
            producerLine, consumerLine, seen
<1>a. TypeOK /\ Window /\ ProducerFrame /\ ConsumerFrame /\ LiveExactly
  BY DEF Invariant
<1>1. TypeOK'
  <2>1. 0 \in Slots /\ 0 \in 0 .. Word - 1
    BY SizeAssumption, WordAssumption DEF Slots
  <2> QED BY <1>a, <2>1 DEF TypeOK
<1>2. Window'
  <2>1. /\ Offset(tailSeen) \in Nat /\ Offset(tail) \in Nat
        /\ Offset(pTail) \in Nat
    BY <1>a, Ranges, DistRange DEF Offset
  <2> QED BY <1>a, <2>1 DEF Window, Offset
<1>3. ProducerFrame'
  BY <1>a DEF ProducerFrame, OneOps
<1>4. ConsumerFrame'
  BY <1>a DEF ConsumerFrame, Offset
<1>5. LiveExactly'
  BY <1>a DEF LiveExactly
<1> QED BY <1>1, <1>2, <1>3, <1>4, <1>5 DEF Invariant

\* is_full() changes nothing the queue relies on.
LEMMA IsFullStep ==
  ASSUME Invariant, IsFull
  PROVE  Invariant'
<1> USE DEF IsFull, producer, consumer, producerLine, consumerLine, seen
<1>a. TypeOK /\ Window /\ ProducerFrame /\ ConsumerFrame /\ LiveExactly
  BY DEF Invariant
<1>1. TypeOK'
  BY <1>a DEF TypeOK
<1>2. Window'
  BY <1>a DEF Window, Offset
<1>3. ProducerFrame'
  BY <1>a DEF ProducerFrame, Offset
<1>4. ConsumerFrame'
  BY <1>a DEF ConsumerFrame, Offset
<1>5. LiveExactly'
  BY <1>a DEF LiveExactly
<1> QED BY <1>1, <1>2, <1>3, <1>4, <1>5 DEF Invariant

-----------------------------------------------------------------------------
(* The consumer's steps.                                                   *)

\* What is behind the cached tail stays behind any later tail.
LEMMA Behind ==
  ASSUME TypeOK, Window
  PROVE  /\ head # tailCache => Offset(head) < Offset(tailCache)
         /\ cHead # tailCache => Offset(cHead) < Offset(tailCache)
         /\ Offset(cHead) <= Offset(tailSeen)
         /\ Offset(tailCache) <= Offset(tailSeen)
         /\ head # tailCache => head # tailSeen
<1>1. /\ Offset(head) \in Nat /\ Offset(cHead) \in Nat
      /\ Offset(tailCache) \in Nat /\ Offset(tailSeen) \in Nat
  BY Ranges, DistRange DEF Offset
<1>2. /\ head # tailCache => Offset(head) # Offset(tailCache)
      /\ cHead # tailCache => Offset(cHead) # Offset(tailCache)
  BY Ranges, DistBasics DEF Offset
<1> QED BY <1>1, <1>2 DEF Window

\* Loading the tail moves the cached tail up and disturbs nothing else.
LEMMA ReloadMovesTail ==
  ASSUME TypeOK, Window, tailCache' = tailSeen, cHead' = cHead,
         UNCHANGED <<producerLine, head, seen, pTail>>
  PROVE  Window'
<1> USE DEF producerLine, seen
<1>1. /\ Offset(cHead) <= Offset(tailSeen)
      /\ Offset(tailCache) <= Offset(tailSeen)
  BY Behind
<1>2. Offset(tailSeen) <= Offset(tailSeen)
  BY Ranges, DistRange DEF Offset
<1> QED BY <1>1, <1>2 DEF Window, Offset

\* Removing the element at the cursor moves the cursor by one, within the
\* window, and leaves exactly the live slots behind it.
LEMMA Removal ==
  ASSUME TypeOK, Window, LiveExactly, Offset(cHead) < Offset(tailCache),
         buffer' = [buffer EXCEPT ![cHead] = Raw], cHead' = Next1(cHead),
         UNCHANGED <<producerLine, consumerLine, seen, pTail>>
  PROVE  /\ buffer' \in [Slots -> Value] /\ cHead' \in Slots
         /\ buffer[cHead] \in Elem
         /\ Offset(cHead)' = Offset(cHead) + 1
         /\ Window'
         /\ LiveExactly'
<1> USE DEF producerLine, consumerLine, seen
<1>1. /\ Offset(cHead) \in Nat /\ Offset(tailCache) \in Nat
      /\ Offset(tailCache) <= Offset(pTail) /\ Offset(pTail) \in Nat
      /\ Offset(pTail) <= Size - 1 /\ Offset(head) \in Nat
      /\ Dist(cHead, pTail) = Offset(pTail) - Offset(cHead)
  BY Cursors, Ranges, DistRange DEF Offset
<1>2. Next1(cHead) \in Slots /\ Offset(Next1(cHead)) = Offset(cHead) + 1
  BY <1>1, Ranges, NextBasics, SizeAssumption DEF Offset
<1>3. Offset(cHead)' = Offset(cHead) + 1
  BY <1>2 DEF Offset
<1>4. Window'
  <2>1. /\ Offset(head)' <= Offset(cHead)'
        /\ Offset(cHead)' <= Offset(tailCache)'
    BY <1>1, <1>3 DEF Window, Offset
  <2> QED BY <2>1 DEF Window, Offset
<1>5. buffer' \in [Slots -> Value]
  BY DEF TypeOK, Value
<1>6. 0 < Dist(cHead, pTail)
  BY <1>1
<1>7. Dist(Next1(cHead), pTail) = Dist(cHead, pTail) - 1
  BY <1>6, Ranges, StepTowards
<1>8. LiveExactly'
  <2> SUFFICES ASSUME NEW i \in Slots
               PROVE  buffer'[i] # Raw <=>
                        Dist(Next1(cHead), i) < Dist(Next1(cHead), pTail)
    BY DEF LiveExactly
  <2>1. Dist(cHead, pTail) \in Nat /\ Dist(cHead, pTail) <= Size - 1
    BY Ranges, DistRange
  <2>2. CASE i = cHead
    <3>1. Dist(Next1(cHead), cHead) = Size - 1
      BY Ranges, StepAway
    <3>2. buffer'[i] = Raw
      BY <2>2 DEF TypeOK
    <3> QED BY <1>7, <2>1, <2>2, <3>1, <3>2, SizeAssumption
  <2>3. CASE i # cHead
    <3>1. Dist(cHead, i) \in Nat /\ Dist(cHead, i) > 0
      BY <2>3, Ranges, DistRange, DistBasics
    <3>2. Dist(Next1(cHead), i) = Dist(cHead, i) - 1
      BY <3>1, Ranges, StepTowards
    <3>3. buffer'[i] = buffer[i]
      BY <2>3 DEF TypeOK
    <3>4. buffer[i] # Raw <=> Dist(cHead, i) < Dist(cHead, pTail)
      BY DEF LiveExactly
    <3> QED BY <1>7, <2>1, <3>1, <3>2, <3>3, <3>4
  <2> QED BY <2>2, <2>3
<1>9. buffer[cHead] \in Elem
  <2>1. Dist(cHead, cHead) = 0
    BY Ranges, DistBasics
  <2>2. buffer[cHead] # Raw
    BY <1>6, <2>1, Ranges DEF LiveExactly
  <2> QED BY <2>2, Ranges DEF TypeOK, Value
<1> QED BY <1>2, <1>3, <1>4, <1>5, <1>8, <1>9



\* front, pop and consume proceed only past the test against the cached tail.
LEMMA StartTakeStep ==
  ASSUME Invariant, NEW op \in {"front", "pop", "consume"}, StartTake(op)
  PROVE  Invariant'
<1> USE DEF StartTake, Reach, producer, consumer, producerLine, consumerLine, seen
<1>a. TypeOK /\ Window /\ ProducerFrame /\ ConsumerFrame /\ LiveExactly
  BY DEF Invariant
<1>z. 0 \in Slots /\ 0 \in 0 .. Word - 1 /\ 1 \in 0 .. Word - 1
  BY SizeAssumption, WordAssumption DEF Slots
<1>b. cFront' \in BOOLEAN
  BY <1>a DEF TypeOK
<1>1. TypeOK'
  BY <1>a, <1>b, <1>z DEF TypeOK
<1>2. Window'
  BY <1>a DEF Window, Offset, ConsumerFrame
<1>3. ProducerFrame'
  BY <1>a DEF ProducerFrame, Offset
<1>4. ConsumerFrame'
  BY <1>a DEF ConsumerFrame, Offset
<1>5. LiveExactly'
  BY <1>a DEF LiveExactly, ConsumerFrame
<1> QED BY <1>1, <1>2, <1>3, <1>4, <1>5 DEF Invariant

\* The second look moves the cached tail; the element is taken past the test.
LEMMA ReloadTakeStep ==
  ASSUME Invariant, ReloadTake
  PROVE  Invariant'
<1> USE DEF ReloadTake, Reach, producer, consumer, producerLine, consumerLine, seen
<1>a. TypeOK /\ Window /\ ProducerFrame /\ ConsumerFrame /\ LiveExactly
  BY DEF Invariant
<1>h. cHead = head /\ (cFront => head # tailCache)
  BY <1>a DEF ConsumerFrame
<1>z. 0 \in Slots /\ 0 \in 0 .. Word - 1 /\ 1 \in 0 .. Word - 1
  BY SizeAssumption, WordAssumption DEF Slots
<1>b. cFront' \in BOOLEAN
  BY <1>a DEF TypeOK
<1>1. TypeOK'
  BY <1>a, <1>b, <1>z DEF TypeOK
<1>2. Window'
  BY <1>a, ReloadMovesTail
<1>3. ProducerFrame'
  BY <1>a DEF ProducerFrame, Offset
<1>4. ConsumerFrame'
  BY <1>a, <1>h, Behind DEF ConsumerFrame
<1>5. LiveExactly'
  BY <1>a DEF LiveExactly
<1> QED BY <1>1, <1>2, <1>3, <1>4, <1>5 DEF Invariant

\* A client that holds front()'s pointer knows the cached tail is not reached.
LEMMA DiscardStep ==
  ASSUME Invariant, "discard_unpeeked" \notin ConsumerOps, Discard
  PROVE  Invariant'
<1> USE DEF Discard, producer, consumer, producerLine, consumerLine, seen
<1>a. TypeOK /\ Window /\ ProducerFrame /\ ConsumerFrame /\ LiveExactly
  BY DEF Invariant
<1>z. 0 \in Slots /\ 0 \in 0 .. Word - 1 /\ 1 \in 0 .. Word - 1
  BY SizeAssumption, WordAssumption DEF Slots
<1>1. TypeOK'
  BY <1>a, <1>z DEF TypeOK
<1>2. Window'
  BY <1>a DEF Window, Offset, ConsumerFrame
<1>3. ProducerFrame'
  BY <1>a DEF ProducerFrame, Offset
<1>4. ConsumerFrame'
  BY <1>a DEF ConsumerFrame, Offset
<1>5. LiveExactly'
  BY <1>a DEF LiveExactly, ConsumerFrame
<1> QED BY <1>1, <1>2, <1>3, <1>4, <1>5 DEF Invariant

\* Taking one element removes the oldest live slot.
LEMMA TakeStep ==
  ASSUME Invariant, Take
  PROVE  Invariant'
<1> USE DEF Take, TakeElement, producer, consumer, producerLine, consumerLine, seen
<1>a. TypeOK /\ Window /\ ProducerFrame /\ ConsumerFrame /\ LiveExactly
  BY DEF Invariant
<1>r. Offset(cHead) < Offset(tailCache)
  BY <1>a, Behind DEF ConsumerFrame
<1>s. /\ buffer' \in [Slots -> Value] /\ cHead' \in Slots
      /\ buffer[cHead] \in Elem /\ Window' /\ LiveExactly'
  BY <1>a, <1>r, Removal
<1>1. TypeOK'
  BY <1>a, <1>s DEF TypeOK, Value
<1>3. ProducerFrame'
  BY <1>a DEF ProducerFrame, Offset
<1>4. ConsumerFrame'
  BY <1>a DEF ConsumerFrame, Offset
<1> QED BY <1>1, <1>3, <1>4, <1>s DEF Invariant

\* consume_all starts from a fresh cached tail, its goal.
LEMMA ConsumeAllStep ==
  ASSUME Invariant, ConsumeAll
  PROVE  Invariant'
<1> USE DEF ConsumeAll, producer, consumer, producerLine, consumerLine, seen
<1>a. TypeOK /\ Window /\ ProducerFrame /\ ConsumerFrame /\ LiveExactly
  BY DEF Invariant
<1>h. cHead = head /\ (cFront => head # tailCache)
  BY <1>a DEF ConsumerFrame
<1>1. TypeOK'
  BY <1>a DEF TypeOK
<1>2. Window'
  BY <1>a, <1>h, ReloadMovesTail
<1>3. ProducerFrame'
  BY <1>a DEF ProducerFrame, Offset
<1>4. ConsumerFrame'
  <2>1. Offset(cHead) <= Offset(tailSeen) /\ Offset(tailSeen) <= Offset(tailSeen)
    BY <1>a, Behind, Ranges, DistRange DEF Offset
  <2> QED BY <1>a, <1>h, <2>1, Behind DEF ConsumerFrame, Offset
<1>5. LiveExactly'
  BY <1>a, <1>h DEF LiveExactly
<1> QED BY <1>1, <1>2, <1>3, <1>4, <1>5 DEF Invariant

\* Each round of the drain removes the oldest live slot, and it ends in bounds.
LEMMA DrainStep ==
  ASSUME Invariant, Drain
  PROVE  Invariant'
<1> USE DEF Drain, TakeElement, producer, consumer, producerLine, consumerLine, seen
<1>a. TypeOK /\ Window /\ ProducerFrame /\ ConsumerFrame /\ LiveExactly
  BY DEF Invariant
<1>g. /\ Offset(cHead) \in Nat /\ Offset(cGoal) \in Nat
      /\ Offset(tailCache) \in Nat
      /\ Offset(cHead) <= Offset(cGoal) /\ Offset(cGoal) <= Offset(tailCache)
  BY <1>a, Ranges, DistRange DEF Offset, ConsumerFrame
<1>b. CASE cHead # cGoal
  <2>1. Offset(cHead) < Offset(cGoal)
    <3>1. Offset(cHead) # Offset(cGoal)
      BY <1>a, <1>b, Ranges, DistBasics DEF Offset
    <3> QED BY <1>g, <3>1
  <2>2. /\ buffer' \in [Slots -> Value] /\ cHead' \in Slots
        /\ buffer[cHead] \in Elem /\ Offset(cHead)' = Offset(cHead) + 1
        /\ Window' /\ LiveExactly'
    BY <1>a, <1>b, <1>g, <2>1, Removal
  <2>3. TypeOK'
    BY <1>a, <1>b, <2>2 DEF TypeOK, Value
  <2>4. ProducerFrame'
    BY <1>a DEF ProducerFrame, Offset
  <2>5. ConsumerFrame'
    <3>1. Offset(cHead)' <= Offset(cGoal)' /\ Offset(cGoal)' <= Offset(tailCache)'
      BY <1>g, <2>1, <2>2 DEF Offset
    <3> QED BY <1>a, <1>b, <3>1 DEF ConsumerFrame
  <2> QED BY <2>2, <2>3, <2>4, <2>5 DEF Invariant
<1>c. CASE cHead = cGoal
  <2>1. DrainCount \in 0 .. Word - 1
    BY <1>a, Ranges, DrainBasics, DistRange, SizeAssumption, WordAssumption
  <2>2. TypeOK'
    BY <1>a, <1>c, <2>1 DEF TypeOK
  <2>3. Window'
    BY <1>a, <1>c DEF Window, Offset
  <2>4. ProducerFrame'
    BY <1>a DEF ProducerFrame, Offset
  <2>5. ConsumerFrame'
    BY <1>a, <1>c DEF ConsumerFrame, Offset
  <2>6. LiveExactly'
    BY <1>a, <1>c DEF LiveExactly
  <2> QED BY <2>2, <2>3, <2>4, <2>5, <2>6 DEF Invariant
<1> QED BY <1>b, <1>c

\* A callback that gives up leaves the element and the cursor.
LEMMA DeclineStep ==
  ASSUME Invariant, Decline
  PROVE  Invariant'
<1> USE DEF Decline, ConsumerReturns, ConsumerLeaves, producer, consumer,
            producerLine, consumerLine, seen
<1>a. TypeOK /\ Window /\ ProducerFrame /\ ConsumerFrame /\ LiveExactly
  BY DEF Invariant
<1>z. 0 \in Slots /\ 0 \in 0 .. Word - 1 /\ 1 \in 0 .. Word - 1
  BY SizeAssumption, WordAssumption DEF Slots
<1>d. DrainCount \in 0 .. Word - 1
  BY <1>a, Ranges, DrainBasics, DistRange, SizeAssumption, WordAssumption
<1>1. TypeOK'
  BY <1>a, <1>d, <1>z DEF TypeOK
<1>2. Window'
  BY <1>a DEF Window, Offset
<1>3. ProducerFrame'
  BY <1>a DEF ProducerFrame, Offset
<1>4. ConsumerFrame'
  BY <1>a DEF ConsumerFrame, Offset
<1>5. LiveExactly'
  BY <1>a DEF LiveExactly
<1> QED BY <1>1, <1>2, <1>3, <1>4, <1>5 DEF Invariant

\* What read is granted lies within the window up to the tail it compared with.
LEMMA ReadEnds ==
  ASSUME TypeOK, NEW t \in Slots, NEW n \in Nat,
         Offset(head) <= Offset(t), n <= Filled(head, t)
  PROVE  /\ NextBy(head, n) \in Slots
         /\ Offset(NextBy(head, n)) = Offset(head) + n
         /\ Offset(NextBy(head, n)) <= Offset(t)
<1>1. /\ Offset(head) \in Nat /\ Offset(t) \in Nat /\ Offset(t) <= Size - 1
  BY Ranges, DistRange DEF Offset
<1>2. Filled(head, t) = Offset(t) - Offset(head)
  BY Ranges, RoomBasics, DistBasics DEF Offset
<1>3. Dist(headCache, head) + n < Size
  BY <1>1, <1>2, SizeAssumption DEF Offset
<1>4. NextBy(head, n) \in Slots /\ Offset(NextBy(head, n)) = Offset(head) + n
  BY <1>3, Ranges, NextByBasics DEF Offset
<1> QED BY <1>1, <1>2, <1>4

\* A read is granted at once only below the filled slots the cache shows.
LEMMA ReadTrivialStep ==
  ASSUME Invariant, NEW n \in Counts, ReadTrivial(n)
  PROVE  Invariant'
<1> USE DEF ReadTrivial, GrantRead, producer, consumer, producerLine, consumerLine, seen
<1>a. TypeOK /\ Window /\ ProducerFrame /\ ConsumerFrame /\ LiveExactly
  BY DEF Invariant
<1>z. 0 \in Slots /\ 0 \in 0 .. Word - 1 /\ 1 \in 0 .. Word - 1
  BY SizeAssumption, WordAssumption DEF Slots
<1>n. n \in Nat /\ n \in 0 .. Word - 1
  BY CountsAssumption, WordAssumption
<1>h. cHead = head /\ cHead' = head
  BY <1>a DEF ConsumerFrame
<1>o. /\ Offset(head) \in Nat /\ Offset(head) <= Offset(tailCache)
      /\ Filled(head, tailCache) \in Nat
  BY <1>a, <1>h, Ranges, DistRange, RoomBasics DEF Offset, Window
<1>g. n < Filled(head, tailCache) =>
        /\ NextBy(head, n) \in Slots
        /\ Offset(NextBy(head, n)) = Offset(head) + n
        /\ Offset(NextBy(head, n)) <= Offset(tailCache)
  <2> SUFFICES ASSUME n < Filled(head, tailCache) PROVE n <= Filled(head, tailCache)
    BY <1>a, <1>n, <1>o, Ranges, ReadEnds
  <2> QED BY <1>n, <1>o
<1>1. TypeOK'
  BY <1>a, <1>g, <1>n, <1>z DEF TypeOK
<1>2. Window'
  BY <1>a, <1>h DEF Window, Offset
<1>3. ProducerFrame'
  BY <1>a DEF ProducerFrame, Offset
<1>4. ConsumerFrame'
  <2>1. cPc' = "copy" => /\ Offset(cHead)' < Offset(cGoal)'
                         /\ Offset(cGoal)' <= Offset(tailCache)'
    BY <1>g, <1>h, <1>n, <1>o DEF Offset
  <2> QED BY <1>a, <2>1 DEF ConsumerFrame
<1>5. LiveExactly'
  BY <1>a, <1>h DEF LiveExactly
<1> QED BY <1>1, <1>2, <1>3, <1>4, <1>5 DEF Invariant

\* The second look moves the cached tail; the grant is cut to what is there.
LEMMA ReloadReadStep ==
  ASSUME Invariant, ReloadRead
  PROVE  Invariant'
<1> USE DEF producer, consumer, producerLine, consumerLine, seen
<1>a. TypeOK /\ Window /\ ProducerFrame /\ ConsumerFrame /\ LiveExactly
  BY DEF Invariant
<1> DEFINE filled == Filled(head, tailSeen)
           n == IF cCount >= filled THEN filled ELSE cCount
<1>h. cHead = head /\ cHead' = cHead
  BY <1>a DEF ConsumerFrame, ReloadRead
<1>o. Offset(head) \in Nat /\ Offset(head) <= Offset(tailSeen)
  BY <1>a, <1>h, Ranges, DistRange, Behind DEF Offset
<1>f. filled \in Nat /\ filled <= Size - 1
  BY <1>a, Ranges, DistRange, RoomBasics
<1>n. n \in Nat /\ n <= filled /\ n \in 0 .. Word - 1
  BY <1>a, <1>f, SizeAssumption, WordAssumption DEF TypeOK
<1>g. /\ NextBy(head, n) \in Slots
      /\ Offset(NextBy(head, n)) = Offset(head) + n
      /\ Offset(NextBy(head, n)) <= Offset(tailSeen)
  BY <1>a, <1>n, <1>o, Ranges, ReadEnds
<1>s. GrantRead(n)
  BY DEF ReloadRead
<1> HIDE DEF n, filled
<1>1. TypeOK'
  BY <1>a, <1>g, <1>n, <1>s DEF TypeOK, ReloadRead, GrantRead
<1>2. Window'
  BY <1>a, <1>h, ReloadMovesTail DEF ReloadRead
<1>3. ProducerFrame'
  BY <1>a DEF ProducerFrame, Offset, ReloadRead
<1>4. ConsumerFrame'
  <2>1. cPc' = "copy" => /\ Offset(cHead)' < Offset(cGoal)'
                         /\ Offset(cGoal)' <= Offset(tailCache)'
    BY <1>g, <1>h, <1>n, <1>o, <1>s DEF Offset, GrantRead, ReloadRead
  <2>2. cFront' => head' # tailCache'
    BY <1>a, Behind DEF ReloadRead, ConsumerFrame
  <2>3. cPc' \in {"copy", "release"}
    BY <1>s DEF GrantRead
  <2> QED BY <1>a, <2>1, <2>2, <2>3 DEF ConsumerFrame
<1>5. LiveExactly'
  BY <1>a, <1>h DEF LiveExactly, ReloadRead
<1> QED BY <1>1, <1>2, <1>3, <1>4, <1>5 DEF Invariant

\* Each copied slot is the oldest live one, and is given up.
LEMMA CopyReadStep ==
  ASSUME Invariant, CopyRead
  PROVE  Invariant'
<1> USE DEF CopyRead, producer, consumer, producerLine, consumerLine, seen
<1>a. TypeOK /\ Window /\ ProducerFrame /\ ConsumerFrame /\ LiveExactly
  BY DEF Invariant
<1>g. /\ Offset(cHead) \in Nat /\ Offset(cGoal) \in Nat
      /\ Offset(tailCache) \in Nat
      /\ Offset(cHead) < Offset(cGoal) /\ Offset(cGoal) <= Offset(tailCache)
  BY <1>a, Ranges, DistRange DEF Offset, ConsumerFrame
<1>s. /\ buffer' \in [Slots -> Value] /\ cHead' \in Slots
      /\ Offset(cHead)' = Offset(cHead) + 1
      /\ Window' /\ LiveExactly'
  BY <1>a, <1>g, Removal
<1>1. TypeOK'
  BY <1>a, <1>s DEF TypeOK
<1>3. ProducerFrame'
  BY <1>a DEF ProducerFrame, Offset
<1>4. ConsumerFrame'
  <2>1. cPc' = "copy" => Offset(cHead)' # Offset(cGoal)'
    BY <1>a, <1>s, Ranges, DistBasics DEF Offset
  <2>2. cPc' = "copy" => /\ Offset(cHead)' < Offset(cGoal)'
                         /\ Offset(cGoal)' <= Offset(tailCache)'
    BY <1>g, <1>s, <2>1 DEF Offset
  <2> QED BY <1>a, <2>2 DEF ConsumerFrame
<1> QED BY <1>1, <1>3, <1>4, <1>s DEF Invariant

\* Releasing moves head up to the cursor.
LEMMA ReleaseStep ==
  ASSUME Invariant, Release
  PROVE  Invariant'
<1> USE DEF Release, ConsumerReturns, ConsumerLeaves, producer, consumer,
            producerLine, consumerLine, seen
<1>a. TypeOK /\ Window /\ ProducerFrame /\ ConsumerFrame /\ LiveExactly
  BY DEF Invariant
<1>z. 0 \in Slots /\ 0 \in 0 .. Word - 1 /\ 1 \in 0 .. Word - 1
  BY SizeAssumption, WordAssumption DEF Slots
<1>o. Offset(cHead) <= Offset(cHead) /\ Offset(headSeen) <= Offset(cHead)
  <2>1. /\ Offset(headSeen) \in Nat /\ Offset(head) \in Nat
        /\ Offset(cHead) \in Nat
    BY <1>a, Ranges, DistRange DEF Offset
  <2> QED BY <1>a, <2>1 DEF Window
<1>1. TypeOK'
  BY <1>a, <1>z DEF TypeOK
<1>2. Window'
  BY <1>a, <1>o DEF Window, Offset
<1>3. ProducerFrame'
  BY <1>a DEF ProducerFrame, Offset
<1>4. ConsumerFrame'
  BY <1>a DEF ConsumerFrame, Offset
<1>5. LiveExactly'
  BY <1>a DEF LiveExactly
<1> QED BY <1>1, <1>2, <1>3, <1>4, <1>5 DEF Invariant

\* is_empty() changes nothing the queue relies on.
LEMMA IsEmptyStep ==
  ASSUME Invariant, IsEmpty
  PROVE  Invariant'
<1> USE DEF IsEmpty, producer, consumer, producerLine, consumerLine, seen
<1>a. TypeOK /\ Window /\ ProducerFrame /\ ConsumerFrame /\ LiveExactly
  BY DEF Invariant
<1>1. TypeOK'
  BY <1>a DEF TypeOK
<1>2. Window'
  BY <1>a DEF Window, Offset
<1>3. ProducerFrame'
  BY <1>a DEF ProducerFrame, Offset
<1>4. ConsumerFrame'
  BY <1>a DEF ConsumerFrame, Offset
<1>5. LiveExactly'
  BY <1>a DEF LiveExactly
<1> QED BY <1>1, <1>2, <1>3, <1>4, <1>5 DEF Invariant

-----------------------------------------------------------------------------
(* Stores that become visible, construction and destruction.               *)

\* What the consumer may load moves up to the tail.
LEMMA PropagateTailStep ==
  ASSUME Invariant, PropagateTail
  PROVE  Invariant'
<1> USE DEF PropagateTail, producer, consumer, producerLine, consumerLine, seen
<1>a. TypeOK /\ Window /\ ProducerFrame /\ ConsumerFrame /\ LiveExactly
  BY DEF Invariant
<1>o. Offset(tailCache) <= Offset(tail) /\ Offset(tail) <= Offset(tail)
  <2>1. /\ Offset(tailCache) \in Nat /\ Offset(tailSeen) \in Nat
        /\ Offset(tail) \in Nat
    BY <1>a, Ranges, DistRange DEF Offset
  <2> QED BY <1>a, <2>1 DEF Window
<1>1. TypeOK'
  BY <1>a DEF TypeOK
<1>2. Window'
  BY <1>a, <1>o DEF Window, Offset
<1>3. ProducerFrame'
  BY <1>a DEF ProducerFrame, Offset
<1>4. ConsumerFrame'
  BY <1>a DEF ConsumerFrame, Offset
<1>5. LiveExactly'
  BY <1>a DEF LiveExactly
<1> QED BY <1>1, <1>2, <1>3, <1>4, <1>5 DEF Invariant

\* What the producer may load moves up to the head.
LEMMA PropagateHeadStep ==
  ASSUME Invariant, PropagateHead
  PROVE  Invariant'
<1> USE DEF PropagateHead, producer, consumer, producerLine, consumerLine, seen
<1>a. TypeOK /\ Window /\ ProducerFrame /\ ConsumerFrame /\ LiveExactly
  BY DEF Invariant
<1>o. Offset(head) <= Offset(head)
  BY <1>a, Ranges, DistRange DEF Offset
<1>1. TypeOK'
  BY <1>a DEF TypeOK
<1>2. Window'
  BY <1>a, <1>o DEF Window, Offset
<1>3. ProducerFrame'
  BY <1>a DEF ProducerFrame, Offset
<1>4. ConsumerFrame'
  BY <1>a DEF ConsumerFrame, Offset
<1>5. LiveExactly'
  BY <1>a DEF LiveExactly
<1> QED BY <1>1, <1>2, <1>3, <1>4, <1>5 DEF Invariant

\* A queue just built: n slots constructed, and indices that say so.
Fresh ==
  /\ \E n \in Slots : \E f \in [0 .. n - 1 -> Elem] :
       /\ buffer = Loaded([i \in Slots |-> Raw], n, f)
       /\ tail = n /\ tailSeen = n /\ tailCache = n /\ pTail = n
  /\ head = 0 /\ headSeen = 0 /\ headCache = 0 /\ cHead = 0
  /\ pPc = "idle" /\ pOp = "none" /\ pGoal = 0 /\ pCount = 0 /\ pAsked = 0
  /\ cPc = "idle" /\ cOp = "none" /\ cGoal = 0 /\ cCount = 0
  /\ pRoom = FALSE /\ cFront = FALSE /\ cSome = FALSE
  /\ out \in Value /\ life \in BOOLEAN

\* A queue just built satisfies the invariant.
LEMMA FreshInvariant == Fresh => Invariant
<1> SUFFICES ASSUME Fresh PROVE Invariant
  OBVIOUS
<1> USE DEF Fresh
<1>1. 0 \in Slots /\ 0 \in 0 .. Word - 1
  BY SizeAssumption, WordAssumption DEF Slots
<1>2. \A i \in Slots : Dist(0, i) = i
  BY SizeAssumption DEF Slots, Dist
<1>n. PICK n \in Slots : \E f \in [0 .. n - 1 -> Elem] :
        /\ buffer = Loaded([i \in Slots |-> Raw], n, f)
        /\ tail = n /\ tailSeen = n /\ tailCache = n /\ pTail = n
  BY DEF Fresh
<1>f. PICK f \in [0 .. n - 1 -> Elem] :
        buffer = Loaded([i \in Slots |-> Raw], n, f)
  BY <1>n
<1>3. \A i \in Slots : i < n => f[i] \in Elem
  BY DEF Slots
<1>4. TypeOK
  <2>1. buffer \in [Slots -> Value]
    BY <1>3, <1>f DEF Loaded, Value
  <2> QED BY <1>1, <1>n, <2>1 DEF TypeOK
<1>5. Window
  BY <1>1, <1>2, <1>n, SizeAssumption DEF Window, Offset, Slots
<1>6. ProducerFrame
  BY <1>n DEF ProducerFrame, OneOps
<1>7. ConsumerFrame
  BY DEF ConsumerFrame
<1>8. LiveExactly
  BY <1>1, <1>2, <1>3, <1>n, <1>f, ElemAssumption DEF LiveExactly, Loaded
<1> QED BY <1>4, <1>5, <1>6, <1>7, <1>8 DEF Invariant

\* Destroying from head up to tail leaves nothing alive.
LEMMA DestroyedIsRaw ==
  ASSUME TypeOK, LiveExactly, cHead = head, pTail = tail
  PROVE  \A i \in Slots : Destroyed[i] = Raw
BY DEF LiveExactly, Destroyed

\* The constructors build a fresh queue in dead storage.
LEMMA CreateStep ==
  ASSUME Invariant, Create
  PROVE  Invariant'
<1> USE DEF IndicesBecome, FramesBecome, ProducerLeaves, ConsumerLeaves
<1>a. TypeOK /\ Window /\ ProducerFrame /\ ConsumerFrame /\ LiveExactly
  BY DEF Invariant
<1>1. \A i \in Slots : buffer[i] = Raw
  <2>1. cHead = pTail
    BY <1>a DEF Create, ProducerFrame
  <2>2. \A i \in Slots : ~(Dist(cHead, i) < Dist(cHead, pTail))
    BY <1>a, <2>1, Ranges, DistBasics, DistRange
  <2> QED BY <1>a, <2>2 DEF LiveExactly
<1>2. \A n \in Slots : \A f \in [0 .. n - 1 -> Elem] :
        Loaded(buffer, n, f) = Loaded([i \in Slots |-> Raw], n, f)
  BY <1>1 DEF Loaded
<1>3. out' \in Value /\ life' \in BOOLEAN
  BY <1>a DEF Create, TypeOK
<1>4. Fresh'
  BY <1>2, <1>3 DEF Create, Fresh
<1>5. Fresh' => Invariant'
  BY FreshInvariant, PTL
<1> QED BY <1>4, <1>5

\* Assignment destroys the old content and starts over.
LEMMA AssignStep ==
  ASSUME Invariant, Assign
  PROVE  Invariant'
<1> USE DEF IndicesBecome, FramesBecome, ProducerLeaves, ConsumerLeaves
<1>a. TypeOK /\ Window /\ ProducerFrame /\ ConsumerFrame /\ LiveExactly
  BY DEF Invariant
<1>1. \A i \in Slots : Destroyed[i] = Raw
  BY <1>a, DestroyedIsRaw DEF Assign, ProducerFrame, ConsumerFrame
<1>2. \A n \in Slots : \A f \in [0 .. n - 1 -> Elem] :
        Loaded(Destroyed, n, f) = Loaded([i \in Slots |-> Raw], n, f)
  BY <1>1 DEF Loaded
<1>3. out' \in Value /\ life' \in BOOLEAN
  BY <1>a DEF Assign, TypeOK
<1>4. Fresh'
  BY <1>2, <1>3 DEF Assign, Fresh
<1>5. Fresh' => Invariant'
  BY FreshInvariant, PTL
<1> QED BY <1>4, <1>5

\* The destructor leaves nothing alive.
LEMMA DestroyStep ==
  ASSUME Invariant, Destroy
  PROVE  Invariant'
<1> USE DEF Destroy, IndicesBecome, FramesBecome, ProducerLeaves, ConsumerLeaves
<1>a. TypeOK /\ Window /\ ProducerFrame /\ ConsumerFrame /\ LiveExactly
  BY DEF Invariant
<1>r. \A i \in Slots : Destroyed[i] = Raw
  BY <1>a, DestroyedIsRaw DEF ProducerFrame, ConsumerFrame
<1>t. tail \in Slots /\ Dist(tail, tail) = 0
  BY <1>a, Ranges, DistBasics
<1>1. TypeOK'
  <2>1. Destroyed \in [Slots -> Value]
    BY <1>r DEF Destroyed, Value
  <2>2. 0 \in Slots /\ 0 \in 0 .. Word - 1
    BY SizeAssumption, WordAssumption DEF Slots
  <2>3. out' \in Value /\ life' \in BOOLEAN
    BY <1>a DEF TypeOK
  <2> QED BY <1>t, <2>1, <2>2, <2>3 DEF TypeOK
<1>2. Window'
  BY <1>t DEF Window, Offset
<1>3. ProducerFrame'
  BY DEF ProducerFrame, OneOps
<1>4. ConsumerFrame'
  BY DEF ConsumerFrame
<1>5. LiveExactly'
  BY <1>r, <1>t, DistRange DEF LiveExactly
<1> QED BY <1>1, <1>2, <1>3, <1>4, <1>5 DEF Invariant

-----------------------------------------------------------------------------
(* The theorems.                                                           *)

\* The queue starts fresh.
LEMMA InitInvariant == Init => Invariant
<1>1. Init => Fresh
  BY DEF Init, Fresh, Value
<1> QED BY <1>1, FreshInvariant

\* A stuttering step preserves the invariant.
LEMMA StutterInvariant ==
  ASSUME Invariant, UNCHANGED vars
  PROVE  Invariant'
BY DEF vars, Invariant, TypeOK, Window, Offset, ProducerFrame, ConsumerFrame,
       LiveExactly

\* Every action preserves the invariant.
LEMMA NextInvariant ==
  ASSUME "discard_unpeeked" \notin ConsumerOps, Invariant, Next
  PROVE  Invariant'
<1>1. CASE ProducerStep
  <2>1. CASE Emplace \/ Produce
    BY <2>1, StartOneStep DEF Emplace, Produce, OneOps
  <2>2. CASE \E n \in Counts : \/ EmplaceN(n) \/ ProduceN(n)
                              \/ WriteCopy(n) \/ WriteTrivial(n)
    BY <2>2, StartBulkStep
    DEF EmplaceN, ProduceN, WriteCopy, WriteTrivial, BulkOps
  <2>3. CASE \E n \in Counts : WriteInternal(n)
    BY <2>3, WriteInternalStep
  <2>4. CASE ReloadOne \/ ReloadBulk \/ WriteEach \/ ReloadEach
    BY <2>4, ReloadOneStep, ReloadBulkStep, WriteEachStep, ReloadEachStep
  <2>5. CASE Construct \/ Refuse \/ Throw \/ Publish
    BY <2>5, ConstructStep, RefuseStep, ThrowStep, PublishStep
  <2> QED BY <1>1, <2>1, <2>2, <2>3, <2>4, <2>5 DEF ProducerStep
<1>2. CASE ConsumerStep
  <2>1. CASE Front \/ Pop \/ Consume
    BY <2>1, StartTakeStep DEF Front, Pop, Consume
  <2>2. CASE \E n \in Counts : ReadTrivial(n)
    BY <2>2, ReadTrivialStep
  <2>3. CASE ReloadTake \/ Discard \/ Take \/ ConsumeAll \/ Drain
    BY <2>3, ReloadTakeStep, DiscardStep, TakeStep, ConsumeAllStep, DrainStep
  <2>4. CASE Decline \/ ReloadRead \/ CopyRead \/ Release
    BY <2>4, DeclineStep, ReloadReadStep, CopyReadStep, ReleaseStep
  <2> QED BY <1>2, <2>1, <2>2, <2>3, <2>4 DEF ConsumerStep
<1>3. CASE IsFull \/ IsEmpty
  BY <1>3, IsFullStep, IsEmptyStep
<1>4. CASE PropagateTail \/ PropagateHead
  BY <1>4, PropagateTailStep, PropagateHeadStep
<1>5. CASE Create \/ Assign \/ Destroy
  BY <1>5, CreateStep, AssignStep, DestroyStep
<1> QED BY <1>1, <1>2, <1>3, <1>4, <1>5 DEF Next

\* The inductive invariant holds throughout every behaviour.
THEOREM InvariantHolds ==
  ASSUME "discard_unpeeked" \notin ConsumerOps
  PROVE  Spec => []Invariant
<1>1. Init => Invariant
  BY InitInvariant
<1>2. Invariant /\ [Next]_vars => Invariant'
  BY NextInvariant, StutterInvariant
<1> QED BY <1>1, <1>2, PTL DEF Spec

\* Every index stays inside the buffer.
THEOREM TypeCorrect ==
  ASSUME "discard_unpeeked" \notin ConsumerOps
  PROVE  Spec => []TypeOK
<1>1. Invariant => TypeOK
  BY DEF Invariant
<1> QED BY <1>1, InvariantHolds, PTL

\* The cached and the propagated indices are late but never ahead.
THEOREM IndicesInOrder ==
  ASSUME "discard_unpeeked" \notin ConsumerOps
  PROVE  Spec => []Window
<1>1. Invariant => Window
  BY DEF Invariant
<1> QED BY <1>1, InvariantHolds, PTL

\* Every object is constructed and destroyed exactly once.
THEOREM LifetimesExact ==
  ASSUME "discard_unpeeked" \notin ConsumerOps
  PROVE  Spec => []LiveExactly
<1>1. Invariant => LiveExactly
  BY DEF Invariant
<1> QED BY <1>1, InvariantHolds, PTL

\* What the consumer touches was published and acquired, and is alive.
LEMMA ConsumerSide ==
  ASSUME Invariant, NEW i \in Slots, ConsumerTouches(i)
  PROVE  Dist(head, i) < Dist(head, tailSeen) /\ buffer[i] # Raw
<1>a. TypeOK /\ Window /\ ConsumerFrame /\ LiveExactly
  BY DEF Invariant
<1>o. /\ Offset(head) \in Nat /\ Offset(cHead) \in Nat
      /\ Offset(tailCache) \in Nat /\ Offset(tailSeen) \in Nat
      /\ Offset(tail) \in Nat /\ Offset(pTail) \in Nat
      /\ Offset(cGoal) \in Nat
  BY <1>a, Ranges, DistRange DEF Offset
<1>1. i = cHead /\ Offset(cHead) < Offset(tailCache)
  <2>1. CASE i = cHead /\ cPc \in {"take", "copy"}
    BY <1>a, <1>o, <2>1, Behind DEF ConsumerFrame
  <2>2. CASE i = cHead /\ cPc = "drain" /\ cHead # cGoal
    <3>1. Offset(cHead) # Offset(cGoal)
      BY <1>a, <2>2, Ranges, DistBasics DEF Offset
    <3> QED BY <1>a, <1>o, <2>2, <3>1 DEF ConsumerFrame
  <2>3. CASE i = head /\ cFront /\ cPc = "idle"
    BY <1>a, <2>3, Behind DEF ConsumerFrame
  <2> QED BY <2>1, <2>2, <2>3 DEF ConsumerTouches
<1>2. /\ Offset(head) <= Offset(cHead) /\ Offset(cHead) < Offset(tailSeen)
      /\ Offset(cHead) < Offset(pTail)
  BY <1>a, <1>o, <1>1 DEF Window
<1>3. /\ Dist(head, cHead) = Offset(cHead) - Offset(head)
      /\ Dist(head, tailSeen) = Offset(tailSeen) - Offset(head)
      /\ Dist(cHead, pTail) = Offset(pTail) - Offset(cHead)
      /\ Dist(cHead, cHead) = 0
  <2>1. Offset(head) <= Offset(tailSeen) /\ Offset(cHead) <= Offset(pTail)
    BY <1>o, <1>2
  <2> QED BY <1>a, <1>2, <2>1, Ranges, DistBasics DEF Offset
<1>4. Dist(head, i) < Dist(head, tailSeen)
  BY <1>o, <1>1, <1>2, <1>3
<1>5. Dist(cHead, i) < Dist(cHead, pTail)
  BY <1>o, <1>1, <1>2, <1>3
<1> QED BY <1>a, <1>4, <1>5 DEF LiveExactly

\* Where the producer constructs was released and acquired, and is not alive.
LEMMA ProducerSide ==
  ASSUME Invariant, pPc = "fill"
  PROVE  /\ Dist(headSeen, tail) <= Dist(headSeen, pTail)
         /\ Dist(headSeen, pTail) < Size - 1
         /\ buffer[pTail] = Raw
<1>a. TypeOK /\ Window /\ ProducerFrame /\ LiveExactly
  BY DEF Invariant
<1>o. /\ Offset(headSeen) \in Nat /\ Offset(head) \in Nat
      /\ Offset(cHead) \in Nat /\ Offset(tailCache) \in Nat
      /\ Offset(tailSeen) \in Nat /\ Offset(tail) \in Nat
      /\ Offset(pTail) \in Nat
      /\ Offset(pGoal) \in Nat /\ Offset(pGoal) <= Size - 1
  BY <1>a, Ranges, DistRange DEF Offset
<1>1. /\ Offset(headSeen) <= Offset(tail) /\ Offset(tail) <= Offset(pTail)
      /\ Offset(headSeen) <= Offset(pTail)
  BY <1>a, <1>o DEF Window
<1>2. Offset(pTail) < Size - 1
  BY <1>a, <1>o, SizeAssumption DEF ProducerFrame
<1>3. /\ Dist(headSeen, tail) = Offset(tail) - Offset(headSeen)
      /\ Dist(headSeen, pTail) = Offset(pTail) - Offset(headSeen)
  BY <1>a, <1>1, Ranges, DistBasics DEF Offset
<1>4. buffer[pTail] = Raw
  <2>1. ~(Dist(cHead, pTail) < Dist(cHead, pTail))
    BY <1>a, Ranges, DistRange
  <2> QED BY <1>a, <2>1, Ranges DEF LiveExactly
<1> QED BY <1>o, <1>1, <1>2, <1>3, <1>4, SizeAssumption

\* The plain accesses of the two threads never race.
THEOREM NoRace ==
  ASSUME "discard_unpeeked" \notin ConsumerOps
  PROVE  Spec => []HandedOver
<1>1. Invariant => HandedOver
  BY ConsumerSide, ProducerSide DEF HandedOver
<1> QED BY <1>1, InvariantHolds, PTL

-----------------------------------------------------------------------------
(* The invariant, beyond that of SpscQueue.                                *)

\* The producer's result: what is granted, and for write_internal what is
\* written so far.
ProducerCounts ==
  /\ pPc \in {"reload", "fill"} /\ pOp \in OneOps => pCount = 1 /\ pAsked = 1
  /\ pPc = "reload" /\ pOp \in BulkOps => pAsked > 0
  /\ pPc = "fill" /\ pOp # "write_internal" => pCount = Dist(tail, pGoal)
  /\ pPc \in {"each", "eachReload", "fill"} /\ pOp = "write_internal" =>
       pCount = Dist(tail, pTail)
  /\ pPc = "publish" => pCount = Dist(tail, pTail)

\* A grant below what was asked ends at the last usable slot.
ShortGrant ==
  /\ pPc = "fill" /\ pOp \in BulkOps /\ pCount < pAsked =>
       Dist(headCache, pGoal) = Size - 1
  /\ pPc = "publish" /\ pCount < pAsked => Dist(headCache, pTail) = Size - 1

\* The consumer's result.
ConsumerCounts ==
  /\ cPc = "take" => cCount = 1
  /\ cPc = "reload" /\ cOp # "read" => cCount = 1
  /\ cPc = "copy" => cCount = Dist(head, cGoal)
  /\ cPc = "release" => cCount = Dist(head, cHead)

\* What is_full() and is_empty() saw is still so.
Answers == /\ pRoom => headSeen # Next1(tail)
           /\ cSome => head # tailSeen

Results == ProducerCounts /\ ShortGrant /\ ConsumerCounts /\ Answers

-----------------------------------------------------------------------------
(* Distances from the two published indices.                               *)

LEMMA FromTail ==
  ASSUME TypeOK, Window
  PROVE  /\ Dist(tail, tail) = 0 /\ Dist(head, head) = 0
         /\ Dist(tail, pTail) = Offset(pTail) - Offset(tail)
         /\ Dist(head, cHead) = Offset(cHead) - Offset(head)
         /\ Offset(tail) \in Nat /\ Offset(pTail) \in Nat
         /\ Offset(head) \in Nat /\ Offset(cHead) \in Nat
         /\ Offset(tail) <= Offset(pTail) /\ Offset(head) <= Offset(cHead)
<1>1. /\ Offset(tail) \in Nat /\ Offset(pTail) \in Nat
      /\ Offset(head) \in Nat /\ Offset(cHead) \in Nat
  BY Ranges, DistRange DEF Offset
<1>2. Offset(tail) <= Offset(pTail) /\ Offset(head) <= Offset(cHead)
  BY DEF Window
<1> QED BY <1>1, <1>2, Ranges, DistBasics DEF Offset

\* n steps on from a slot are n away from it.
LEMMA StepsCounted ==
  ASSUME NEW a \in Slots, NEW n \in Nat, n < Size
  PROVE  NextBy(a, n) \in Slots /\ Dist(a, NextBy(a, n)) = n
<1>1. Dist(a, a) = 0 /\ 0 + n = n
  BY DistBasics
<1> QED BY <1>1, NextByBasics

\* One step is counted, unless the ring has one slot only.
LEMMA StepCounted ==
  ASSUME NEW a \in Slots, NEW b \in Slots, Next1(a) # b
  PROVE  Dist(a, Next1(a)) = 1
BY SizeAssumption DEF Slots, Dist, Next1

-----------------------------------------------------------------------------
(* The producer's steps.                                                   *)

\* A step of the producer that leaves the consumer's side and the answers alone.
ConsumerUntouched ==
  UNCHANGED <<head, tail, seen, pRoom, cPc, cOp, cHead, cGoal, cCount, cSome>>

LEMMA OtherSideKept ==
  ASSUME Results, ConsumerUntouched
  PROVE  ConsumerCounts' /\ Answers'
BY DEF Results, ConsumerUntouched, ConsumerCounts, Answers, seen

LEMMA OneCounted ==
  ASSUME Invariant, Results,
         ReloadOne \/ \E op \in OneOps : StartOne(op)
  PROVE  Results'
<1>a. TypeOK /\ Window /\ ProducerFrame
  BY DEF Invariant
<1>r. ProducerCounts
  BY DEF Results
<1>n. ASSUME NEW h \in Slots, Next1(tail) # h PROVE Dist(tail, Next1(tail)) = 1
  BY <1>n, <1>a, Ranges, StepCounted
<1>1. CASE \E op \in OneOps : StartOne(op)
  <2> USE DEF StartOne
  <2>1. ConsumerUntouched
    BY <1>1 DEF ConsumerUntouched, consumerLine, producerLine, consumer
  <2>2. pPc' = "fill" => Dist(tail, Next1(tail)) = 1
    BY <1>1, <1>a, <1>n, Ranges
  <2>3. ProducerCounts' /\ ShortGrant'
    BY <1>1, <2>2 DEF ProducerCounts, ShortGrant, OneOps, BulkOps, producerLine
  <2> QED BY <2>1, <2>3, OtherSideKept DEF Results
<1>2. CASE ReloadOne
  <2> USE DEF ReloadOne
  <2>1. ConsumerUntouched
    BY <1>2 DEF ConsumerUntouched, consumerLine, consumer
  <2>2. pGoal = Next1(tail)
    BY <1>2, <1>a DEF ProducerFrame
  <2>3. pPc' = "fill" => Dist(tail, pGoal) = 1
    BY <1>2, <1>a, <1>n, <2>2, Ranges DEF ProducerReturns, ProducerLeaves
  <2>4. ProducerCounts' /\ ShortGrant'
    BY <1>2, <1>r, <2>3 DEF ProducerCounts, ShortGrant, OneOps, BulkOps,
       ProducerReturns, ProducerLeaves
  <2> QED BY <2>1, <2>4, OtherSideKept DEF Results
<1> QED BY <1>1, <1>2

LEMMA BulkCounted ==
  ASSUME Invariant, Results,
         ReloadBulk \/ \E op \in BulkOps, n \in Counts : StartBulk(op, n)
  PROVE  Results'
<1>a. TypeOK /\ Window /\ ProducerFrame
  BY DEF Invariant
<1>r. ProducerCounts
  BY DEF Results
<1>f. ASSUME NEW h \in Slots
      PROVE  /\ Free(h, tail) \in 1 .. Size
             /\ Free(h, tail) = Size - Dist(h, tail)
             /\ Dist(h, tail) \in Nat
  BY <1>a, Ranges, RoomBasics, DistRange, SizeAssumption
<1>g. ASSUME NEW h \in Slots, NEW n \in Nat, n < Free(h, tail)
      PROVE  /\ Dist(tail, NextBy(tail, n)) = n
             /\ Dist(h, NextBy(tail, n)) = Dist(h, tail) + n
  BY <1>a, <1>f, <1>g, Ranges, GrantEnds, StepsCounted, SizeAssumption
<1>1. CASE \E op \in BulkOps, n \in Counts : StartBulk(op, n)
  <2>0. PICK op \in BulkOps, n \in Counts : StartBulk(op, n)
    BY <1>1
  <2>n. n \in Nat
    BY CountsAssumption, WordAssumption
  <2>1. ConsumerUntouched
    BY <2>0 DEF ConsumerUntouched, StartBulk, consumerLine, producerLine, consumer
  <2>2. CASE n >= Free(headCache, tail) /\ pPc' = "reload" /\ pOp' = op /\ pAsked' = n
    <3>1. n > 0
      BY <2>2, <2>n, <1>a, <1>f, Ranges
    <3> QED BY <2>1, <2>2, <3>1, OtherSideKept
            DEF Results, ProducerCounts, ShortGrant, OneOps, BulkOps
  <2>3. CASE n < Free(headCache, tail) /\ Grant(op, n, n)
    <3>1. Dist(tail, NextBy(tail, n)) = n
      BY <2>3, <2>n, <1>a, <1>g, Ranges
    <3>2. pTail' = tail /\ tail' = tail /\ Dist(tail, tail) = 0
      BY <2>0, <1>a, FromTail DEF StartBulk, producerLine
    <3>3. ProducerCounts' /\ ShortGrant'
      BY <2>3, <2>n, <3>1, <3>2 DEF Grant, ProducerReturns, ProducerLeaves,
         ProducerCounts, ShortGrant, OneOps, BulkOps
    <3> QED BY <2>1, <3>3, OtherSideKept DEF Results
  <2> QED BY <2>0, <2>2, <2>3 DEF StartBulk
<1>2. CASE ReloadBulk
  <2> DEFINE free == Free(headSeen, tail)
             n == IF pAsked >= free THEN free - 1 ELSE pAsked
  <2>f. free \in 1 .. Size /\ free = Size - Dist(headSeen, tail)
    BY <1>a, <1>f, Ranges
  <2>n. n \in Nat /\ n < free /\ (n < pAsked => n = free - 1)
    BY <1>a, <2>f, SizeAssumption, WordAssumption DEF TypeOK
  <2>g. /\ Dist(tail, NextBy(tail, n)) = n
        /\ Dist(headSeen, NextBy(tail, n)) = Dist(headSeen, tail) + n
    BY <2>n, <1>a, <1>g, Ranges
  <2>s. Grant(pOp, pAsked, n) /\ headCache' = headSeen /\ tail' = tail
    BY <1>2 DEF ReloadBulk
  <2>1. ConsumerUntouched
    BY <1>2 DEF ConsumerUntouched, ReloadBulk, consumerLine, consumer
  <2>2. /\ pTail' = tail /\ Dist(tail, tail) = 0
        /\ pOp \in BulkOps /\ Dist(headSeen, tail) \in Nat
    BY <1>2, <1>a, <1>f, FromTail, Ranges DEF ReloadBulk, ProducerFrame
  <2> HIDE DEF free, n
  <2>3. ProducerCounts'
    BY <2>n, <2>g, <2>s, <2>2 DEF Grant, ProducerReturns, ProducerLeaves,
       ProducerCounts, OneOps, BulkOps
  <2>4. n < pAsked => Dist(headSeen, NextBy(tail, n)) = Size - 1
    BY <2>f, <2>n, <2>g, <2>2, SizeAssumption
  <2>5. n = 0 /\ n < pAsked => Dist(headSeen, tail) = Size - 1
    BY <2>f, <2>n, <2>2, SizeAssumption
  <2>6. ShortGrant'
    BY <2>n, <2>s, <2>2, <2>4, <2>5 DEF Grant, ProducerReturns, ProducerLeaves,
       ShortGrant
  <2> QED BY <2>1, <2>3, <2>6, OtherSideKept DEF Results
<1> QED BY <1>1, <1>2

LEMMA EachCounted ==
  ASSUME Invariant, Results,
         WriteEach \/ ReloadEach \/ \E n \in Counts : WriteInternal(n)
  PROVE  Results'
<1>a. TypeOK /\ Window /\ ProducerFrame
  BY DEF Invariant
<1>r. ProducerCounts
  BY DEF Results
<1>1. CASE \E n \in Counts : WriteInternal(n)
  <2>1. ConsumerUntouched
    BY <1>1 DEF ConsumerUntouched, WriteInternal, consumerLine, producerLine, consumer
  <2>2. ProducerCounts' /\ ShortGrant'
    BY <1>1, <1>a, FromTail DEF WriteInternal, ProducerCounts, ShortGrant, OneOps,
       producerLine
  <2> QED BY <2>1, <2>2, OtherSideKept DEF Results
<1>2. CASE WriteEach
  <2>1. ConsumerUntouched
    BY <1>2 DEF ConsumerUntouched, WriteEach, consumerLine, producerLine, consumer
  <2>2. pOp = "write_internal" /\ pCount \in Nat /\ pAsked \in Nat
    BY <1>2, <1>a, WordAssumption DEF WriteEach, ProducerFrame, TypeOK
  <2>3. ProducerCounts' /\ ShortGrant'
    BY <1>2, <1>r, <2>2 DEF WriteEach, ProducerCounts, ShortGrant, OneOps, BulkOps,
       producerLine
  <2> QED BY <2>1, <2>3, OtherSideKept DEF Results
<1>3. CASE ReloadEach
  <2>1. ConsumerUntouched
    BY <1>3 DEF ConsumerUntouched, ReloadEach, consumerLine, consumer
  <2>2. pOp = "write_internal" /\ pGoal = Next1(pTail)
    BY <1>3, <1>a DEF ReloadEach, ProducerFrame
  <2>3. pGoal = headSeen => Dist(headSeen, pTail) = Size - 1
    BY <1>a, <2>2, Ranges, NextBasics
  <2>4. ProducerCounts' /\ ShortGrant'
    BY <1>3, <1>r, <2>2, <2>3 DEF ReloadEach, ProducerCounts, ShortGrant, OneOps,
       BulkOps
  <2> QED BY <2>1, <2>4, OtherSideKept DEF Results
<1> QED BY <1>1, <1>2, <1>3

LEMMA ConstructCounted ==
  ASSUME Invariant, Results, Construct
  PROVE  Results'
<1> USE DEF Construct, producerLine, consumerLine
<1>a. TypeOK /\ Window /\ ProducerFrame
  BY DEF Invariant
<1>r. ProducerCounts /\ ShortGrant
  BY DEF Results
<1>1. ConsumerUntouched
  BY DEF ConsumerUntouched, consumer
<1>2. Dist(tail, Next1(pTail)) = Dist(tail, pTail) + 1
  <2>1. Next1(pTail) \in Slots /\ Offset(Next1(pTail)) = Offset(pTail) + 1
    BY <1>a, FillFits
  <2>2. Dist(tail, Next1(pTail)) = Offset(Next1(pTail)) - Offset(tail)
    BY <1>a, <2>1, Ranges, FromTail, DistBasics DEF Offset
  <2> QED BY <1>a, <2>1, <2>2, FromTail
<1>3. ProducerCounts'
  BY <1>r, <1>2 DEF ProducerCounts, OneOps
<1>4. pOp # "write_internal" /\ pPc' = "publish" /\ pCount < pAsked
        => pOp \in BulkOps /\ Dist(headCache, pGoal) = Size - 1
  <2>1. pOp \in OneOps => ~(pCount < pAsked)
    BY <1>r DEF ProducerCounts
  <2>2. pOp # "write_internal" => pOp \in OneOps \cup BulkOps
    BY <1>a DEF TypeOK, ProducerFrame
  <2> QED BY <1>r, <2>1, <2>2 DEF ShortGrant
<1>5. ShortGrant'
  BY <1>r, <1>4 DEF ShortGrant, BulkOps
<1> QED BY <1>1, <1>3, <1>5, OtherSideKept DEF Results

\* Refusals and exceptions end the call or cut it short, and a publication
\* ends it: nothing is promised of such a call any more.
LEMMA EndCounted ==
  ASSUME Invariant, Results, Refuse \/ Throw \/ Publish \/ IsFull
  PROVE  Results'
<1> USE DEF producerLine, consumerLine, consumer, seen
<1>r. ProducerCounts /\ ShortGrant /\ ConsumerCounts /\ Answers
  BY DEF Results
<1>1. CASE Refuse \/ Throw
  <2>1. ConsumerUntouched
    BY <1>1 DEF ConsumerUntouched, Refuse, Throw
  <2>2. ProducerCounts' /\ ShortGrant'
    BY <1>1 DEF Refuse, Throw, ProducerReturns, ProducerLeaves, ProducerCounts,
       ShortGrant
  <2> QED BY <2>1, <2>2, OtherSideKept DEF Results
<1>2. CASE Publish
  BY <1>2, <1>r DEF Publish, ProducerReturns, ProducerLeaves, Results,
     ProducerCounts, ShortGrant, ConsumerCounts, Answers
<1>3. CASE IsFull
  BY <1>3, <1>r DEF IsFull, Results, ProducerCounts, ShortGrant, ConsumerCounts,
     Answers
<1> QED BY <1>1, <1>2, <1>3

-----------------------------------------------------------------------------
(* The consumer's steps.                                                   *)

ProducerUntouched ==
  UNCHANGED <<tail, headCache, head, seen, pPc, pOp, pTail, pGoal, pCount, pAsked,
              pRoom, cSome>>

LEMMA ThisSideKept ==
  ASSUME Results, ProducerUntouched
  PROVE  ProducerCounts' /\ ShortGrant' /\ Answers'
BY DEF Results, ProducerUntouched, ProducerCounts, ShortGrant, Answers, seen

LEMMA StartCounted ==
  ASSUME Invariant, Results,
         \/ Front \/ Pop \/ Consume \/ ReloadTake \/ Discard \/ ConsumeAll
  PROVE  Results'
<1>r. ConsumerCounts
  BY DEF Results
<1> USE DEF Front, Pop, Consume, StartTake, ReloadTake, Discard, ConsumeAll, Reach
<1>1. ProducerUntouched
  BY DEF ProducerUntouched, producerLine, consumerLine, producer
<1>2. ConsumerCounts'
  BY <1>r DEF ConsumerCounts
<1> QED BY <1>1, <1>2, ThisSideKept DEF Results

LEMMA TakeCounted ==
  ASSUME Invariant, Results, Take \/ Drain \/ Decline
  PROVE  Results'
<1>a. TypeOK /\ Window /\ ConsumerFrame
  BY DEF Invariant
<1>r. ConsumerCounts
  BY DEF Results
<1> USE DEF Take, Drain, Decline, TakeElement
<1>1. ProducerUntouched
  BY DEF ProducerUntouched, producerLine, consumerLine, producer
<1>2. CASE Take
  <2>1. cHead = head /\ Offset(cHead) < Offset(tailCache)
    BY <1>2, <1>a, Behind DEF ConsumerFrame
  <2>2. Offset(cHead) < Size - 1
    BY <1>a, <2>1, Ranges, DistRange, SizeAssumption DEF Offset
  <2>3. Next1(cHead) # headCache
    BY <1>a, <2>2, Ranges, NextBasics, DistRange, SizeAssumption DEF Offset
  <2>4. Dist(head, Next1(head)) = 1
    BY <1>a, <2>1, <2>3, Ranges, StepCounted
  <2>5. ConsumerCounts'
    BY <1>2, <1>r, <2>1, <2>4 DEF ConsumerCounts, consumerLine
  <2> QED BY <1>1, <2>5, ThisSideKept DEF Results
<1>3. CASE Drain \/ Decline
  <2>1. DrainCount = Dist(head, cHead)
    BY <1>a, Ranges, DrainBasics
  <2>2. ConsumerCounts'
    BY <1>3, <2>1 DEF ConsumerCounts, consumerLine, ConsumerReturns, ConsumerLeaves
  <2> QED BY <1>1, <2>2, ThisSideKept DEF Results
<1> QED BY <1>2, <1>3

LEMMA ReadCounted ==
  ASSUME Invariant, Results,
         ReloadRead \/ CopyRead \/ \E n \in Counts : ReadTrivial(n)
  PROVE  Results'
<1>a. TypeOK /\ Window /\ ConsumerFrame
  BY DEF Invariant
<1>r. ConsumerCounts
  BY DEF Results
<1>0. Dist(head, head) = 0
  BY <1>a, FromTail
<1>f. ASSUME NEW t \in Slots
      PROVE  /\ Filled(head, t) \in Nat /\ Filled(head, t) < Size
  BY <1>a, Ranges, RoomBasics, DistRange, SizeAssumption
<1>1. CASE \E n \in Counts : ReadTrivial(n)
  <2>0. PICK n \in Counts : ReadTrivial(n)
    BY <1>1
  <2>n. n \in Nat
    BY CountsAssumption, WordAssumption
  <2>1. ProducerUntouched
    BY <2>0 DEF ReadTrivial, ProducerUntouched, producerLine, consumerLine, producer
  <2>2. n < Filled(head, tailCache) => Dist(head, NextBy(head, n)) = n
    BY <1>a, <1>f, <2>n, Ranges, StepsCounted, SizeAssumption
  <2>3. ConsumerCounts'
    BY <2>0, <2>2, <2>n, <1>0 DEF ReadTrivial, GrantRead, ConsumerCounts, consumerLine
  <2> QED BY <2>1, <2>3, ThisSideKept DEF Results
<1>2. CASE ReloadRead
  <2> DEFINE filled == Filled(head, tailSeen)
             n == IF cCount >= filled THEN filled ELSE cCount
  <2>n. n \in Nat /\ n < Size
    BY <1>a, <1>f, Ranges, SizeAssumption, WordAssumption DEF TypeOK
  <2>g. Dist(head, NextBy(head, n)) = n
    BY <1>a, <2>n, Ranges, StepsCounted
  <2>1. ProducerUntouched
    BY <1>2 DEF ReloadRead, ProducerUntouched, producerLine, producer
  <2>2. /\ GrantRead(n) /\ cHead = head /\ cHead' = cHead /\ head' = head
        /\ cOp' = "read"
    BY <1>2, <1>a DEF ReloadRead, ConsumerFrame
  <2> HIDE DEF n, filled
  <2>3. ConsumerCounts'
    BY <2>n, <2>g, <2>2, <1>0 DEF GrantRead, ConsumerCounts
  <2> QED BY <2>1, <2>3, ThisSideKept DEF Results
<1>3. CASE CopyRead
  <2>1. ProducerUntouched
    BY <1>3 DEF CopyRead, ProducerUntouched, producerLine, consumerLine, producer
  <2>2. ConsumerCounts'
    BY <1>3, <1>r DEF CopyRead, ConsumerCounts, consumerLine
  <2> QED BY <2>1, <2>2, ThisSideKept DEF Results
<1> QED BY <1>1, <1>2, <1>3

LEMMA ReleaseCounted ==
  ASSUME Invariant, Results, Release \/ IsEmpty
  PROVE  Results'
<1> USE DEF producerLine, consumerLine, producer, seen
<1>r. ProducerCounts /\ ShortGrant /\ ConsumerCounts /\ Answers
  BY DEF Results
<1>1. CASE Release
  BY <1>1, <1>r DEF Release, ConsumerReturns, ConsumerLeaves, Results,
     ProducerCounts, ShortGrant, ConsumerCounts, Answers
<1>2. CASE IsEmpty
  BY <1>2, <1>r DEF IsEmpty, Results, ProducerCounts, ShortGrant, ConsumerCounts,
     Answers
<1> QED BY <1>1, <1>2

-----------------------------------------------------------------------------
(* The other steps.                                                        *)

\* A store that arrives only brings the two indices an answer is about
\* farther apart.
LEMMA PropagateKeepsAnswers ==
  ASSUME Invariant, Results, PropagateTail \/ PropagateHead
  PROVE  Results'
<1> USE DEF producerLine, consumerLine, producer, consumer
<1>a. TypeOK /\ Window
  BY DEF Invariant
<1>r. ProducerCounts /\ ShortGrant /\ ConsumerCounts /\ Answers
  BY DEF Results
<1>o. /\ Offset(headSeen) \in Nat /\ Offset(head) \in Nat /\ Offset(cHead) \in Nat
      /\ Offset(tailCache) \in Nat /\ Offset(tailSeen) \in Nat
      /\ Offset(tail) \in Nat /\ Offset(tail) <= Size - 1
  BY <1>a, Ranges, DistRange DEF Offset
<1>w. /\ Offset(headSeen) <= Offset(head) /\ Offset(head) <= Offset(tailSeen)
      /\ Offset(tailSeen) <= Offset(tail) /\ Offset(head) <= Offset(tail)
  BY <1>a, <1>o DEF Window
<1>1. CASE PropagateTail
  <2>1. head # tailSeen => Offset(head) < Offset(tail)
    <3>1. head # tailSeen => Offset(head) # Offset(tailSeen)
      BY <1>a, Ranges, DistBasics DEF Offset
    <3> QED BY <1>o, <1>w, <3>1
  <2>2. Answers'
    BY <1>1, <1>r, <1>o, <2>1 DEF PropagateTail, Answers
  <2> QED BY <1>1, <1>r, <2>2 DEF PropagateTail, Results, ProducerCounts, ShortGrant,
             ConsumerCounts
<1>2. CASE PropagateHead
  <2>1. /\ Dist(headSeen, tail) = Offset(tail) - Offset(headSeen)
        /\ Dist(head, tail) = Offset(tail) - Offset(head)
    BY <1>a, <1>o, <1>w, Ranges, DistBasics DEF Offset
  <2>2. headSeen # Next1(tail) => Dist(headSeen, tail) < Size - 1
    BY <1>a, Ranges, NextFits
  <2>3. headSeen # Next1(tail) => head # Next1(tail)
    BY <1>a, <1>o, <1>w, <2>1, <2>2, Ranges, NextBasics, SizeAssumption
  <2>4. Answers'
    BY <1>2, <1>r, <2>3 DEF PropagateHead, Answers
  <2> QED BY <1>2, <1>r, <2>4 DEF PropagateHead, Results, ProducerCounts, ShortGrant,
             ConsumerCounts
<1> QED BY <1>1, <1>2

LEMMA NextCounted ==
  ASSUME Invariant, Results, [Next]_vars
  PROVE  Results'
<1>1. CASE ProducerStep
  <2>1. CASE Emplace \/ Produce \/ ReloadOne
    BY <2>1, OneCounted DEF Emplace, Produce, OneOps
  <2>2. CASE ReloadBulk \/ \E n \in Counts :
               EmplaceN(n) \/ ProduceN(n) \/ WriteCopy(n) \/ WriteTrivial(n)
    BY <2>2, BulkCounted DEF EmplaceN, ProduceN, WriteCopy, WriteTrivial, BulkOps
  <2>3. CASE WriteEach \/ ReloadEach \/ \E n \in Counts : WriteInternal(n)
    BY <2>3, EachCounted
  <2>4. CASE Construct \/ Refuse \/ Throw \/ Publish
    BY <2>4, ConstructCounted, EndCounted
  <2> QED BY <1>1, <2>1, <2>2, <2>3, <2>4 DEF ProducerStep
<1>2. CASE ConsumerStep
  BY <1>2, StartCounted, TakeCounted, ReadCounted, ReleaseCounted DEF ConsumerStep
<1>3. CASE IsFull \/ IsEmpty
  BY <1>3, EndCounted, ReleaseCounted
<1>4. CASE PropagateTail \/ PropagateHead
  BY <1>4, PropagateKeepsAnswers
<1>5. CASE Create \/ Assign \/ Destroy
  BY <1>5 DEF Create, Assign, Destroy, FramesBecome, ProducerLeaves, ConsumerLeaves,
     Results, ProducerCounts, ShortGrant, ConsumerCounts, Answers
<1>6. CASE UNCHANGED vars
  BY <1>6 DEF vars, Results, ProducerCounts, ShortGrant, ConsumerCounts, Answers
<1> QED BY <1>1, <1>2, <1>3, <1>4, <1>5, <1>6 DEF Next

LEMMA InitCounted == Init => Results
BY DEF Init, Results, ProducerCounts, ShortGrant, ConsumerCounts, Answers

-----------------------------------------------------------------------------
(* The theorems.                                                           *)

\* What is counted holds throughout every behaviour.
LEMMA ResultsHold ==
  ASSUME "discard_unpeeked" \notin ConsumerOps
  PROVE  Spec => []Results
<1>1. Init => Results
  BY InitCounted
<1>2. Invariant /\ Results /\ [Next]_vars => Results'
  BY NextCounted
<1> QED BY <1>1, <1>2, InvariantHolds, PTL DEF Spec

\* A call of the producer that is not cut short returns the number of elements
\* it made visible, a call of the consumer the number it removed, although both
\* compute it from indices that wrap.  A produce_n that is refused is left out,
\* and its result is wrong.
THEOREM CountsAreExact ==
  ASSUME "discard_unpeeked" \notin ConsumerOps
  PROVE  Spec => CountsExact
<1>1. ASSUME Invariant, Results, [Next]_vars
      PROVE  [/\ pPc = "publish" /\ pPc' = "idle" => pCount = Dist(tail, tail')
              /\ cPc = "release" /\ cPc' = "idle" => cCount = Dist(head, head')]_vars
  <2>r. ProducerCounts /\ ConsumerCounts /\ ProducerFrame
    BY <1>1 DEF Invariant, Results
  <2>1. ASSUME pPc = "publish", pPc' = "idle" PROVE tail' = pTail
    <3>1. CASE ProducerStep \/ IsFull
      BY <2>1, <3>1 DEF ProducerStep, Emplace, Produce, StartOne, EmplaceN, ProduceN,
         WriteCopy, WriteTrivial, StartBulk, WriteInternal, ReloadOne, ReloadBulk,
         WriteEach, ReloadEach, Construct, Refuse, Throw, Publish, IsFull
    <3>2. CASE ConsumerStep \/ IsEmpty
      BY <2>1, <3>2 DEF ConsumerStep, Front, Pop, Consume, StartTake, ReloadTake,
         Discard, Take, ConsumeAll, Drain, Decline, ReadTrivial, ReloadRead,
         CopyRead, Release, IsEmpty, producer
    <3>3. CASE PropagateTail \/ PropagateHead \/ Create \/ Assign \/ Destroy
               \/ UNCHANGED vars
      BY <2>1, <3>3 DEF PropagateTail, PropagateHead, Create, Assign, Destroy, vars,
         producer
    <3> QED BY <1>1, <3>1, <3>2, <3>3 DEF Next
  <2>2. ASSUME cPc = "release", cPc' = "idle" PROVE head' = cHead
    <3>1. CASE ProducerStep \/ IsFull
      BY <2>2, <3>1 DEF ProducerStep, Emplace, Produce, StartOne, EmplaceN, ProduceN,
         WriteCopy, WriteTrivial, StartBulk, WriteInternal, ReloadOne, ReloadBulk,
         WriteEach, ReloadEach, Construct, Refuse, Throw, Publish, IsFull, consumer
    <3>2. CASE ConsumerStep \/ IsEmpty
      BY <2>2, <3>2 DEF ConsumerStep, Front, Pop, Consume, StartTake, ReloadTake,
         Discard, Take, ConsumeAll, Drain, Decline, ReadTrivial, ReloadRead,
         CopyRead, Release, IsEmpty
    <3>3. CASE PropagateTail \/ PropagateHead \/ Create \/ Assign \/ Destroy
               \/ UNCHANGED vars
      BY <2>2, <2>r, <3>3 DEF PropagateTail, PropagateHead, Create, Assign, Destroy,
         vars, consumer, ProducerFrame
    <3> QED BY <1>1, <3>1, <3>2, <3>3 DEF Next
  <2> QED BY <2>r, <2>1, <2>2 DEF ProducerCounts, ConsumerCounts
<1>2. Invariant /\ Results /\ [Next]_vars
      => [  /\ pPc = "publish" /\ pPc' = "idle" => pCount = Dist(tail, tail')
            /\ cPc = "release" /\ cPc' = "idle" => cCount = Dist(head, head')]_vars
  BY <1>1
<1> QED BY <1>2, InvariantHolds, ResultsHold, PTL DEF Spec, CountsExact

\* A call that puts in less than it was asked to has found all Size - 1 usable
\* slots taken, by the head it loaded.
THEOREM ShortBatchMeansFull ==
  ASSUME "discard_unpeeked" \notin ConsumerOps
  PROVE  Spec => ShortMeansFull
<1>1. ASSUME Invariant, Results, [Next]_vars
      PROVE  [/\ pPc' = "idle"
              /\ \/ pPc = "reload"
                 \/ pPc = "publish" /\ pCount < pAsked
              => Dist(headCache', pTail) = Size - 1]_vars
  <2>a. TypeOK /\ ProducerFrame /\ ProducerCounts /\ ShortGrant
    BY <1>1 DEF Invariant, Results
  <2> SUFFICES ASSUME pPc' = "idle", vars' # vars,
                      pPc = "reload" \/ (pPc = "publish" /\ pCount < pAsked)
               PROVE  Dist(headCache', pTail) = Size - 1
    OBVIOUS
  <2>1. ReloadOne \/ ReloadBulk \/ Publish
    <3>1. CASE ProducerStep \/ IsFull
      BY <3>1 DEF ProducerStep, Emplace, Produce, StartOne, EmplaceN, ProduceN,
         WriteCopy, WriteTrivial, StartBulk, WriteInternal, WriteEach, ReloadEach,
         Construct, Refuse, Throw, IsFull
    <3>2. CASE ConsumerStep \/ IsEmpty
      BY <3>2 DEF ConsumerStep, Front, Pop, Consume, StartTake, ReloadTake,
         Discard, Take, ConsumeAll, Drain, Decline, ReadTrivial, ReloadRead,
         CopyRead, Release, IsEmpty, producer
    <3>3. CASE PropagateTail \/ PropagateHead \/ Create \/ Assign \/ Destroy
      BY <3>3 DEF PropagateTail, PropagateHead, Create, Assign, Destroy, producer
    <3> QED BY <1>1, <3>1, <3>2, <3>3 DEF Next
  <2>2. CASE ReloadOne
    <3>1. pGoal = Next1(tail) /\ pTail = tail /\ pGoal = headSeen /\ headCache' = headSeen
      BY <2>2, <2>a DEF ReloadOne, ProducerFrame
    <3>2. headSeen \in Slots /\ tail \in Slots
      BY <2>a, Ranges
    <3>3. Next1(tail) = headSeen
      BY <3>1
    <3>4. Dist(headSeen, tail) = Size - 1
      BY <3>2, <3>3, NextBasics, Zenon
    <3> QED BY <3>1, <3>4
  <2>3. CASE ReloadBulk
    <3> DEFINE free == Free(headSeen, tail)
               n == IF pAsked >= free THEN free - 1 ELSE pAsked
    <3>1. free = Size - Dist(headSeen, tail) /\ Dist(headSeen, tail) \in Nat
      BY <2>a, Ranges, RoomBasics, DistRange
    <3>2. n = 0 /\ pAsked > 0 /\ pAsked \in Nat
      BY <2>3, <2>a, WordAssumption
      DEF ReloadBulk, Grant, ProducerCounts, TypeOK
    <3>3. free = 1
      BY <3>1, <3>2, SizeAssumption
    <3>4. pTail = tail /\ headCache' = headSeen
      BY <2>3, <2>a DEF ReloadBulk, ProducerFrame
    <3> QED BY <3>1, <3>3, <3>4, SizeAssumption
  <2>4. CASE Publish
    BY <2>4, <2>a DEF Publish, ShortGrant
  <2> QED BY <2>1, <2>2, <2>3, <2>4
<1>2. Invariant /\ Results /\ [Next]_vars
      => [  /\ pPc' = "idle"
            /\ \/ pPc = "reload"
               \/ pPc = "publish" /\ pCount < pAsked
            => Dist(headCache', pTail) = Size - 1]_vars
  BY <1>1
<1> QED BY <1>2, InvariantHolds, ResultsHold, PTL DEF Spec, ShortMeansFull

\* After is_full() answered false the producer's next emplace or produce finds
\* room, after is_empty() answered false the consumer's next front, pop or
\* consume an element, however stale the caches these calls begin with.
THEOREM AnswersAreKept ==
  ASSUME "discard_unpeeked" \notin ConsumerOps
  PROVE  Spec => AnswersKept
<1>1. ASSUME Invariant, Results, [Next]_vars
      PROVE  [/\ pRoom /\ pPc = "reload" /\ pOp \in OneOps => pPc' # "idle"
              /\ cSome /\ cPc = "reload" /\ cOp # "read" => cPc' # "idle" \/ cFront']_vars
  <2>a. TypeOK /\ ProducerFrame /\ ConsumerFrame /\ Answers
    BY <1>1 DEF Invariant, Results
  <2>1. ASSUME pRoom, pPc = "reload", pOp \in OneOps PROVE pPc' # "idle"
    <3>0. pGoal # headSeen
      BY <2>1, <2>a DEF ProducerFrame, Answers
    <3>1. CASE ProducerStep \/ IsFull
      BY <2>1, <3>0, <3>1 DEF ProducerStep, Emplace, Produce, StartOne, EmplaceN,
         ProduceN, WriteCopy, WriteTrivial, StartBulk, WriteInternal, ReloadOne,
         ReloadBulk, WriteEach, ReloadEach, Construct, Refuse, Throw, Publish,
         IsFull, OneOps, BulkOps
    <3>2. CASE ConsumerStep \/ IsEmpty
      BY <2>1, <3>2 DEF ConsumerStep, Front, Pop, Consume, StartTake, ReloadTake,
         Discard, Take, ConsumeAll, Drain, Decline, ReadTrivial, ReloadRead,
         CopyRead, Release, IsEmpty, producer
    <3>3. CASE PropagateTail \/ PropagateHead \/ Create \/ Assign \/ Destroy
               \/ UNCHANGED vars
      BY <2>1, <3>3 DEF PropagateTail, PropagateHead, Create, Assign, Destroy, vars,
         producer
    <3> QED BY <1>1, <3>1, <3>2, <3>3 DEF Next
  <2>2. ASSUME cSome, cPc = "reload", cOp # "read" PROVE cPc' # "idle" \/ cFront'
    <3>0. cHead # tailSeen
      BY <2>2, <2>a DEF ConsumerFrame, Answers
    <3>1. CASE ProducerStep \/ IsFull
      BY <2>2, <3>1 DEF ProducerStep, Emplace, Produce, StartOne, EmplaceN, ProduceN,
         WriteCopy, WriteTrivial, StartBulk, WriteInternal, ReloadOne, ReloadBulk,
         WriteEach, ReloadEach, Construct, Refuse, Throw, Publish, IsFull, consumer
    <3>2. CASE ConsumerStep \/ IsEmpty
      BY <2>2, <3>0, <3>2 DEF ConsumerStep, Front, Pop, Consume, StartTake, ReloadTake,
         Reach, Discard, Take, ConsumeAll, Drain, Decline, ReadTrivial, ReloadRead,
         CopyRead, Release, IsEmpty
    <3>3. CASE PropagateTail \/ PropagateHead \/ Create \/ Assign \/ Destroy
               \/ UNCHANGED vars
      BY <2>2, <2>a, <3>3 DEF PropagateTail, PropagateHead, Create, Assign, Destroy,
         vars, consumer, ProducerFrame
    <3> QED BY <1>1, <3>1, <3>2, <3>3 DEF Next
  <2> QED BY <2>1, <2>2
<1>2. Invariant /\ Results /\ [Next]_vars
      => [  /\ pRoom /\ pPc = "reload" /\ pOp \in OneOps => pPc' # "idle"
            /\ cSome /\ cPc = "reload" /\ cOp # "read" => cPc' # "idle" \/ cFront']_vars
  BY <1>1
<1> QED BY <1>2, InvariantHolds, ResultsHold, PTL DEF Spec, AnswersKept

-----------------------------------------------------------------------------
(* A consumer that does not call read is never inside it.                  *)

NotReading == cOp # "read" /\ cPc # "copy"

LEMMA NotReadingStep ==
  ASSUME "read" \notin ConsumerOps, NotReading, [Next]_vars
  PROVE  NotReading'
<1> USE DEF NotReading, consumer
<1>1. CASE ProducerStep \/ IsFull
  BY <1>1 DEF ProducerStep, Emplace, Produce, StartOne, EmplaceN, ProduceN,
     WriteCopy, WriteTrivial, StartBulk, WriteInternal, ReloadOne, ReloadBulk,
     WriteEach, ReloadEach, Construct, Refuse, Throw, Publish, IsFull
<1>2. CASE Front \/ Pop \/ Consume
  BY <1>2 DEF Front, Pop, Consume, StartTake, Reach
<1>3. CASE ReloadTake \/ Discard \/ Take \/ ConsumeAll \/ Drain
  BY <1>3 DEF ReloadTake, Reach, Discard, Take, ConsumeAll, Drain
<1>4. CASE Decline \/ ReloadRead \/ CopyRead \/ Release \/ IsEmpty
  BY <1>4 DEF Decline, ReloadRead, CopyRead, Release, IsEmpty,
     ConsumerReturns, ConsumerLeaves
<1>5. CASE \E n \in Counts : ReadTrivial(n)
  BY <1>5 DEF ReadTrivial
<1>6. CASE PropagateTail \/ PropagateHead
  BY <1>6 DEF PropagateTail, PropagateHead
<1>7. CASE Create \/ Assign \/ Destroy
  BY <1>7 DEF Create, Assign, Destroy, FramesBecome, ConsumerLeaves
<1>8. CASE UNCHANGED vars
  BY <1>8 DEF vars
<1> QED BY <1>1, <1>2, <1>3, <1>4, <1>5, <1>6, <1>7, <1>8 DEF Next, ConsumerStep

-----------------------------------------------------------------------------
(* The content as a sequence.                                              *)

\* The slot of the element with number i, counted from the cursor.
SlotOf(i) == NextBy(cHead, i - 1)

\* From the cursor to the published index, and on to the producer's cursor.
LEMMA Distances ==
  ASSUME TypeOK, Window
  PROVE  /\ Dist(cHead, tail) \in Nat /\ Dist(cHead, pTail) \in Nat
         /\ Dist(cHead, tail) <= Dist(cHead, pTail)
         /\ Dist(cHead, pTail) <= Size - 1
<1>1. /\ Offset(cHead) \in Nat /\ Offset(tailCache) \in Nat
      /\ Offset(tailSeen) \in Nat /\ Offset(tail) \in Nat /\ Offset(pTail) \in Nat
      /\ Dist(cHead, tail) \in Nat /\ Dist(cHead, pTail) \in Nat
      /\ Dist(cHead, pTail) <= Size - 1
  BY Ranges, DistRange DEF Offset
<1>2. Offset(cHead) <= Offset(tail) /\ Offset(tail) <= Offset(pTail)
  BY <1>1 DEF Window
<1>3. /\ Dist(cHead, tail) = Offset(tail) - Offset(cHead)
      /\ Dist(cHead, pTail) = Offset(pTail) - Offset(cHead)
  BY <1>1, <1>2, Ranges, DistBasics DEF Offset
<1> QED BY <1>1, <1>2, <1>3

\* A slot up to the producer's cursor holds a live object.
LEMMA SlotOfLive ==
  ASSUME Invariant, NEW i \in 1 .. Dist(cHead, pTail)
  PROVE  /\ SlotOf(i) \in Slots
         /\ Dist(cHead, SlotOf(i)) = i - 1
         /\ buffer[SlotOf(i)] \in Elem
<1>a. TypeOK /\ Window /\ LiveExactly
  BY DEF Invariant
<1>d. Dist(cHead, pTail) \in Nat /\ Dist(cHead, pTail) <= Size - 1
  BY <1>a, Distances
<1>k. i - 1 \in Nat /\ i - 1 < Dist(cHead, pTail) /\ 0 + (i - 1) < Size
  BY <1>d, SizeAssumption
<1>0. cHead \in Slots /\ Dist(cHead, cHead) = 0
  BY <1>a, Ranges, DistBasics
<1>1. SlotOf(i) \in Slots /\ Dist(cHead, SlotOf(i)) = 0 + (i - 1)
  BY <1>0, <1>k, NextByBasics DEF SlotOf
<1>2. Dist(cHead, SlotOf(i)) = i - 1
  BY <1>1, <1>k
<1>3. buffer[SlotOf(i)] \in Elem
  BY <1>a, <1>1, <1>2, <1>k DEF LiveExactly, TypeOK, Value
<1> QED BY <1>1, <1>2, <1>3

\* A sequence of elements, never longer than Size - 1.
ContentsFine ==
  /\ Contents \in Seq(Elem)
  /\ Len(Contents) = Dist(cHead, tail)
  /\ Len(Contents) \in Nat /\ Len(Contents) <= Size - 1
  /\ \A i \in 1 .. Len(Contents) : Contents[i] = buffer[SlotOf(i)]

LEMMA ContentsIsSeq == Invariant => ContentsFine
<1> SUFFICES ASSUME Invariant PROVE ContentsFine
  OBVIOUS
<1>d. /\ Dist(cHead, tail) \in Nat /\ Dist(cHead, tail) <= Size - 1
      /\ 1 .. Dist(cHead, tail) \subseteq 1 .. Dist(cHead, pTail)
  BY Distances, SizeAssumption DEF Invariant
<1>1. Contents = [i \in 1 .. Dist(cHead, tail) |-> buffer[SlotOf(i)]]
  BY DEF Contents, SlotOf
<1>2. Contents \in [1 .. Dist(cHead, tail) -> Elem]
  BY <1>1, <1>d, SlotOfLive
<1>3. Contents \in Seq(Elem) /\ Len(Contents) = Dist(cHead, tail)
  BY <1>2, <1>d
<1> QED BY <1>1, <1>3, <1>d DEF ContentsFine

\* A step that moves neither end and writes no live slot.
LEMMA ContentsStay ==
  ASSUME Invariant, UNCHANGED <<cHead, tail>>,
         \A i \in Slots : Dist(cHead, i) < Dist(cHead, pTail) => buffer'[i] = buffer[i]
  PROVE  Contents' = Contents
<1>d. 1 .. Dist(cHead, tail) \subseteq 1 .. Dist(cHead, pTail)
  BY Distances, SizeAssumption DEF Invariant
<1>1. Contents = [i \in 1 .. Dist(cHead, tail) |-> buffer[SlotOf(i)]]
  BY DEF Contents, SlotOf
<1>2. Contents' = [i \in 1 .. Dist(cHead, tail) |-> buffer'[SlotOf(i)]]
  BY DEF Contents, SlotOf
<1>3. ASSUME NEW i \in 1 .. Dist(cHead, tail)
      PROVE  buffer'[SlotOf(i)] = buffer[SlotOf(i)]
  <2>1. /\ SlotOf(i) \in Slots /\ Dist(cHead, SlotOf(i)) = i - 1
        /\ Dist(cHead, pTail) \in Nat /\ i <= Dist(cHead, pTail)
    BY <1>d, SlotOfLive, Distances DEF Invariant
  <2> QED BY <2>1
<1> QED BY <1>1, <1>2, <1>3

-----------------------------------------------------------------------------
(* The steps that change it.                                               *)

\* The store of the producer's index appends all that was built.
LEMMA PublishEnqueues ==
  ASSUME Invariant, Invariant', Publish
  PROVE  Fifo!Enqueue
<1> USE DEF Publish, consumer, seen, consumerLine, ContentsFine
<1>c. ContentsFine /\ ContentsFine'
  BY ContentsIsSeq, PTL
<1>a. TypeOK /\ Window
  BY DEF Invariant
<1>2. Len(Contents') \in Len(Contents) .. Size - 1
  <2>1. Len(Contents') = Dist(cHead, pTail)
    BY <1>c
  <2> QED BY <1>a, <1>c, <2>1, Distances, SizeAssumption
<1>3. Contents' \in Seq(Elem) /\ Contents \in Seq(Elem)
  BY <1>c
<1>4. \A i \in 1 .. Len(Contents) : Contents'[i] = Contents[i]
  <2> SUFFICES ASSUME NEW i \in 1 .. Len(Contents)
               PROVE  Contents'[i] = Contents[i]
    OBVIOUS
  <2>1. i \in 1 .. Len(Contents')
    BY <1>2, <1>c
  <2>2. Contents'[i] = buffer'[SlotOf(i)']
    BY <2>1, <1>c
  <2>3. buffer'[SlotOf(i)'] = buffer[SlotOf(i)]
    BY DEF SlotOf
  <2> QED BY <2>2, <2>3, <1>c
<1>5. SubSeq(Contents', 1, Len(Contents)) = Contents
  <2>1. Len(Contents) \in Nat
    BY <1>c
  <2>2. \A i \in 1 .. Len(Contents) : Contents'[i] \in Elem
    BY <1>3, <1>4, ElementOfSeq
  <2>3. /\ SubSeq(Contents', 1, Len(Contents)) \in Seq(Elem)
        /\ Len(SubSeq(Contents', 1, Len(Contents))) = Len(Contents)
        /\ \A i \in 1 .. Len(Contents) :
             SubSeq(Contents', 1, Len(Contents))[i] = Contents'[i]
    BY <2>1, <2>2, SubSeqProperties
  <2> QED BY <1>3, <1>4, <2>3, SeqEqual
<1> QED BY <1>2, <1>3, <1>5 DEF Fifo!Enqueue

\* What follows the cursor is numbered from the next slot on.
LEMMA NextByFromNext ==
  ASSUME NEW a \in Slots, NEW k \in Nat, k + 1 < Size
  PROVE  NextBy(Next1(a), k) = NextBy(a, k + 1)
BY SizeAssumption DEF NextBy, Next1, Slots

\* The element the client is given is the oldest one, and no longer there.
LEMMA TakeElementDequeues ==
  ASSUME Invariant, Invariant', TakeElement, UNCHANGED <<tail, life>>,
         cHead # tail
  PROVE  Fifo!Dequeue
<1> USE DEF TakeElement, ContentsFine
<1>c. ContentsFine /\ ContentsFine'
  BY ContentsIsSeq, PTL
<1>a. TypeOK
  BY DEF Invariant
<1>1. Dist(cHead, tail) > 0
  <2>1. Dist(cHead, cHead) = 0 /\ Dist(cHead, tail) \in Nat
    BY <1>a, Ranges, DistBasics
  <2>2. Dist(cHead, tail) # Dist(cHead, cHead)
    BY <1>a, Ranges, DistBasics
  <2> QED BY <2>1, <2>2
<1>2. Contents \in Seq(Elem) /\ Contents' \in Seq(Elem) /\ Contents # <<>>
  BY <1>1, <1>c, EmptySeq
<1>3. Len(Contents') = Len(Contents) - 1
  <2>1. Dist(Next1(cHead), tail) = Dist(cHead, tail) - 1
    BY <1>a, <1>1, Ranges, StepTowards
  <2>2. Len(Contents') = Dist(cHead', tail')
    BY <1>c
  <2> QED BY <2>1, <2>2, <1>c
<1>4. out' = Head(Contents)
  <2>1. 1 \in 1 .. Len(Contents)
    BY <1>1, <1>c
  <2>2. SlotOf(1) = cHead
    BY <1>a, Ranges, SizeAssumption DEF SlotOf, NextBy, Slots
  <2>3. Contents[1] = buffer[cHead]
    BY <2>1, <2>2, <1>c
  <2> QED BY <1>2, <2>3
<1>5. \A i \in 1 .. Len(Contents) - 1 : Contents'[i] = Contents[i + 1]
  <2> SUFFICES ASSUME NEW i \in 1 .. Len(Contents) - 1
               PROVE  Contents'[i] = Contents[i + 1]
    OBVIOUS
  <2>d. /\ Len(Contents) = Dist(cHead, tail) /\ Len(Contents) \in Nat
        /\ Len(Contents) <= Size - 1
    BY <1>c
  <2>i. /\ i \in 1 .. Len(Contents') /\ i + 1 \in 1 .. Len(Contents)
        /\ i - 1 \in Nat /\ (i - 1) + 1 < Size /\ (i - 1) + 1 = i
    BY <1>3, <2>d, SizeAssumption
  <2>1. Contents'[i] = buffer'[SlotOf(i)']
    BY <2>i, <1>c
  <2>2. SlotOf(i)' = SlotOf(i + 1)
    <3>1. NextBy(Next1(cHead), i - 1) = NextBy(cHead, (i - 1) + 1)
      BY <1>a, <2>i, Ranges, NextByFromNext
    <3>2. (i + 1) - 1 = (i - 1) + 1
      OBVIOUS
    <3> QED BY <3>1, <3>2, Zenon DEF SlotOf
  <2>3. SlotOf(i + 1) # cHead /\ SlotOf(i + 1) \in Slots
    <3>1. Dist(cHead, SlotOf(i + 1)) = i /\ SlotOf(i + 1) \in Slots
      <4>1. (i + 1) - 1 = i
        OBVIOUS
      <4>2. i + 1 \in 1 .. Dist(cHead, pTail)
        BY <2>d, <2>i, Distances DEF Invariant
      <4> QED BY <4>1, <4>2, SlotOfLive
    <3>2. Dist(cHead, cHead) = 0
      BY <1>a, Ranges, DistBasics
    <3> QED BY <3>1, <3>2
  <2>4. buffer'[SlotOf(i + 1)] = buffer[SlotOf(i + 1)]
    BY <1>a, <2>3 DEF TypeOK
  <2>5. Contents[i + 1] = buffer[SlotOf(i + 1)]
    BY <2>i, <1>c
  <2> QED BY <2>1, <2>2, <2>4, <2>5
<1>6. Contents' = Tail(Contents)
  <2>1. /\ Tail(Contents) \in Seq(Elem) /\ Len(Tail(Contents)) = Len(Contents) - 1
        /\ \A i \in 1 .. Len(Tail(Contents)) : Tail(Contents)[i] = Contents[i + 1]
    BY <1>2, HeadTailProperties
  <2> QED BY <1>2, <1>3, <1>5, <2>1, SeqEqual
<1> QED BY <1>2, <1>4, <1>6 DEF Fifo!Dequeue

\* Construction, assignment and destruction replace the whole.
LEMMA LifecycleReplaces ==
  ASSUME Invariant', Create \/ Assign \/ Destroy
  PROVE  Fifo!Replace
<1>c. ContentsFine'
  BY ContentsIsSeq, PTL
<1>1. life' = ~life /\ out' = out
  BY DEF Create, Assign, Destroy
<1> QED BY <1>c, <1>1 DEF ContentsFine, Fifo!Replace, Fifo!TypeOK

\* Where the consumer goes on to take an element, one is published.
LEMMA CursorNotAtTail ==
  ASSUME Invariant, cPc = "take" \/ (cPc = "drain" /\ cHead # cGoal)
  PROVE  cHead # tail
<1>a. TypeOK /\ Window /\ ConsumerFrame
  BY DEF Invariant
<1>o. /\ Offset(cHead) \in Nat /\ Offset(tailCache) \in Nat
      /\ Offset(tailSeen) \in Nat /\ Offset(tail) \in Nat /\ Offset(cGoal) \in Nat
  BY <1>a, Ranges, DistRange DEF Offset
<1>1. Offset(cHead) < Offset(tailCache)
  <2>1. CASE cPc = "take"
    BY <1>a, <2>1, Behind DEF ConsumerFrame
  <2>2. CASE cPc = "drain" /\ cHead # cGoal
    <3>1. Offset(cHead) # Offset(cGoal)
      BY <1>a, <2>2, Ranges, DistBasics DEF Offset
    <3> QED BY <1>a, <1>o, <2>2, <3>1 DEF ConsumerFrame
  <2> QED BY <2>1, <2>2
<1>2. Offset(cHead) < Offset(tail)
  BY <1>a, <1>o, <1>1 DEF Window
<1> QED BY <1>o, <1>2

-----------------------------------------------------------------------------
(* The refinement.                                                         *)

\* Every step is a step of the sequence, or leaves it alone.
LEMMA NextRefines ==
  ASSUME Invariant, Invariant', NotReading, [Next]_vars,
         "read" \notin ConsumerOps
  PROVE  [Fifo!Next]_Fifo!vars
<1>a. TypeOK /\ ConsumerFrame
  BY DEF Invariant
<1>q. ASSUME UNCHANGED <<buffer, cHead, tail, out, life>>
      PROVE  UNCHANGED Fifo!vars
  BY <1>q, ContentsStay DEF Fifo!vars
<1>t. ASSUME TakeElement, UNCHANGED <<tail, life>>,
             cPc = "take" \/ (cPc = "drain" /\ cHead # cGoal)
      PROVE  Fifo!Next
  BY <1>t, CursorNotAtTail, TakeElementDequeues DEF Fifo!Next
<1>1. CASE Emplace \/ Produce \/ ReloadOne \/ ReloadBulk \/ WriteEach
           \/ ReloadEach \/ Refuse \/ Throw \/ IsFull
  BY <1>1, <1>q DEF Emplace, Produce, StartOne, ReloadOne, ReloadBulk, WriteEach,
     ReloadEach, Refuse, Throw, IsFull, producerLine, consumer
<1>2. CASE \E n \in Counts : \/ EmplaceN(n) \/ ProduceN(n) \/ WriteCopy(n)
                            \/ WriteTrivial(n) \/ WriteInternal(n)
  BY <1>2, <1>q DEF EmplaceN, ProduceN, WriteCopy, WriteTrivial, WriteInternal,
     StartBulk, producerLine, consumer
<1>3. CASE Construct
  <2>1. ~(Dist(cHead, pTail) < Dist(cHead, pTail))
    BY <1>a, Ranges, DistRange
  <2>2. \A i \in Slots : Dist(cHead, i) < Dist(cHead, pTail) => buffer'[i] = buffer[i]
    BY <1>3, <1>a, <2>1 DEF Construct, TypeOK
  <2>3. UNCHANGED <<cHead, tail, out, life>>
    BY <1>3 DEF Construct, producerLine, consumer
  <2> QED BY <2>2, <2>3, ContentsStay DEF Fifo!vars
<1>4. CASE Publish
  BY <1>4, PublishEnqueues DEF Fifo!Next
<1>5. CASE Front \/ Pop \/ Consume \/ Discard \/ ConsumeAll
  BY <1>5, <1>a, <1>q DEF Front, Pop, Consume, StartTake, Discard, ConsumeAll,
     ConsumerFrame, producerLine
<1>6. CASE ReloadTake \/ Decline \/ Release \/ IsEmpty
  BY <1>6, <1>q DEF ReloadTake, Decline, Release, IsEmpty, producerLine
<1>7. CASE Take
  <2>1. TakeElement /\ UNCHANGED <<tail, life>> /\ cPc = "take"
    BY <1>7 DEF Take, producerLine
  <2> QED BY <2>1, <1>t
<1>8. CASE Drain
  <2>1. UNCHANGED <<tail, life>> /\ cPc = "drain"
    BY <1>8 DEF Drain, producerLine
  <2>2. CASE cHead # cGoal
    <3>1. TakeElement
      BY <1>8, <2>2 DEF Drain
    <3> QED BY <2>1, <2>2, <3>1, <1>t
  <2>3. CASE cHead = cGoal
    BY <1>8, <2>1, <2>3, <1>q DEF Drain
  <2> QED BY <2>2, <2>3
<1>9. CASE CopyRead \/ ReloadRead \/ \E n \in Counts : ReadTrivial(n)
  BY <1>9 DEF CopyRead, ReloadRead, ReadTrivial, NotReading
<1>10. CASE PropagateTail \/ PropagateHead
  BY <1>10, <1>q DEF PropagateTail, PropagateHead, producerLine, consumer
<1>11. CASE Create \/ Assign \/ Destroy
  BY <1>11, LifecycleReplaces DEF Fifo!Next
<1>12. CASE UNCHANGED vars
  BY <1>12, <1>q DEF vars
<1> QED BY <1>1, <1>2, <1>3, <1>4, <1>5, <1>6, <1>7, <1>8, <1>9, <1>10, <1>11,
           <1>12
        DEF Next, ProducerStep, ConsumerStep

\* At every size, whatever the clients mix but read and an unpeeked discard,
\* and whenever callbacks give up, the queue passes its elements on as a
\* bounded first-in first-out sequence does.
THEOREM ImplementsFifo ==
  ASSUME "discard_unpeeked" \notin ConsumerOps, "read" \notin ConsumerOps
  PROVE  Spec => FifoSpec
<1>1. Init => Fifo!Init
  <2> SUFFICES ASSUME Init PROVE Fifo!Init
    OBVIOUS
  <2>1. ContentsFine
    BY InitInvariant, ContentsIsSeq
  <2> QED BY <2>1 DEF Init, ContentsFine, Fifo!Init, Fifo!TypeOK
<1>2. Init => NotReading
  BY DEF Init, NotReading
<1>3. NotReading /\ [Next]_vars => NotReading'
  BY NotReadingStep
<1>4. Invariant /\ Invariant' /\ NotReading /\ [Next]_vars => [Fifo!Next]_Fifo!vars
  BY NextRefines
<1> QED BY <1>1, <1>2, <1>3, <1>4, InvariantHolds, PTL DEF Spec, FifoSpec, Fifo!Spec
=============================================================================
