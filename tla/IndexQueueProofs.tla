-------------------------- MODULE IndexQueueProofs --------------------------
(***************************************************************************)
(* Theorems about IndexQueue, for every class, every queue size and every  *)
(* set of elements: an inductive invariant and what follows from it, and   *)
(* in the last part that the queue is a first-in first-out queue of        *)
(* Size - 1 elements, every step of it a step of BoundedFifo on Content or *)
(* one that leaves Content alone.  Where a copy threw in an assignment,    *)
(* the slots left out count as elements Raw.                               *)
(***************************************************************************)
EXTENDS IndexQueue, RingProofs, SequenceTheorems

-----------------------------------------------------------------------------
(* Facts every step uses.                                                  *)

\* All indices are slots.
LEMMA Ranges ==
  ASSUME TypeOK
  PROVE  /\ tail \in Slots /\ headCache \in Slots /\ head \in Slots
         /\ tailCache \in Slots /\ tailSeen \in Slots /\ headSeen \in Slots
         /\ cHead \in Slots /\ cGoal \in Slots
BY DEF TypeOK

\* What is live is in a slot.
LEMMA LiveInSlots ==
  ASSUME TypeOK
  PROVE  Live \subseteq Slots
BY Ranges DEF Live, Between

\* Their offsets are numbers below Size.
LEMMA OffsetRanges ==
  ASSUME TypeOK
  PROVE  /\ Offset(headSeen) \in Nat /\ Offset(head) \in Nat
         /\ Offset(cHead) \in Nat /\ Offset(tailCache) \in Nat
         /\ Offset(tailSeen) \in Nat /\ Offset(tail) \in Nat
         /\ Offset(tailCache) <= Size - 1 /\ Offset(tail) <= Size - 1
BY Ranges, DistRange DEF Offset

\* However a class wraps its indices, it is the same.
LEMMA AfterIsNext1 ==
  ASSUME TypeOK, NEW i \in Slots
  PROVE  After(i) = Next1(i)
<1>1. class.wrap \in Wraps
  BY ClassesAssumption DEF TypeOK, ClassType
<1>2. AfterModulo(i) = Next1(i)
  BY NextByModulo DEF AfterModulo
<1>3. AfterCompare(i) = Next1(i) /\ AfterPointer(i) = Next1(i)
  BY DEF AfterCompare, AfterPointer, Next1
<1> QED BY <1>1, <1>2, <1>3 DEF After, Wraps

\* However consume_all counts, it counts the elements taken.
LEMMA DrainedIsDist ==
  ASSUME TypeOK
  PROVE  Drained = Dist(head, cHead)
<1>1. (cHead - head) % Size = Dist(head, cHead)
  BY Ranges, DistByModulo
<1>2. (IF cHead - head < 0 THEN cHead - head + Size ELSE cHead - head)
        = Dist(head, cHead)
  BY Ranges, SizeAssumption DEF Slots, Dist
<1> QED BY <1>1, <1>2 DEF Drained

\* A store is seen at once or not yet.
LEMMA SeenIsOneOf ==
  ASSUME NEW s, NEW v
  PROVE  Seen(s, v) \in {s, v}
BY DEF Seen

\* Distances that do not pass the start once more add up.
LEMMA DistSum ==
  ASSUME NEW a \in Slots, NEW b \in Slots, NEW c \in Slots,
         Dist(a, b) + Dist(b, c) < Size
  PROVE  Dist(a, c) = Dist(a, b) + Dist(b, c)
BY SizeAssumption DEF Slots, Dist

\* Seen from the consumer's cursor, the producer's index is as far as their
\* offsets say.
LEMMA CursorToTail ==
  ASSUME TypeOK, Window
  PROVE  Dist(cHead, tail) = Offset(tail) - Offset(cHead)
<1>1. Offset(cHead) <= Offset(tail)
  BY OffsetRanges DEF Window
<1> QED BY <1>1, Ranges, DistBasics DEF Offset

\* Loading the head moves the origin up to headSeen, which none of the other
\* indices is behind.
LEMMA OriginMoves ==
  ASSUME TypeOK, Window, headCache' = headSeen,
         UNCHANGED <<headSeen, head, cHead, tailCache, tailSeen, tail>>
  PROVE  Window'
<1>1. \A i \in Slots : Offset(headSeen) <= Offset(i) =>
        Dist(headSeen, i) = Offset(i) - Offset(headSeen)
  BY Ranges, DistBasics DEF Offset
<1>2. /\ Offset(headSeen) <= Offset(head) /\ Offset(headSeen) <= Offset(cHead)
      /\ Offset(headSeen) <= Offset(tailCache)
      /\ Offset(headSeen) <= Offset(tailSeen) /\ Offset(headSeen) <= Offset(tail)
  BY OffsetRanges DEF Window
<1>3. /\ Offset(headSeen)' = 0
      /\ Offset(head)' = Offset(head) - Offset(headSeen)
      /\ Offset(cHead)' = Offset(cHead) - Offset(headSeen)
      /\ Offset(tailCache)' = Offset(tailCache) - Offset(headSeen)
      /\ Offset(tailSeen)' = Offset(tailSeen) - Offset(headSeen)
      /\ Offset(tail)' = Offset(tail) - Offset(headSeen)
  BY <1>1, <1>2, Ranges, DistBasics DEF Offset
<1> QED BY <1>2, <1>3, OffsetRanges DEF Window

-----------------------------------------------------------------------------
(* The producer's steps.                                                   *)

\* An index that does not come up to the cached head leaves one slot more.
LEMMA EnqueueStep ==
  ASSUME Invariant, Enqueue
  PROVE  Invariant'
<1> USE DEF Enqueue, choice, consumer
<1>a. TypeOK /\ Window /\ ProducerFrame /\ ConsumerFrame /\ LiveExactly
  BY DEF Invariant
<1>1. TypeOK'
  BY <1>a DEF TypeOK
<1>2. Window' /\ ConsumerFrame'
  BY <1>a DEF Window, ConsumerFrame, Offset
<1>3. ProducerFrame'
  <2>1. pPc' = "fill" => Next1(tail) # headCache
    BY <1>a, Ranges, AfterIsNext1
  <2>2. Next1(tail) # headCache => Offset(tail) < Size - 1
    BY <1>a, Ranges, NextFits DEF Offset
  <2> QED BY <2>1, <2>2 DEF ProducerFrame, Offset
<1>4. LiveExactly'
  BY <1>a DEF LiveExactly, Live, Between
<1> QED BY <1>1, <1>2, <1>3, <1>4 DEF Invariant

\* The same with the head just loaded.
LEMMA LoadHeadStep ==
  ASSUME Invariant, LoadHead
  PROVE  Invariant'
<1> USE DEF LoadHead, choice, consumer
<1>a. TypeOK /\ Window /\ ProducerFrame /\ ConsumerFrame /\ LiveExactly
  BY DEF Invariant
<1>1. TypeOK'
  BY <1>a DEF TypeOK
<1>2. Window'
  BY <1>a, OriginMoves
<1>3. ConsumerFrame'
  BY <1>a DEF ConsumerFrame
<1>4. ProducerFrame'
  <2>1. pPc' = "fill" => Next1(tail) # headSeen
    BY <1>a, Ranges, AfterIsNext1
  <2>2. Next1(tail) # headSeen => Dist(headSeen, tail) < Size - 1
    BY <1>a, Ranges, NextFits
  <2> QED BY <2>1, <2>2 DEF ProducerFrame, Offset
<1>5. LiveExactly'
  BY <1>a DEF LiveExactly, Live, Between
<1> QED BY <1>1, <1>2, <1>3, <1>4, <1>5 DEF Invariant

\* The slot built in becomes the newest live one.
LEMMA ConstructStep ==
  ASSUME Invariant, Construct
  PROVE  Invariant'
<1> USE DEF Construct, choice, consumer
<1>a. TypeOK /\ Window /\ ProducerFrame /\ ConsumerFrame /\ LiveExactly
  BY DEF Invariant
<1>e. PICK e \in Elem : buffer' = [buffer EXCEPT ![tail] = e]
  OBVIOUS
<1>1. TypeOK'
  BY <1>a, <1>e DEF TypeOK, Value
<1>2. Window' /\ ConsumerFrame'
  BY <1>a DEF Window, ConsumerFrame, Offset
<1>3. ProducerFrame'
  BY <1>a DEF ProducerFrame, Offset
<1>4. LiveExactly'
  <2>1. Live' = Live \cup {tail}
    BY DEF Live, Between
  <2>2. tail \in Slots /\ buffer'[tail] # Raw
    BY <1>a, <1>e, ElemAssumption DEF TypeOK
  <2>3. \A i \in Slots : i # tail => buffer'[i] = buffer[i]
    BY <1>a, <1>e DEF TypeOK
  <2> QED BY <1>a, <2>1, <2>2, <2>3, LiveInSlots DEF LiveExactly
<1> QED BY <1>1, <1>2, <1>3, <1>4 DEF Invariant

\* A constructor that throws has left nothing in the slot.
LEMMA ThrowStep ==
  ASSUME Invariant, Throw
  PROVE  Invariant'
<1> USE DEF Throw, choice, consumer
<1>1. TypeOK' /\ Window' /\ ConsumerFrame' /\ ProducerFrame'
  BY DEF Invariant, TypeOK, Window, ConsumerFrame, ProducerFrame, Offset
<1>2. LiveExactly'
  BY DEF Invariant, LiveExactly, Live, Between
<1> QED BY <1>1, <1>2 DEF Invariant

\* The slots up to an index and that slot are the slots up to the next one.
LEMMA BetweenNext ==
  ASSUME NEW a \in Slots, NEW b \in Slots, Dist(a, b) < Size - 1
  PROVE  Between(a, Next1(b)) = Between(a, b) \cup {b}
<1>1. Dist(a, Next1(b)) = Dist(a, b) + 1
  BY NextBasics
<1>2. ASSUME NEW i \in Slots
      PROVE  Dist(a, i) < Dist(a, Next1(b)) <=> Dist(a, i) < Dist(a, b) \/ i = b
  <2>1. Dist(a, i) \in Nat /\ Dist(a, b) \in Nat
    BY DistRange
  <2>2. Dist(a, i) = Dist(a, b) <=> i = b
    BY DistBasics
  <2> QED BY <1>1, <2>1, <2>2
<1> QED BY <1>2 DEF Between

\* The index moves over the slot just built in.
LEMMA StoreTailStep ==
  ASSUME Invariant, StoreTail
  PROVE  Invariant'
<1> USE DEF StoreTail, choice, consumer
<1>a. TypeOK /\ Window /\ ProducerFrame /\ ConsumerFrame /\ LiveExactly
  BY DEF Invariant
<1>n. tail' = Next1(tail) /\ tailSeen' \in {tailSeen, Next1(tail)}
  BY <1>a, Ranges, AfterIsNext1, SeenIsOneOf
<1>f. Offset(tail) < Size - 1
  BY <1>a DEF ProducerFrame
<1>o. Next1(tail) \in Slots /\ Offset(Next1(tail)) = Offset(tail) + 1
  BY <1>a, <1>f, Ranges, NextBasics DEF Offset
<1>1. TypeOK'
  BY <1>a, <1>n, <1>o DEF TypeOK
<1>2. Window'
  <2>1. /\ Offset(headSeen)' = Offset(headSeen) /\ Offset(head)' = Offset(head)
        /\ Offset(cHead)' = Offset(cHead) /\ Offset(tailCache)' = Offset(tailCache)
        /\ Offset(tail)' = Offset(tail) + 1
        /\ Offset(tailSeen)' \in {Offset(tailSeen), Offset(tail) + 1}
    BY <1>n, <1>o DEF Offset
  <2> QED BY <1>a, <2>1, OffsetRanges DEF Window
<1>3. ProducerFrame' /\ ConsumerFrame'
  BY <1>a DEF ProducerFrame, ConsumerFrame
<1>4. LiveExactly'
  <2>1. Dist(cHead, tail) < Size - 1
    BY <1>a, <1>f, CursorToTail, OffsetRanges, SizeAssumption
  <2>2. Live' = Live
    BY <1>a, <1>n, <2>1, Ranges, BetweenNext DEF Live, Between
  <2> QED BY <1>a, <2>2 DEF LiveExactly
<1> QED BY <1>1, <1>2, <1>3, <1>4 DEF Invariant

-----------------------------------------------------------------------------
(* The consumer's steps.                                                   *)

\* dequeue() goes on only with a cached tail that is not its own index.
LEMMA DequeueStep ==
  ASSUME Invariant, Dequeue
  PROVE  Invariant'
<1> USE DEF Dequeue, choice, producer
<1>1. TypeOK' /\ Window' /\ ConsumerFrame' /\ ProducerFrame'
  BY DEF Invariant, TypeOK, Window, ConsumerFrame, ProducerFrame, Offset
<1>2. LiveExactly'
  BY DEF Invariant, LiveExactly, Live, Between
<1> QED BY <1>1, <1>2 DEF Invariant

\* The cached tail catches up with what is visible of the tail.
LEMMA LoadTailStep ==
  ASSUME Invariant, LoadTail
  PROVE  Invariant'
<1> USE DEF LoadTail, choice, producer
<1>a. TypeOK /\ Window /\ ProducerFrame /\ ConsumerFrame /\ LiveExactly
  BY DEF Invariant
<1>1. TypeOK'
  BY <1>a DEF TypeOK
<1>2. Window'
  <2>1. Offset(cHead) <= Offset(tailSeen)
    BY <1>a, OffsetRanges DEF Window
  <2> QED BY <1>a, <2>1, OffsetRanges DEF Window, Offset
<1>3. ConsumerFrame' /\ ProducerFrame'
  BY <1>a DEF ConsumerFrame, ProducerFrame, Offset
<1>4. LiveExactly'
  BY <1>a DEF LiveExactly, Live, Between
<1> QED BY <1>1, <1>2, <1>3, <1>4 DEF Invariant

\* Leaving the first slot out, the slots up to an index are the others.
LEMMA BetweenRest ==
  ASSUME NEW a \in Slots, NEW b \in Slots, Dist(a, b) > 0
  PROVE  Between(Next1(a), b) = Between(a, b) \ {a}
<1>1. Dist(Next1(a), b) = Dist(a, b) - 1 /\ Next1(a) \in Slots
  BY StepTowards, NextBasics
<1>2. ASSUME NEW i \in Slots
      PROVE  Dist(Next1(a), i) < Dist(Next1(a), b)
               <=> Dist(a, i) < Dist(a, b) /\ i # a
  <2>1. CASE i = a
    <3>1. Dist(Next1(a), i) = Size - 1
      BY <2>1, StepAway
    <3>2. Dist(a, b) <= Size - 1 /\ Dist(a, b) \in Nat
      BY DistRange
    <3> QED BY <1>1, <2>1, <3>1, <3>2, SizeAssumption
  <2>2. CASE i # a
    <3>1. Dist(a, i) > 0
      BY <2>2, DistBasics
    <3>2. Dist(Next1(a), i) = Dist(a, i) - 1
      BY <3>1, StepTowards
    <3> QED BY <1>1, <2>2, <3>2, DistRange
  <2> QED BY <2>1, <2>2
<1> QED BY <1>2 DEF Between

\* Taking the element at the cursor: the cursor moves up to the cached tail at
\* most, and the slot it leaves is the one that is no longer live.
LEMMA TakeElementStep ==
  ASSUME TypeOK, Window, LiveExactly, TakeElement,
         Offset(cHead) < Offset(tailCache),
         UNCHANGED <<headCache, head, tail, tailCache, tailSeen, headSeen, pPc, torn>>
  PROVE  /\ Window' /\ LiveExactly'
         /\ cHead' \in Slots /\ buffer' \in [Slots -> Value] /\ out' \in Value
         /\ Dist(head, cHead') = Dist(head, cHead) + 1
<1> USE DEF TakeElement
<1>n. cHead' = Next1(cHead)
  BY Ranges, AfterIsNext1
<1>o. /\ cHead' \in Slots /\ Offset(cHead) < Size - 1
      /\ Offset(cHead)' = Offset(cHead) + 1
  <2>1. Offset(cHead) < Size - 1
    BY OffsetRanges, SizeAssumption
  <2> QED BY <1>n, <2>1, Ranges, NextBasics DEF Offset
<1>1. Window'
  <2>1. /\ Offset(headSeen)' = Offset(headSeen) /\ Offset(head)' = Offset(head)
        /\ Offset(tailCache)' = Offset(tailCache)
        /\ Offset(tailSeen)' = Offset(tailSeen) /\ Offset(tail)' = Offset(tail)
    BY DEF Offset
  <2> QED BY <1>o, <2>1, OffsetRanges DEF Window
<1>2. Dist(head, cHead') = Dist(head, cHead) + 1
  <2>1. Dist(head, cHead) = Offset(cHead) - Offset(head)
    BY OffsetRanges, Ranges, DistBasics DEF Window, Offset
  <2>2. Dist(head, cHead) < Size - 1
    BY <1>o, <2>1, OffsetRanges, SizeAssumption
  <2> QED BY <1>n, <2>2, Ranges, NextBasics
<1>3. buffer' \in [Slots -> Value] /\ out' \in Value
  BY DEF TypeOK, Value
<1>4. LiveExactly'
  <2>1. Dist(cHead, tail) > 0
    BY CursorToTail, OffsetRanges DEF Window
  <2>2. Between(cHead', tail') = Between(cHead, tail) \ {cHead}
    BY <1>n, <2>1, Ranges, BetweenRest
  <2>3. cHead # tail
    BY <2>1, Ranges, DistBasics
  <2>4. Live' = Live \ {cHead}
    BY <2>2, <2>3 DEF Live
  <2>5. buffer'[cHead] = Raw /\ \A i \in Slots : i # cHead => buffer'[i] = buffer[i]
    BY Ranges DEF TypeOK
  <2> QED BY <2>4, <2>5, LiveInSlots DEF LiveExactly
<1> QED BY <1>o, <1>1, <1>2, <1>3, <1>4

\* A cursor that is not the cached tail is before it.
LEMMA CursorBefore ==
  ASSUME TypeOK, Window, cHead # tailCache
  PROVE  Offset(cHead) < Offset(tailCache)
<1>1. Offset(cHead) # Offset(tailCache)
  BY Ranges, DistBasics DEF Offset
<1> QED BY <1>1, OffsetRanges DEF Window

LEMMA TakeStep ==
  ASSUME Invariant, Take
  PROVE  Invariant'
<1> USE DEF Take, choice, producer
<1>a. TypeOK /\ Window /\ ProducerFrame /\ ConsumerFrame /\ LiveExactly
  BY DEF Invariant
<1>c. cHead = head /\ Offset(cHead) < Offset(tailCache)
  BY <1>a, CursorBefore DEF ConsumerFrame
<1>t. /\ Window' /\ LiveExactly'
      /\ cHead' \in Slots /\ buffer' \in [Slots -> Value] /\ out' \in Value
      /\ Dist(head, cHead') = Dist(head, cHead) + 1
  BY <1>a, <1>c, TakeElementStep
<1>1. TypeOK'
  BY <1>a, <1>t, SizeAssumption DEF TypeOK
<1>2. ConsumerFrame'
  BY <1>c, <1>t, Ranges, DistBasics, <1>a DEF ConsumerFrame
<1>3. ProducerFrame'
  BY <1>a DEF ProducerFrame, Offset
<1> QED BY <1>t, <1>1, <1>2, <1>3 DEF Invariant

\* consume_all drains up to the tail it has just cached.
LEMMA ConsumeAllStep ==
  ASSUME Invariant, ConsumeAll
  PROVE  Invariant'
<1> USE DEF ConsumeAll, choice, producer
<1>a. TypeOK /\ Window /\ ProducerFrame /\ ConsumerFrame /\ LiveExactly
  BY DEF Invariant
<1>1. TypeOK'
  BY <1>a DEF TypeOK
<1>2. Window'
  <2>1. Offset(cHead) <= Offset(tailSeen)
    BY <1>a, OffsetRanges DEF Window
  <2> QED BY <1>a, <2>1, OffsetRanges DEF Window, Offset
<1>3. ConsumerFrame' /\ ProducerFrame'
  BY <1>a DEF ConsumerFrame, ProducerFrame, Offset
<1>4. LiveExactly'
  BY <1>a DEF LiveExactly, Live, Between
<1> QED BY <1>1, <1>2, <1>3, <1>4 DEF Invariant

\* What consume_all returns fits its type.
LEMMA CountInRange ==
  ASSUME TypeOK
  PROVE  Drained \in 0 .. Size /\ Drained = Dist(head, cHead)
BY DrainedIsDist, Ranges, DistRange, SizeAssumption

LEMMA DrainStep ==
  ASSUME Invariant, Drain
  PROVE  Invariant'
<1> USE DEF choice, producer
<1>a. TypeOK /\ Window /\ ProducerFrame /\ ConsumerFrame /\ LiveExactly
  BY DEF Invariant
<1>g. cGoal = tailCache /\ cPc = "drain"
  BY <1>a DEF Drain, ConsumerFrame
<1>3. ProducerFrame'
  BY <1>a DEF Drain, ProducerFrame, Offset
<1>4. CASE cHead # cGoal
  <2>t. /\ Window' /\ LiveExactly'
        /\ cHead' \in Slots /\ buffer' \in [Slots -> Value] /\ out' \in Value
    BY <1>a, <1>g, <1>4, CursorBefore, TakeElementStep DEF Drain
  <2>1. TypeOK'
    BY <1>a, <1>4, <2>t DEF TypeOK, Drain
  <2>2. ConsumerFrame'
    BY <1>g, <1>4 DEF ConsumerFrame, Drain
  <2> QED BY <1>3, <2>t, <2>1, <2>2 DEF Invariant
<1>5. CASE cHead = cGoal
  <2>1. TypeOK'
    BY <1>a, <1>5, CountInRange DEF TypeOK, Drain
  <2>2. ConsumerFrame'
    BY <1>a, <1>5, CountInRange DEF ConsumerFrame, Drain
  <2>3. Window'
    BY <1>a, <1>5 DEF Window, Offset, Drain
  <2>4. LiveExactly'
    BY <1>a, <1>5 DEF LiveExactly, Live, Between, Drain
  <2> QED BY <1>3, <2>1, <2>2, <2>3, <2>4 DEF Invariant
<1> QED BY <1>4, <1>5

\* A callback that gives up leaves the element where it is.
LEMMA DeclineStep ==
  ASSUME Invariant, Decline
  PROVE  Invariant'
<1> USE DEF Decline, choice, producer
<1>a. TypeOK /\ Window /\ ProducerFrame /\ ConsumerFrame /\ LiveExactly
  BY DEF Invariant
<1>1. TypeOK'
  BY <1>a, CountInRange DEF TypeOK
<1>2. ConsumerFrame'
  BY <1>a, CountInRange DEF ConsumerFrame
<1>3. Window' /\ ProducerFrame'
  BY <1>a DEF Window, ProducerFrame, Offset
<1>4. LiveExactly'
  BY <1>a DEF LiveExactly, Live, Between
<1> QED BY <1>1, <1>2, <1>3, <1>4 DEF Invariant

\* The head catches up with the cursor.
LEMMA StoreHeadStep ==
  ASSUME Invariant, StoreHead
  PROVE  Invariant'
<1> USE DEF StoreHead, choice, producer
<1>a. TypeOK /\ Window /\ ProducerFrame /\ ConsumerFrame /\ LiveExactly
  BY DEF Invariant
<1>s. headSeen' \in {headSeen, cHead}
  BY SeenIsOneOf
<1>1. TypeOK'
  BY <1>a, <1>s, SizeAssumption DEF TypeOK, Slots
<1>2. Window'
  <2>1. Offset(headSeen)' \in {Offset(headSeen), Offset(cHead)}
    BY <1>s DEF Offset
  <2> QED BY <1>a, <2>1, OffsetRanges DEF Window, Offset
<1>3. ConsumerFrame' /\ ProducerFrame'
  BY <1>a DEF ConsumerFrame, ProducerFrame, Offset
<1>4. LiveExactly'
  BY <1>a DEF LiveExactly, Live, Between
<1> QED BY <1>1, <1>2, <1>3, <1>4 DEF Invariant

-----------------------------------------------------------------------------
(* The other steps.                                                        *)

\* A load that sees the newest tail stays behind it.
LEMMA PropagateTailStep ==
  ASSUME Invariant, PropagateTail
  PROVE  Invariant'
<1> USE DEF PropagateTail, choice, producer, consumer
<1>a. TypeOK /\ Window /\ ProducerFrame /\ ConsumerFrame /\ LiveExactly
  BY DEF Invariant
<1>1. TypeOK' /\ ConsumerFrame' /\ ProducerFrame'
  BY <1>a DEF TypeOK, ConsumerFrame, ProducerFrame, Offset
<1>2. Window'
  BY <1>a, OffsetRanges DEF Window, Offset
<1>3. LiveExactly'
  BY <1>a DEF LiveExactly, Live, Between
<1> QED BY <1>1, <1>2, <1>3 DEF Invariant

\* So does one that sees the newest head.
LEMMA PropagateHeadStep ==
  ASSUME Invariant, PropagateHead
  PROVE  Invariant'
<1> USE DEF PropagateHead, choice, producer, consumer
<1>a. TypeOK /\ Window /\ ProducerFrame /\ ConsumerFrame /\ LiveExactly
  BY DEF Invariant
<1>1. TypeOK' /\ ConsumerFrame' /\ ProducerFrame'
  BY <1>a DEF TypeOK, ConsumerFrame, ProducerFrame, Offset
<1>2. Window'
  BY <1>a, OffsetRanges DEF Window, Offset
<1>3. LiveExactly'
  BY <1>a DEF LiveExactly, Live, Between
<1> QED BY <1>1, <1>2, <1>3 DEF Invariant

\* The other queue's indices come in order.
LEMMA TakeOverOrders ==
  ASSUME NEW h \in Slots, NEW t \in Slots, NEW hc \in Slots, NEW tc \in Slots,
         Resting(h, t, hc, tc), TakeOver(h, t, hc, tc)
  PROVE  Window'
<1>1. /\ Dist(hc, h) \in Nat /\ Dist(h, tc) \in Nat /\ Dist(tc, t) \in Nat
  BY DistRange
<1>2. Dist(hc, h) + Dist(h, tc) + Dist(tc, t) < Size
  BY DEF Resting
<1>3. Dist(hc, tc) = Dist(hc, h) + Dist(h, tc)
  BY <1>1, <1>2, DistSum, SizeAssumption
<1>4. Dist(hc, t) = Dist(hc, tc) + Dist(tc, t)
  BY <1>1, <1>2, <1>3, DistSum, SizeAssumption
<1> QED BY <1>1, <1>3, <1>4 DEF Window, Offset, TakeOver

\* A queue that is assigned to has exactly the copied elements.
LEMMA AssignStep ==
  ASSUME Invariant, Assign
  PROVE  Invariant'
<1> USE DEF choice
<1>a. TypeOK /\ Window /\ ProducerFrame /\ ConsumerFrame /\ LiveExactly
  BY DEF Invariant
<1>i. pPc = "idle" /\ cPc = "idle" /\ pPc' = "idle" /\ cPc' = "idle" /\ cHead = head
  BY <1>a DEF Assign, AssignBegins, ConsumerFrame
<1>h. PICK h \in Slots, t \in Slots, hc \in Slots, tc \in Slots :
        /\ Resting(h, t, hc, tc)
        /\ \E e \in Elem : /\ buffer' = Copied(Destroyed, e, h, t)
                           /\ TakeOver(h, t, hc, tc)
  BY HeadsAssumption DEF Assign
<1>e. PICK e \in Elem : buffer' = Copied(Destroyed, e, h, t)
  BY <1>h
<1>1. TypeOK'
  <2>1. buffer' \in [Slots -> Value]
    BY <1>a, <1>e DEF Copied, Destroyed, Value, TypeOK
  <2> QED BY <1>a, <1>h, <2>1 DEF TypeOK, Assign, TakeOver
<1>2. Window'
  BY <1>h, TakeOverOrders
<1>3. ProducerFrame' /\ ConsumerFrame'
  BY <1>h, <1>i DEF ProducerFrame, ConsumerFrame, TakeOver
<1>4. LiveExactly'
  <2>1. Live' = Between(h, t)
    BY <1>h, <1>i DEF Live, Between, TakeOver
  <2>2. \A i \in Slots : Destroyed[i] = Raw
    BY <1>a, <1>i DEF LiveExactly, Live, Destroyed, Between
  <2>3. \A i \in Slots : buffer'[i] # Raw <=> i \in Between(h, t)
    BY <1>e, <2>2, ElemAssumption DEF Copied, Between
  <2>4. Between(h, t) \subseteq Slots
    BY DEF Between
  <2> QED BY <2>1, <2>3, <2>4 DEF LiveExactly
<1> QED BY <1>1, <1>2, <1>3, <1>4 DEF Invariant

\* One that was left half done still has its indices in order, and leaks nothing.
LEMMA AssignThrowsStep ==
  ASSUME Invariant, AssignThrows
  PROVE  Invariant'
<1> USE DEF choice
<1>a. TypeOK /\ ConsumerFrame /\ LiveExactly
  BY DEF Invariant
<1>i. pPc = "idle" /\ cPc = "idle" /\ pPc' = "idle" /\ cPc' = "idle" /\ cHead = head
  BY <1>a DEF AssignThrows, AssignBegins, ConsumerFrame
<1>h. PICK h \in Slots, t \in Slots, hc \in Slots, tc \in Slots :
        /\ Resting(h, t, hc, tc)
        /\ \E e \in Elem, m \in Between(h, t) :
             /\ buffer' = Copied(Destroyed, e, h, m)
             /\ TakeOver(h, t, hc, tc)
  BY HeadsAssumption DEF AssignThrows
<1>e. PICK e \in Elem, m \in Between(h, t) : buffer' = Copied(Destroyed, e, h, m)
  BY <1>h
<1>1. TypeOK'
  <2>1. buffer' \in [Slots -> Value]
    BY <1>a, <1>e DEF Copied, Destroyed, Value, TypeOK
  <2> QED BY <1>a, <1>h, <2>1 DEF TypeOK, AssignThrows, TakeOver
<1>2. Window'
  BY <1>h, TakeOverOrders
<1>3. ProducerFrame' /\ ConsumerFrame'
  BY <1>h, <1>i DEF ProducerFrame, ConsumerFrame, TakeOver
<1>4. LiveExactly'
  <2>1. Live' = Between(h, t)
    BY <1>h, <1>i DEF Live, Between, TakeOver
  <2>2. \A i \in Slots : Destroyed[i] = Raw
    BY <1>a, <1>i DEF LiveExactly, Live, Destroyed, Between
  <2>3. \A i \in Slots : Dist(h, i) < Dist(h, m) => Dist(h, i) < Dist(h, t)
    BY DistRange DEF Between
  <2>4. \A i \in Slots : buffer'[i] # Raw => i \in Between(h, t)
    BY <1>e, <2>2, <2>3 DEF Copied, Between
  <2> QED BY <2>1, <2>4 DEF LiveExactly, AssignThrows
<1> QED BY <1>1, <1>2, <1>3, <1>4 DEF Invariant

-----------------------------------------------------------------------------
(* The theorems.                                                           *)

\* Every queue starts empty.
LEMMA InitInvariant == Init => Invariant
<1> SUFFICES ASSUME Init PROVE Invariant
  OBVIOUS
<1> USE DEF Init
<1>1. 0 \in Slots /\ Dist(0, 0) = 0
  BY SizeAssumption, DistBasics DEF Slots
<1>2. TypeOK
  <2>1. buffer \in [Slots -> Value] /\ out \in Value
    BY DEF Value
  <2>2. 0 \in 0 .. Size
    BY SizeAssumption
  <2> QED BY <1>1, <2>1, <2>2 DEF TypeOK
<1>3. Window /\ ProducerFrame /\ ConsumerFrame
  BY <1>1 DEF Window, Offset, ProducerFrame, ConsumerFrame
<1>4. LiveExactly
  <2>1. Between(0, 0) = {}
    BY <1>1, DistRange DEF Between
  <2> QED BY <2>1 DEF LiveExactly, Live
<1> QED BY <1>2, <1>3, <1>4 DEF Invariant

\* Every step preserves the invariant.
LEMMA NextInvariant ==
  ASSUME Invariant, [Next]_vars
  PROVE  Invariant'
<1>1. CASE ProducerStep
  BY <1>1, EnqueueStep, LoadHeadStep, ConstructStep, ThrowStep, StoreTailStep
  DEF ProducerStep
<1>2. CASE ConsumerStep
  BY <1>2, DequeueStep, LoadTailStep, TakeStep, ConsumeAllStep, DrainStep,
     DeclineStep, StoreHeadStep DEF ConsumerStep
<1>3. CASE PropagateTail \/ PropagateHead \/ Assign \/ AssignThrows
  BY <1>3, PropagateTailStep, PropagateHeadStep, AssignStep, AssignThrowsStep
<1>4. CASE UNCHANGED vars
  BY <1>4 DEF vars, Invariant, TypeOK, Window, Offset, ProducerFrame,
              ConsumerFrame, LiveExactly, Live, Between
<1> QED BY <1>1, <1>2, <1>3, <1>4 DEF Next

\* The inductive invariant holds throughout every behaviour.
THEOREM InvariantHolds == Spec => []Invariant
<1>1. Init => Invariant
  BY InitInvariant
<1>2. Invariant /\ [Next]_vars => Invariant'
  BY NextInvariant
<1> QED BY <1>1, <1>2, PTL DEF Spec

\* No index leaves the buffer, whichever way its class wraps it.
THEOREM TypeCorrect == Spec => []TypeOK
<1>1. Invariant => TypeOK
  BY DEF Invariant
<1> QED BY <1>1, InvariantHolds, PTL

\* No element is leaked, destroyed twice or taken where there is none, whatever
\* constructors of single elements and callbacks do; but if a copy threw in an
\* assignment, all that holds is that none is leaked.
THEOREM LifetimesExact == Spec => []LiveExactly
<1>1. Invariant => LiveExactly
  BY DEF Invariant, LiveExactly
<1> QED BY <1>1, InvariantHolds, PTL

\* Where the producer builds was given back and acquired, and is not alive.
LEMMA ProducerSide ==
  ASSUME Invariant, pPc = "fill"
  PROVE  Dist(headSeen, tail) < Size - 1 /\ buffer[tail] = Raw
<1>a. TypeOK /\ Window /\ ProducerFrame /\ LiveExactly
  BY DEF Invariant
<1>1. Offset(headSeen) <= Offset(tail)
  BY <1>a, OffsetRanges DEF Window
<1>2. Dist(headSeen, tail) = Offset(tail) - Offset(headSeen)
  BY <1>a, <1>1, Ranges, DistBasics DEF Offset
<1>3. Dist(headSeen, tail) < Size - 1
  BY <1>a, <1>2, OffsetRanges, SizeAssumption DEF ProducerFrame
<1>4. tail \notin Live
  <2>1. ~(Dist(cHead, tail) < Dist(cHead, tail))
    BY <1>a, Ranges, DistRange
  <2> QED BY <2>1 DEF Live, Between
<1> QED BY <1>a, <1>3, <1>4, Ranges DEF LiveExactly

\* What the consumer takes was published and acquired, and is alive unless it
\* was left out by an assignment.
LEMMA ConsumerSide ==
  ASSUME Invariant, cPc = "take" \/ (cPc = "drain" /\ cHead # cGoal)
  PROVE  cHead \in Between(head, tailSeen) /\ (torn \/ buffer[cHead] # Raw)
<1>a. TypeOK /\ Window /\ ConsumerFrame /\ LiveExactly
  BY DEF Invariant
<1>1. Offset(cHead) < Offset(tailCache)
  BY <1>a, CursorBefore DEF ConsumerFrame
<1>2. /\ Offset(head) <= Offset(cHead) /\ Offset(cHead) < Offset(tailSeen)
      /\ Offset(head) <= Offset(tailSeen) /\ Offset(cHead) < Offset(tail)
  BY <1>a, <1>1, OffsetRanges DEF Window
<1>3. /\ Dist(head, cHead) = Offset(cHead) - Offset(head)
      /\ Dist(head, tailSeen) = Offset(tailSeen) - Offset(head)
  BY <1>a, <1>2, Ranges, DistBasics DEF Offset
<1>4. cHead \in Between(head, tailSeen)
  BY <1>a, <1>2, <1>3, Ranges, OffsetRanges DEF Between
<1>5. cHead \in Live
  <2>1. Dist(cHead, cHead) = 0 /\ Dist(cHead, tail) > 0
    BY <1>a, <1>2, CursorToTail, OffsetRanges, Ranges, DistBasics
  <2> QED BY <1>a, <2>1, Ranges DEF Live, Between
<1> QED BY <1>a, <1>4, <1>5, Ranges DEF LiveExactly

\* The plain accesses of the two threads never race, also behind an assignment
\* that threw.
THEOREM NoRace == Spec => []HandedOver
<1>1. Invariant => HandedOver
  BY ProducerSide, ConsumerSide DEF HandedOver
<1> QED BY <1>1, InvariantHolds, PTL

\* consume and consume_all return the number of elements they took, if there was
\* one to take: calls that find nothing are not looked at, and there
\* spsc_queue::consume_all returns true.
THEOREM CountsExact == Spec => DrainCount
<1>1. ASSUME Invariant, Next, cPc = "store", cPc' = "idle"
      PROVE  cCount = Dist(head, head')
  <2>1. cCount = Dist(head, cHead)
    BY <1>1 DEF Invariant, ConsumerFrame
  <2>2. StoreHead
    BY <1>1 DEF Next, ProducerStep, ConsumerStep, Enqueue, LoadHead, Construct,
                Throw, StoreTail, Dequeue, LoadTail, Take, ConsumeAll, Drain,
                Decline, PropagateTail, PropagateHead, Assign, AssignThrows,
                consumer
  <2> QED BY <2>1, <2>2 DEF StoreHead
<1>2. Invariant /\ [Next]_vars
        => [cPc = "store" /\ cPc' = "idle" => cCount = Dist(head, head')]_vars
  BY <1>1
<1> QED BY <1>2, InvariantHolds, PTL DEF Spec, DrainCount

-----------------------------------------------------------------------------
(* The content as a sequence.                                              *)

\* The slot of the element with number i, counted from the cursor.
SlotOf(i) == (cHead + (i - 1)) % Size

\* Its slot is live.
LEMMA SlotOfLive ==
  ASSUME Invariant, NEW i \in 1 .. Dist(cHead, tail)
  PROVE  /\ SlotOf(i) \in Slots
         /\ Dist(cHead, SlotOf(i)) = i - 1
         /\ SlotOf(i) \in Between(cHead, tail)
         /\ buffer[SlotOf(i)] \in Value
<1>a. TypeOK
  BY DEF Invariant
<1>d. Dist(cHead, tail) \in Nat /\ Dist(cHead, tail) <= Size - 1
  BY <1>a, Ranges, DistRange
<1>k. i - 1 \in Nat /\ i - 1 < Dist(cHead, tail) /\ i - 1 < Size
  BY <1>d, SizeAssumption
<1>1. SlotOf(i) \in Slots /\ Dist(cHead, SlotOf(i)) = i - 1
  BY <1>a, <1>k, Ranges, StepsOn DEF SlotOf
<1>2. SlotOf(i) \in Between(cHead, tail)
  BY <1>1, <1>k DEF Between
<1>3. buffer[SlotOf(i)] \in Value
  BY <1>a, <1>1 DEF TypeOK
<1> QED BY <1>1, <1>2, <1>3

\* A sequence of elements, never longer than Size - 1.
ContentFine ==
  /\ Content \in Seq(Value)
  /\ Len(Content) = Dist(cHead, tail)
  /\ Len(Content) \in Nat /\ Len(Content) <= Size - 1
  /\ \A i \in 1 .. Len(Content) : Content[i] = buffer[SlotOf(i)]

LEMMA ContentIsSeq == Invariant => ContentFine
<1> SUFFICES ASSUME Invariant PROVE ContentFine
  OBVIOUS
<1>d. Dist(cHead, tail) \in Nat /\ Dist(cHead, tail) <= Size - 1
  BY Ranges, DistRange DEF Invariant
<1>1. Content = [i \in 1 .. Dist(cHead, tail) |-> buffer[SlotOf(i)]]
  BY DEF Content, SlotOf
<1>2. Content \in [1 .. Dist(cHead, tail) -> Value]
  BY <1>1, SlotOfLive
<1>3. Content \in Seq(Value) /\ Len(Content) = Dist(cHead, tail)
  BY <1>2, <1>d
<1> QED BY <1>1, <1>3, <1>d DEF ContentFine

\* A step that moves neither end and writes no slot between them.
LEMMA ContentStays ==
  ASSUME Invariant, UNCHANGED <<cHead, tail>>,
         \A i \in Between(cHead, tail) : buffer'[i] = buffer[i]
  PROVE  Content' = Content
<1>1. Content = [i \in 1 .. Dist(cHead, tail) |-> buffer[SlotOf(i)]]
  BY DEF Content, SlotOf
<1>2. Content' = [i \in 1 .. Dist(cHead, tail) |-> buffer'[SlotOf(i)]]
  BY DEF Content, SlotOf
<1>3. \A i \in 1 .. Dist(cHead, tail) : buffer'[SlotOf(i)] = buffer[SlotOf(i)]
  BY SlotOfLive
<1> QED BY <1>1, <1>2, <1>3

-----------------------------------------------------------------------------
(* The two steps that change it.                                           *)

\* The store of the producer's index appends the element just built.
LEMMA StoreTailEnqueues ==
  ASSUME Invariant, Invariant', StoreTail
  PROVE  Fifo!Enqueue
<1> USE DEF StoreTail, choice, consumer, ContentFine
<1>c. ContentFine /\ ContentFine'
  BY ContentIsSeq, PTL
<1>a. TypeOK /\ Window /\ ProducerFrame
  BY DEF Invariant
<1>n. tail' = Next1(tail)
  BY <1>a, Ranges, AfterIsNext1
<1>1. Dist(cHead, tail) < Size - 1
  BY <1>a, CursorToTail, OffsetRanges, SizeAssumption DEF ProducerFrame
<1>2. Len(Content)' = Len(Content) + 1
  <2>1. Dist(cHead, Next1(tail)) = Dist(cHead, tail) + 1
    BY <1>a, <1>1, Ranges, NextBasics
  <2>2. Len(Content') = Dist(cHead', tail')
    BY <1>c
  <2> QED BY <1>n, <2>1, <2>2, <1>c
<1>3. Content' \in Seq(Value) /\ Content \in Seq(Value)
  BY <1>c
<1>4. \A i \in 1 .. Len(Content) : Content'[i] = Content[i]
  <2> SUFFICES ASSUME NEW i \in 1 .. Len(Content)
               PROVE  Content'[i] = Content[i]
    OBVIOUS
  <2>1. i \in 1 .. Len(Content')
    BY <1>2, <1>c
  <2>2. Content'[i] = buffer'[SlotOf(i)']
    BY <2>1, <1>c
  <2>3. buffer'[SlotOf(i)'] = buffer[SlotOf(i)]
    BY DEF SlotOf
  <2> QED BY <2>2, <2>3, <1>c
<1>5. SubSeq(Content', 1, Len(Content)) = Content
  <2>1. Len(Content) \in Nat
    BY <1>c
  <2>2. \A i \in 1 .. Len(Content) : Content'[i] \in Value
    BY <1>3, <1>4, ElementOfSeq
  <2>3. /\ SubSeq(Content', 1, Len(Content)) \in Seq(Value)
        /\ Len(SubSeq(Content', 1, Len(Content))) = Len(Content)
        /\ \A i \in 1 .. Len(Content) :
             SubSeq(Content', 1, Len(Content))[i] = Content'[i]
    BY <2>1, <2>2, SubSeqProperties
  <2> QED BY <1>3, <1>4, <2>3, SeqEqual
<1>6. Len(Content') \in Len(Content) .. Size - 1
  BY <1>2, <1>c, SizeAssumption
<1> QED BY <1>3, <1>5, <1>6 DEF Fifo!Enqueue

\* The element the callback is given is the oldest one, and no longer there.
LEMMA TakeElementDequeues ==
  ASSUME Invariant, Invariant', TakeElement, UNCHANGED <<tail, life>>,
         cHead # tail
  PROVE  Fifo!Dequeue
<1> USE DEF TakeElement, ContentFine
<1>c. ContentFine /\ ContentFine'
  BY ContentIsSeq, PTL
<1>a. TypeOK
  BY DEF Invariant
<1>n. cHead' = Next1(cHead)
  BY <1>a, Ranges, AfterIsNext1
<1>1. Dist(cHead, tail) > 0
  <2>1. Dist(cHead, cHead) = 0 /\ Dist(cHead, tail) \in Nat
    BY <1>a, Ranges, DistBasics
  <2>2. Dist(cHead, tail) # Dist(cHead, cHead)
    BY <1>a, Ranges, DistBasics
  <2> QED BY <2>1, <2>2
<1>2. Content \in Seq(Value) /\ Content' \in Seq(Value) /\ Content # <<>>
  BY <1>1, <1>c, EmptySeq
<1>3. Len(Content') = Len(Content) - 1
  <2>1. Dist(Next1(cHead), tail) = Dist(cHead, tail) - 1
    BY <1>a, <1>1, Ranges, StepTowards
  <2>2. Len(Content') = Dist(cHead', tail')
    BY <1>c
  <2> QED BY <1>n, <2>1, <2>2, <1>c
<1>4. out' = Head(Content)
  <2>1. 1 \in 1 .. Len(Content)
    BY <1>1, <1>c
  <2>2. SlotOf(1) = cHead
    BY <1>a, Ranges, ModBelow DEF SlotOf, Slots
  <2>3. Content[1] = buffer[cHead]
    BY <2>1, <2>2, <1>c
  <2> QED BY <1>2, <2>3
<1>5. \A i \in 1 .. Len(Content) - 1 : Content'[i] = Content[i + 1]
  <2> SUFFICES ASSUME NEW i \in 1 .. Len(Content) - 1
               PROVE  Content'[i] = Content[i + 1]
    OBVIOUS
  <2>d. /\ Len(Content) = Dist(cHead, tail) /\ Len(Content) \in Nat
        /\ Len(Content) <= Size - 1
    BY <1>c
  <2>i. /\ i \in 1 .. Len(Content') /\ i + 1 \in 1 .. Len(Content)
        /\ i - 1 \in Nat /\ (i - 1) + 1 < Size /\ (i - 1) + 1 = i
    BY <1>3, <2>d, SizeAssumption
  <2>1. Content'[i] = buffer'[SlotOf(i)']
    BY <2>i, <1>c
  <2>2. SlotOf(i)' = SlotOf(i + 1)
    <3>1. (Next1(cHead) + (i - 1)) % Size = (cHead + ((i - 1) + 1)) % Size
      BY <1>a, <2>i, Ranges, StepsFromNext
    <3>2. (i + 1) - 1 = (i - 1) + 1
      OBVIOUS
    <3> QED BY <1>n, <3>1, <3>2, Zenon DEF SlotOf
  <2>3. SlotOf(i + 1) # cHead /\ SlotOf(i + 1) \in Slots
    <3>1. Dist(cHead, SlotOf(i + 1)) = i /\ SlotOf(i + 1) \in Slots
      <4>1. (i + 1) - 1 = i
        OBVIOUS
      <4> QED BY <2>d, <2>i, <4>1, SlotOfLive
    <3>2. Dist(cHead, cHead) = 0
      BY <1>a, Ranges, DistBasics
    <3> QED BY <3>1, <3>2
  <2>4. buffer'[SlotOf(i + 1)] = buffer[SlotOf(i + 1)]
    BY <1>a, <2>3 DEF TypeOK
  <2>5. Content[i + 1] = buffer[SlotOf(i + 1)]
    BY <2>i, <1>c
  <2> QED BY <2>1, <2>2, <2>4, <2>5
<1>6. Content' = Tail(Content)
  <2>1. /\ Tail(Content) \in Seq(Value) /\ Len(Tail(Content)) = Len(Content) - 1
        /\ \A i \in 1 .. Len(Tail(Content)) : Tail(Content)[i] = Content[i + 1]
    BY <1>2, HeadTailProperties
  <2> QED BY <1>2, <1>3, <1>5, <2>1, SeqEqual
<1> QED BY <1>2, <1>4, <1>6 DEF Fifo!Dequeue

\* An assignment replaces the whole, also when it throws.
LEMMA AssignReplaces ==
  ASSUME Invariant, Invariant', Assign \/ AssignThrows
  PROVE  Fifo!Replace
<1>c. ContentFine'
  BY ContentIsSeq, PTL
<1> QED BY <1>c DEF Assign, AssignThrows, ContentFine, Fifo!Replace, Fifo!TypeOK

\* Before the cached tail there is an element to take.
LEMMA CursorNotAtTail ==
  ASSUME Invariant, cHead # tailCache
  PROVE  cHead # tail
<1>a. TypeOK /\ Window
  BY DEF Invariant
<1>1. Offset(cHead) < Offset(tailCache) /\ Offset(tailCache) <= Offset(tail)
  BY <1>a, CursorBefore, OffsetRanges DEF Window
<1> QED BY <1>a, <1>1, OffsetRanges

-----------------------------------------------------------------------------
(* The refinement.                                                         *)

\* Every step is a step of the sequence, or leaves it alone.
LEMMA NextRefines ==
  ASSUME Invariant, Invariant', [Next]_vars
  PROVE  [Fifo!Next]_Fifo!vars
<1>a. TypeOK /\ ConsumerFrame
  BY DEF Invariant
<1>q. ASSUME UNCHANGED <<buffer, cHead, tail, out, life>>
      PROVE  UNCHANGED Fifo!vars
  BY <1>q, ContentStays DEF Fifo!vars
<1>t. ASSUME TakeElement, cHead # tailCache, UNCHANGED <<tail, life>>
      PROVE  Fifo!Next
  BY <1>t, CursorNotAtTail, TakeElementDequeues DEF Fifo!Next
<1>1. CASE Enqueue \/ LoadHead \/ Throw
  BY <1>1, <1>q DEF Enqueue, LoadHead, Throw, consumer
<1>2. CASE Construct
  <2>1. tail \notin Between(cHead, tail)
    <3>1. ~(Dist(cHead, tail) < Dist(cHead, tail))
      BY <1>a, Ranges, DistRange
    <3> QED BY <3>1 DEF Between
  <2>2. \A i \in Between(cHead, tail) : buffer'[i] = buffer[i]
    BY <1>2, <1>a, <2>1 DEF Construct, TypeOK, Between
  <2>3. UNCHANGED <<cHead, tail, out, life>>
    BY <1>2 DEF Construct, consumer
  <2> QED BY <2>2, <2>3, ContentStays DEF Fifo!vars
<1>3. CASE StoreTail
  BY <1>3, StoreTailEnqueues DEF Fifo!Next
<1>4. CASE Dequeue \/ LoadTail \/ ConsumeAll \/ Decline \/ StoreHead
  BY <1>4, <1>q DEF Dequeue, LoadTail, ConsumeAll, Decline, StoreHead, producer
<1>5. CASE Take
  <2>1. TakeElement /\ UNCHANGED <<tail, life>>
    BY <1>5 DEF Take, producer
  <2>2. cHead # tailCache
    BY <1>5, <1>a DEF Take, ConsumerFrame
  <2> QED BY <2>1, <2>2, <1>t
<1>6. CASE Drain
  <2>1. UNCHANGED <<tail, life>>
    BY <1>6 DEF Drain, producer
  <2>2. cGoal = tailCache
    BY <1>6, <1>a DEF Drain, ConsumerFrame
  <2>3. CASE cHead # cGoal
    <3>1. TakeElement
      BY <1>6, <2>3 DEF Drain
    <3> QED BY <2>1, <2>2, <2>3, <3>1, <1>t
  <2>4. CASE cHead = cGoal
    BY <1>6, <2>1, <2>4, <1>q DEF Drain
  <2> QED BY <2>3, <2>4
<1>7. CASE PropagateTail \/ PropagateHead
  BY <1>7, <1>q DEF PropagateTail, PropagateHead, producer, consumer
<1>8. CASE Assign \/ AssignThrows
  BY <1>8, AssignReplaces DEF Fifo!Next
<1>9. CASE UNCHANGED vars
  BY <1>9, <1>q DEF vars
<1> QED BY <1>1, <1>2, <1>3, <1>4, <1>5, <1>6, <1>7, <1>8, <1>9
        DEF Next, ProducerStep, ConsumerStep

\* Of every class and at every size, the queue passes its elements on as a
\* bounded first-in first-out sequence does: none lost, repeated, reordered.  An
\* element an assignment that threw did not copy is passed on as Raw.
THEOREM ImplementsFifo == Spec => FifoSpec
<1>1. Init => Fifo!Init
  <2> SUFFICES ASSUME Init PROVE Fifo!Init
    OBVIOUS
  <2>1. Invariant
    BY InitInvariant
  <2>2. ContentFine
    BY <2>1, ContentIsSeq
  <2> QED BY <2>2 DEF Init, ContentFine, Fifo!Init, Fifo!TypeOK
<1>2. Invariant /\ Invariant' /\ [Next]_vars => [Fifo!Next]_Fifo!vars
  BY NextRefines
<1> QED BY <1>1, <1>2, InvariantHolds, PTL DEF Spec, FifoSpec, Fifo!Spec
=============================================================================
