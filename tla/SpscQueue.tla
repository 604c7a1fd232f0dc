------------------------------ MODULE SpscQueue ------------------------------
(***************************************************************************)
(* deaod::spsc_queue of spsc_queue_release.hpp: a ring of Size slots       *)
(* between one producer thread and one consumer thread.  The producer owns *)
(* _tail and a cached copy of _head, the consumer owns _head and a cached  *)
(* copy of _tail; a slot changes hands by a release store of the owner's   *)
(* index and the acquire load of the other thread that sees it.            *)
(*                                                                         *)
(* Each call is split where the other thread can interleave: the call with *)
(* its test against the cached index, the acquire load, the construction   *)
(* or destruction of each element, and the release store.                  *)
(***************************************************************************)
EXTENDS Ring, Sequences

CONSTANTS
  Word,         \* size_t counts modulo Word (2^64 in the code)
  Elem,         \* what can be queued
  Raw,          \* a slot without a live object
  Counts,       \* counts the clients pass to the bulk operations
  ProducerOps,  \* operations the producer calls
  ConsumerOps,  \* operations the consumer calls
  Declining,    \* operations whose callback or constructor may give up
  Lifecycle     \* whether the queue is assigned, destroyed and rebuilt

ASSUME WordAssumption == Word \in Nat /\ Word > 2 * Size
ASSUME ElemAssumption == Raw \notin Elem
ASSUME CountsAssumption == Counts \subseteq 0 .. Word - 1
ASSUME LifecycleAssumption == Lifecycle \in BOOLEAN

VARIABLES
  tail, headCache,         \* _tail and _head_cache: the producer's line
  head, tailCache,         \* _head and _tail_cache: the consumer's line
  tailSeen, headSeen,      \* what an acquire load by the other thread returns
  buffer,                  \* _buffer, slot by slot
  pPc, pOp, pTail, pGoal, pCount, pAsked, \* the producer's call and its locals
  pRoom,                   \* is_full() said false, nothing published since
  cPc, cOp, cHead, cGoal, cCount,         \* the consumer's call and its locals
  cFront,                  \* the client holds the pointer front() returned
  cSome,                   \* is_empty() said false, nothing removed since
  out,                     \* the element the consumer was handed last
  life                     \* flips when the content is replaced

producer == <<pPc, pOp, pTail, pGoal, pCount, pAsked, pRoom>>
consumer == <<cPc, cOp, cHead, cGoal, cCount, cFront, cSome>>
producerLine == <<tail, headCache>>
consumerLine == <<head, tailCache>>
seen == <<tailSeen, headSeen>>
vars == <<tail, headCache, head, tailCache, tailSeen, headSeen, buffer,
          pPc, pOp, pTail, pGoal, pCount, pAsked, pRoom,
          cPc, cOp, cHead, cGoal, cCount, cFront, cSome, out, life>>

Value == Elem \cup {Raw}

-----------------------------------------------------------------------------
(* Index arithmetic in size_t.                                             *)

Add(a, b) == IF a + b >= Word THEN a + b - Word ELSE a + b
Sub(a, b) == IF a >= b THEN a - b ELSE a - b + Word

\* _next(index) is Next1: the mask for a power of two computes the same value.

\* Slip: the wrap is forgotten.
NextByUnwrapped(i, n) == i + n

\* _next(index, inc), for inc smaller than Size.
NextBy(i, n) == IF i + n >= Size THEN i + n - Size ELSE i + n

\* Slip: the reserved slot is subtracted here and again by the callers.
FreeReserved(h, t) == LET free == Sub(Sub(Size, Sub(t, h)), 1)
                      IN  IF free > Size THEN Sub(free, Size) ELSE free

\* size - (tail - head), corrected when the subtraction wrapped.
Free(h, t) == LET free == Sub(Size, Sub(t, h))
              IN  IF free > Size THEN Sub(free, Size) ELSE free

\* tail - head, corrected when the subtraction wrapped.
Filled(h, t) == LET filled == Sub(t, h)
                IN  IF filled > Size THEN Add(filled, Size) ELSE filled

-----------------------------------------------------------------------------
(* The producer's operations.  The action named after an operation is its  *)
(* first step; the steps after it are shared by the operations that have   *)
(* the same code there.                                                    *)

OneOps  == {"emplace", "produce"}
BulkOps == {"emplace_n", "produce_n", "write_copy", "write_trivial"}

ProducerLeaves(pc) == /\ pPc' = pc /\ pOp' = "none"
                      /\ pCount' = 0 /\ pAsked' = 0 /\ pGoal' = 0

ProducerReturns == ProducerLeaves("idle")

\* The first lines of emplace and produce: one slot is wanted.
StartOne(op) ==
  /\ pPc = "idle" /\ op \in ProducerOps
  /\ pOp' = op /\ pTail' = tail /\ pGoal' = Next1(tail)
  /\ pAsked' = 1 /\ pCount' = 1
  /\ pPc' = IF Next1(tail) = headCache THEN "reload" ELSE "fill"
  /\ UNCHANGED <<producerLine, consumerLine, seen, buffer, pRoom, consumer,
                 out, life>>

Emplace == StartOne("emplace")
Produce == StartOne("produce")

\* Slip: the second look takes the cached index again.
ReloadOneStale ==
  /\ pPc = "reload" /\ pOp \in OneOps
  /\ ProducerReturns
  /\ UNCHANGED <<producerLine, consumerLine, seen, buffer, pTail, pRoom,
                 consumer, out, life>>

\* The second look at the consumer's index, this time not the cached one.
ReloadOne ==
  /\ pPc = "reload" /\ pOp \in OneOps
  /\ headCache' = headSeen
  /\ \/ pGoal = headSeen /\ ProducerReturns
     \/ /\ pGoal # headSeen
        /\ pPc' = "fill" /\ UNCHANGED <<pOp, pGoal, pCount, pAsked>>
  /\ UNCHANGED <<tail, consumerLine, seen, buffer, pTail, pRoom, consumer, out, life>>

\* count of the asked slots are granted to op; only write_trivial goes on
\* with none.
Grant(op, asked, count) ==
  \/ /\ count > 0 \/ op = "write_trivial"
     /\ pPc' = IF count > 0 THEN "fill" ELSE "publish"
     /\ pOp' = op /\ pAsked' = asked /\ pCount' = count
     /\ pGoal' = NextBy(tail, count)
  \/ count = 0 /\ op # "write_trivial" /\ ProducerReturns

\* The first lines of the bulk operations: how much is free as far as the
\* cached index tells.
StartBulk(op, count) ==
  /\ pPc = "idle" /\ op \in ProducerOps
  /\ pTail' = tail
  /\ \/ /\ count >= Free(headCache, tail)
        /\ pPc' = "reload" /\ pOp' = op /\ pAsked' = count /\ pCount' = count
        /\ pGoal' = 0
     \/ count < Free(headCache, tail) /\ Grant(op, count, count)
  /\ UNCHANGED <<producerLine, consumerLine, seen, buffer, pRoom, consumer,
                 out, life>>

EmplaceN(count)     == StartBulk("emplace_n", count)
ProduceN(count)     == StartBulk("produce_n", count)
WriteCopy(count)    == StartBulk("write_copy", count)
WriteTrivial(count) == StartBulk("write_trivial", count)

\* Slip: the reserved slot is granted too.
ReloadBulkAll ==
  /\ pPc = "reload" /\ pOp \in BulkOps
  /\ headCache' = headSeen
  /\ LET free == Free(headSeen, tail)
     IN  Grant(pOp, pAsked, IF pAsked >= free THEN free ELSE pAsked)
  /\ UNCHANGED <<tail, consumerLine, seen, buffer, pTail, pRoom, consumer,
                 out, life>>

ReloadBulk ==
  /\ pPc = "reload" /\ pOp \in BulkOps
  /\ headCache' = headSeen
  /\ LET free == Free(headSeen, tail)
     IN  Grant(pOp, pAsked, IF pAsked >= free THEN free - 1 ELSE pAsked)
  /\ UNCHANGED <<tail, consumerLine, seen, buffer, pTail, pRoom, consumer,
                 out, life>>

\* write over iterators that cannot be subtracted: one slot at a time.
WriteInternal(count) ==
  /\ pPc = "idle" /\ "write_internal" \in ProducerOps
  /\ pPc' = "each" /\ pOp' = "write_internal"
  /\ pTail' = tail /\ pGoal' = 0 /\ pAsked' = count /\ pCount' = 0
  /\ UNCHANGED <<producerLine, consumerLine, seen, buffer, pRoom, consumer,
                 out, life>>

WriteEach ==
  /\ pPc = "each"
  /\ \/ pCount = pAsked /\ pPc' = "publish" /\ UNCHANGED pGoal
     \/ /\ pCount < pAsked
        /\ pGoal' = Next1(pTail)
        /\ pPc' = IF Next1(pTail) = headCache THEN "eachReload" ELSE "fill"
  /\ UNCHANGED <<producerLine, consumerLine, seen, buffer, pOp, pTail, pCount,
                 pAsked, pRoom, consumer, out, life>>

ReloadEach ==
  /\ pPc = "eachReload"
  /\ headCache' = headSeen
  /\ pPc' = IF pGoal = headSeen THEN "publish" ELSE "fill"
  /\ UNCHANGED <<tail, consumerLine, seen, buffer, pOp, pTail, pGoal, pCount,
                 pAsked, pRoom, consumer, out, life>>

\* Placement new (or the callback, or one element of copy_n) at the cursor.
Construct ==
  /\ pPc = "fill"
  /\ \E e \in Elem : buffer' = [buffer EXCEPT ![pTail] = e]
  /\ pTail' = Next1(pTail)
  /\ \/ /\ pOp = "write_internal"
        /\ pPc' = "each" /\ pCount' = pCount + 1
     \/ /\ pOp # "write_internal"
        /\ pPc' = IF Next1(pTail) = pGoal THEN "publish" ELSE "fill"
        /\ UNCHANGED pCount
  /\ UNCHANGED <<producerLine, consumerLine, seen, pOp, pGoal, pAsked, pRoom,
                 consumer, out, life>>

\* The callback of produce or produce_n returns false.  produce_n leaves its
\* loop with next - tail, an unsigned difference, as its result.
Refuse ==
  /\ pPc = "fill" /\ pOp \in Declining
  /\ \/ pOp = "produce" /\ ProducerReturns
     \/ /\ pOp = "produce_n"
        /\ pPc' = "refused" /\ pCount' = Sub(pGoal, pTail)
        /\ UNCHANGED <<pOp, pGoal, pAsked>>
  /\ UNCHANGED <<producerLine, consumerLine, seen, buffer, pTail, pRoom,
                 consumer, out, life>>

\* Slip: no scope guard, so what was already built is forgotten.
ThrowUnguarded ==
  /\ pPc = "fill" /\ pOp \in Declining \ {"write_trivial"}
  /\ pTail' = tail /\ ProducerReturns
  /\ UNCHANGED <<producerLine, consumerLine, seen, buffer, pRoom, consumer,
                 out, life>>

\* A constructor or the callback throws: the scope guard of the operations
\* that have one still stores the tail.
Throw ==
  /\ pPc = "fill" /\ pOp \in Declining \ {"write_trivial"}
  /\ \/ pOp \in OneOps /\ ProducerReturns
     \/ /\ pOp \notin OneOps
        /\ pPc' = "unwind" /\ UNCHANGED <<pOp, pGoal, pCount, pAsked>>
  /\ UNCHANGED <<producerLine, consumerLine, seen, buffer, pTail, pRoom,
                 consumer, out, life>>

\* The release store of _tail.
Publish ==
  /\ pPc \in {"publish", "refused", "unwind"}
  /\ tail' = pTail
  /\ pRoom' = FALSE
  /\ ProducerReturns
  /\ UNCHANGED <<headCache, consumerLine, seen, buffer, pTail, consumer, out, life>>

IsFull ==
  /\ pPc = "idle" /\ "is_full" \in ProducerOps
  /\ pRoom' = (headSeen # Next1(tail))
  /\ UNCHANGED <<producerLine, consumerLine, seen, buffer, pPc, pOp, pTail,
                 pGoal, pCount, pAsked, consumer, out, life>>

-----------------------------------------------------------------------------
(* The consumer's operations.                                              *)

ConsumerLeaves(pc) == cPc' = pc /\ cOp' = "none" /\ cGoal' = 0 /\ cCount' = 0

ConsumerReturns == ConsumerLeaves("idle")

\* front hands out the address, pop and consume go on to take the element.
Reach(op) ==
  \/ /\ op = "front"
     /\ cPc' = "idle" /\ cOp' = "none" /\ cCount' = 0 /\ cFront' = TRUE
  \/ /\ op # "front"
     /\ cPc' = "take" /\ cOp' = op /\ cCount' = 1 /\ UNCHANGED cFront

\* The first lines of front, pop and consume.
StartTake(op) ==
  /\ cPc = "idle" /\ op \in ConsumerOps
  /\ cHead' = head
  /\ \/ /\ head = tailCache
        /\ cPc' = "reload" /\ cOp' = op /\ cCount' = 1 /\ UNCHANGED cFront
     \/ head # tailCache /\ Reach(op)
  /\ UNCHANGED <<producerLine, consumerLine, seen, buffer, producer, cGoal,
                 cSome, out, life>>

Front   == StartTake("front")
Pop     == StartTake("pop")
Consume == StartTake("consume")

\* Slip: the second look takes the cached index again.
ReloadTakeStale ==
  /\ cPc = "reload" /\ cOp \in {"front", "pop", "consume"}
  /\ cPc' = "idle" /\ cOp' = "none" /\ cCount' = 0
  /\ UNCHANGED <<producerLine, consumerLine, seen, buffer, producer, cHead,
                 cGoal, cFront, cSome, out, life>>

ReloadTake ==
  /\ cPc = "reload" /\ cOp \in {"front", "pop", "consume"}
  /\ tailCache' = tailSeen
  /\ \/ /\ cHead = tailSeen
        /\ cPc' = "idle" /\ cOp' = "none" /\ cCount' = 0 /\ UNCHANGED cFront
     \/ cHead # tailSeen /\ Reach(cOp)
  /\ UNCHANGED <<producerLine, head, seen, buffer, producer, cHead, cGoal,
                 cSome, out, life>>

\* discard neither looks at nor refreshes the cached index.  The client may
\* call it once it knows there is an element: from front(), or, with
\* "discard_unpeeked", from is_empty() alone.
Discard ==
  /\ cPc = "idle"
  /\ \/ cFront /\ "discard" \in ConsumerOps
     \/ cSome /\ "discard_unpeeked" \in ConsumerOps
  /\ cPc' = "take" /\ cOp' = "discard" /\ cHead' = head /\ cCount' = 1
  /\ UNCHANGED <<producerLine, consumerLine, seen, buffer, producer, cGoal,
                 cFront, cSome, out, life>>

\* One element is handed over and destroyed.
TakeElement == /\ out' = buffer[cHead]
               /\ buffer' = [buffer EXCEPT ![cHead] = Raw]
               /\ cHead' = Next1(cHead)

Take ==
  /\ cPc = "take"
  /\ TakeElement
  /\ cPc' = "release"
  /\ UNCHANGED <<producerLine, consumerLine, seen, producer, cOp, cGoal,
                 cCount, cFront, cSome, life>>

\* consume_all always starts from a fresh index and drains up to it.
ConsumeAll ==
  /\ cPc = "idle" /\ "consume_all" \in ConsumerOps
  /\ tailCache' = tailSeen
  /\ cPc' = "drain" /\ cOp' = "consume_all" /\ cHead' = head /\ cGoal' = tailSeen
  /\ UNCHANGED <<producerLine, head, seen, buffer, producer, cCount, cFront,
                 cSome, out, life>>

\* Slip: a negative difference is not corrected.
DrainCountSigned == cHead - head

\* head - old_head as a signed difference, corrected when negative.
DrainCount == IF cHead - head < 0 THEN cHead - head + Size ELSE cHead - head

Drain ==
  /\ cPc = "drain"
  /\ \/ /\ cHead # cGoal
        /\ TakeElement
        /\ UNCHANGED <<cPc, cCount>>
     \/ /\ cHead = cGoal
        /\ cPc' = "release" /\ cCount' = DrainCount
        /\ UNCHANGED <<buffer, cHead, out>>
  /\ UNCHANGED <<producerLine, consumerLine, seen, producer, cOp, cGoal,
                 cFront, cSome, life>>

\* Slip: the cursor moves on before the callback's answer is looked at.
DeclineSkips ==
  /\ cPc = "drain" /\ cOp \in Declining /\ cHead # cGoal
  /\ cPc' = "release" /\ cCount' = DrainCount
  /\ cHead' = Next1(cHead) /\ buffer' = [buffer EXCEPT ![cHead] = Raw]
  /\ UNCHANGED <<producerLine, consumerLine, seen, producer, cOp, cGoal,
                 cFront, cSome, out, life>>

\* The callback of consume or consume_all gives up, or the assignment of pop
\* throws: the element stays.
Decline ==
  /\ cPc \in {"take", "drain"} /\ cOp \in Declining
  /\ \/ cPc = "take" /\ cOp # "discard" /\ ConsumerReturns
     \/ /\ cPc = "drain" /\ cHead # cGoal
        /\ cPc' = "release" /\ cCount' = DrainCount
        /\ UNCHANGED <<cOp, cGoal>>
  /\ UNCHANGED <<producerLine, consumerLine, seen, buffer, producer, cHead,
                 cFront, cSome, out, life>>

\* The copy loop of read_trivial is granted count elements.
GrantRead(count) ==
  /\ cPc' = IF count > 0 THEN "copy" ELSE "release"
  /\ cCount' = count
  /\ cGoal' = NextBy(head, count)

ReadTrivial(count) ==
  /\ cPc = "idle" /\ "read" \in ConsumerOps
  /\ cOp' = "read" /\ cHead' = head
  /\ \/ /\ count >= Filled(head, tailCache)
        /\ cPc' = "reload" /\ cCount' = count /\ cGoal' = 0
     \/ count < Filled(head, tailCache) /\ GrantRead(count)
  /\ UNCHANGED <<producerLine, consumerLine, seen, buffer, producer, cFront,
                 cSome, out, life>>

ReloadRead ==
  /\ cPc = "reload" /\ cOp = "read"
  /\ tailCache' = tailSeen
  /\ LET filled == Filled(head, tailSeen)
     IN  GrantRead(IF cCount >= filled THEN filled ELSE cCount)
  /\ UNCHANGED <<producerLine, head, seen, buffer, producer, cOp, cHead,
                 cFront, cSome, out, life>>

\* copy_n runs from the destination into the buffer: the consumer is handed
\* nothing, and the slot is given up with whatever was copied into it.
CopyRead ==
  /\ cPc = "copy"
  /\ buffer' = [buffer EXCEPT ![cHead] = Raw]
  /\ cHead' = Next1(cHead)
  /\ cPc' = IF Next1(cHead) = cGoal THEN "release" ELSE "copy"
  /\ UNCHANGED <<producerLine, consumerLine, seen, producer, cOp, cGoal,
                 cCount, cFront, cSome, out, life>>

\* The release store of _head.
Release ==
  /\ cPc = "release"
  /\ head' = cHead
  /\ cFront' = (cFront /\ head = cHead)
  /\ cSome' = (cSome /\ head = cHead)
  /\ ConsumerReturns
  /\ UNCHANGED <<producerLine, tailCache, seen, buffer, producer, cHead, out, life>>

IsEmpty ==
  /\ cPc = "idle" /\ "is_empty" \in ConsumerOps
  /\ cSome' = (head # tailSeen)
  /\ UNCHANGED <<producerLine, consumerLine, seen, buffer, producer, cPc, cOp,
                 cHead, cGoal, cCount, cFront, out, life>>

-----------------------------------------------------------------------------
(* A release store reaches the other thread some time after it was made.   *)

PropagateTail ==
  /\ tailSeen # tail
  /\ tailSeen' = tail
  /\ UNCHANGED <<producerLine, consumerLine, headSeen, buffer, producer,
                 consumer, out, life>>

PropagateHead ==
  /\ headSeen # head
  /\ headSeen' = head
  /\ UNCHANGED <<producerLine, consumerLine, tailSeen, buffer, producer,
                 consumer, out, life>>

-----------------------------------------------------------------------------
(* Construction, assignment and destruction, while neither client is in a  *)
(* call and both have synchronised with the thread that does it.           *)

\* The slots left once everything from head up to tail is destroyed.
Destroyed == [i \in Slots |-> IF Dist(head, i) < Dist(head, tail)
                              THEN Raw ELSE buffer[i]]

\* n elements are copied to the front of the buffer b.
Loaded(b, n, f) == [i \in Slots |-> IF i < n THEN f[i] ELSE b[i]]

\* Every index and cached index starts over at h or t.
IndicesBecome(h, t) ==
  /\ head' = h /\ headSeen' = h /\ headCache' = h /\ cHead' = h
  /\ tail' = t /\ tailSeen' = t /\ tailCache' = t /\ pTail' = t

FramesBecome(pc) ==
  /\ ProducerLeaves(pc) /\ ConsumerLeaves(pc)
  /\ pRoom' = FALSE /\ cFront' = FALSE /\ cSome' = FALSE

\* The default and the copy constructor.
Create ==
  /\ Lifecycle /\ pPc = "gone"
  /\ \E n \in Slots : \E f \in [0 .. n - 1 -> Elem] :
       /\ buffer' = Loaded(buffer, n, f)
       /\ IndicesBecome(0, n)
  /\ FramesBecome("idle")
  /\ life' = ~life /\ UNCHANGED out

\* operator=: the old content is destroyed, the other queue's is copied.
Assign ==
  /\ Lifecycle /\ pPc = "idle" /\ cPc = "idle"
  /\ \E n \in Slots : \E f \in [0 .. n - 1 -> Elem] :
       /\ buffer' = Loaded(Destroyed, n, f)
       /\ IndicesBecome(0, n)
  /\ FramesBecome("idle")
  /\ life' = ~life /\ UNCHANGED out

\* ~spsc_queue: consume_all with a callback that accepts everything.  The
\* indices of a destroyed queue are not read again.
Destroy ==
  /\ Lifecycle /\ pPc = "idle" /\ cPc = "idle"
  /\ buffer' = Destroyed
  /\ IndicesBecome(tail, tail)
  /\ FramesBecome("gone")
  /\ life' = ~life /\ UNCHANGED out

-----------------------------------------------------------------------------
Init ==
  /\ \E n \in Slots : \E f \in [0 .. n - 1 -> Elem] :
       /\ buffer = Loaded([i \in Slots |-> Raw], n, f)
       /\ tail = n /\ tailSeen = n /\ tailCache = n /\ pTail = n
  /\ head = 0 /\ headSeen = 0 /\ headCache = 0 /\ cHead = 0
  /\ pPc = "idle" /\ pOp = "none" /\ pGoal = 0 /\ pCount = 0 /\ pAsked = 0
  /\ cPc = "idle" /\ cOp = "none" /\ cGoal = 0 /\ cCount = 0
  /\ pRoom = FALSE /\ cFront = FALSE /\ cSome = FALSE
  /\ life = FALSE /\ out = Raw

ProducerStep ==
  \/ Emplace \/ Produce \/ ReloadOne
  \/ \E n \in Counts : \/ EmplaceN(n) \/ ProduceN(n) \/ WriteCopy(n)
                       \/ WriteTrivial(n) \/ WriteInternal(n)
  \/ ReloadBulk \/ WriteEach \/ ReloadEach
  \/ Construct \/ Refuse \/ Throw \/ Publish

ConsumerStep ==
  \/ Front \/ Pop \/ Consume \/ ReloadTake \/ Discard \/ Take
  \/ ConsumeAll \/ Drain \/ Decline
  \/ \E n \in Counts : ReadTrivial(n)
  \/ ReloadRead \/ CopyRead \/ Release

Next ==
  \/ ProducerStep \/ IsFull
  \/ ConsumerStep \/ IsEmpty
  \/ PropagateTail \/ PropagateHead
  \/ Create \/ Assign \/ Destroy

Spec == Init /\ [][Next]_vars

\* Both client threads loop over their calls, and a store becomes visible to
\* the other thread in finite time.
Fairness == /\ WF_vars(ProducerStep) /\ WF_vars(ConsumerStep)
            /\ WF_vars(PropagateTail) /\ WF_vars(PropagateHead)

FairSpec == Spec /\ Fairness

-----------------------------------------------------------------------------
(* Correctness.                                                            *)

\* TypeOK: every variable stays within its range; in particular no index
\* ever leaves the buffer, whatever the wrapping arithmetic computes.
TypeOK ==
  /\ tail \in Slots /\ headCache \in Slots /\ head \in Slots /\ tailCache \in Slots
  /\ tailSeen \in Slots /\ headSeen \in Slots
  /\ buffer \in [Slots -> Value]
  /\ pPc \in {"idle", "reload", "each", "eachReload", "fill", "publish",
              "refused", "unwind", "gone"}
  /\ pOp \in OneOps \cup BulkOps \cup {"write_internal", "none"}
  /\ pTail \in Slots /\ pGoal \in Slots
  /\ pCount \in 0 .. Word - 1 /\ pAsked \in 0 .. Word - 1
  /\ cPc \in {"idle", "reload", "take", "drain", "copy", "release", "gone"}
  /\ cOp \in {"front", "pop", "consume", "discard", "consume_all", "read", "none"}
  /\ cHead \in Slots /\ cGoal \in Slots /\ cCount \in 0 .. Word - 1
  /\ pRoom \in BOOLEAN /\ cFront \in BOOLEAN /\ cSome \in BOOLEAN
  /\ out \in Value /\ life \in BOOLEAN

\* Window: counted from the oldest index anyone remembers, headCache, the
\* eight indices always come in this order, so each cached or propagated copy
\* is late but never ahead, and nobody laps anybody.
Offset(i) == Dist(headCache, i)

Window ==
  /\ Offset(headSeen) <= Offset(head)
  /\ Offset(head) <= Offset(cHead)
  /\ Offset(cHead) <= Offset(tailCache)
  /\ Offset(tailCache) <= Offset(tailSeen)
  /\ Offset(tailSeen) <= Offset(tail)
  /\ Offset(tail) <= Offset(pTail)

\* The slot the consumer is about to touch, or may through front()'s pointer.
ConsumerTouches(i) ==
  \/ i = cHead /\ cPc \in {"take", "copy"}
  \/ i = cHead /\ cPc = "drain" /\ cHead # cGoal
  \/ i = head /\ cFront /\ cPc = "idle"

\* HandedOver: the plain accesses never race.  A slot the consumer touches
\* was published and its publication acquired (it lies between head and
\* tailSeen); a slot the producer constructs in was released and its release
\* acquired (it lies outside headSeen .. tail); and the first holds a live
\* object, the second none.
HandedOver ==
  /\ \A i \in Slots : ConsumerTouches(i) =>
       Dist(head, i) < Dist(head, tailSeen) /\ buffer[i] # Raw
  /\ pPc = "fill" =>
       /\ Dist(headSeen, tail) <= Dist(headSeen, pTail)
       /\ Dist(headSeen, pTail) < Size - 1
       /\ buffer[pTail] = Raw

\* LiveExactly: the slots with a live object are those from the consumer's
\* cursor to the producer's: none is leaked, lost or destroyed twice, also
\* when callbacks give up half way and when the queue is assigned or destroyed.
LiveExactly ==
  \A i \in Slots : buffer[i] # Raw <=> Dist(cHead, i) < Dist(cHead, pTail)

\* What the calls in progress rely on: each cursor starts at its own index, a
\* grant ends within the window, and a call that goes on has something to do.
ProducerFrame ==
  /\ pPc \in {"idle", "reload", "gone"} => pTail = tail
  /\ pPc = "idle" => pOp = "none"
  /\ pPc = "gone" => cPc = "gone" /\ cHead = tail
  /\ pPc \in {"each", "eachReload"} => pOp = "write_internal"
  /\ pPc = "reload" => pOp \in OneOps \cup BulkOps
  /\ pPc = "fill" => pOp # "none" /\ Offset(pTail) < Offset(pGoal)
  /\ pOp \in OneOps /\ pPc = "reload" => pGoal = Next1(tail)
  /\ pOp \in OneOps \cup {"write_internal"} /\ pPc = "fill" => pGoal = Next1(pTail)
  /\ pOp \in OneOps /\ pPc = "fill" => pTail = tail
  /\ pPc = "eachReload" => pGoal = Next1(pTail) /\ pCount < pAsked
  /\ pOp = "write_internal" /\ pPc = "fill" => pCount < pAsked

ConsumerFrame ==
  /\ cPc \in {"idle", "reload", "take"} => cHead = head
  /\ cPc = "take" => cHead # tailCache
  /\ cPc = "drain" => /\ Offset(cHead) <= Offset(cGoal)
                     /\ Offset(cGoal) <= Offset(tailCache)
  /\ cPc = "copy" => /\ Offset(cHead) < Offset(cGoal)
                    /\ Offset(cGoal) <= Offset(tailCache)
  /\ cFront => head # tailCache

\* Invariant: the conjunction that is inductive.
Invariant == TypeOK /\ Window /\ ProducerFrame /\ ConsumerFrame /\ LiveExactly

\* CountsExact: a producer call that is not cut short by its callback returns
\* the number of elements it made visible, a consumer call, cut short or not,
\* the number it removed, although both compute it from wrapped indices.  A
\* produce_n that is refused is left out: it returns the number of elements it
\* did not put in, where its comment promises the number of those it did.
CountsExact ==
  [][/\ pPc = "publish" /\ pPc' = "idle" => pCount = Dist(tail, tail')
     /\ cPc = "release" /\ cPc' = "idle" => cCount = Dist(head, head')]_vars

\* ShortMeansFull: when an operation puts in less than it was asked to
\* (nothing at all included) all Size - 1 usable slots were taken, as far as
\* the head it loaded tells.
ShortMeansFull ==
  [][/\ pPc' = "idle"
     /\ \/ pPc = "reload"
        \/ pPc = "publish" /\ pCount < pAsked
     => Dist(headCache', pTail) = Size - 1]_vars

\* AnswersKept: after is_full() answered false the producer's next emplace or
\* produce does not fail for lack of space, and after is_empty() answered
\* false the consumer's next front, pop or consume finds an element, however
\* stale the cached indices these calls begin with.
AnswersKept ==
  [][/\ pRoom /\ pPc = "reload" /\ pOp \in OneOps => pPc' # "idle"
     /\ cSome /\ cPc = "reload" /\ cOp # "read" => cPc' # "idle" \/ cFront']_vars

\* TakesAnObject: what pop, consume and discard hand over is an object, "the
\* next object in the queue, if such an object exists".
TakesAnObject == cPc = "take" => buffer[cHead] # Raw

\* What the clients see of the buffer, oldest element first.
Contents == [k \in 1 .. Dist(cHead, tail) |-> buffer[NextBy(cHead, k - 1)]]

Fifo == INSTANCE BoundedFifo WITH queue <- Contents, Capacity <- Size - 1

\* FifoSpec: the queue is a bounded FIFO of Size - 1 elements: publication is
\* one atomic append, taking removes and hands over the oldest element.
FifoSpec == Fifo!Spec

\* Flow: with both clients calling for ever and stores that become visible,
\* the queue never wedges: tail and head keep moving.
Flow == \A i \in Slots : /\ (tail = i) ~> (tail # i)
                        /\ (head = i) ~> (head # i)
=============================================================================
