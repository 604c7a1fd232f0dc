----------------------------- MODULE IndexQueue -----------------------------
(***************************************************************************)
(* The queues of one element per call that are told by two indices: the    *)
(* Lamport queues, the MCRingBuffers, which add a cached copy of the other *)
(* thread's index, and spsc_queue, spsc_queue_cached, spsc_queue_cached_ptr *)
(* of spsc_queue.hpp.  They share one algorithm and differ in a few        *)
(* choices; a class is the record of its choices, and the initial state    *)
(* picks the class.                                                        *)
(***************************************************************************)
EXTENDS Ring, Sequences

CONSTANTS
  Elem,      \* what can be queued
  Raw,       \* a slot without a live object
  Classes,   \* the classes to consider
  Heads      \* where a queue that is copied may begin: a bound for TLC

ASSUME ElemAssumption == Raw \notin Elem
ASSUME HeadsAssumption == Heads \subseteq Slots

-----------------------------------------------------------------------------
(* The classes.                                                            *)

Orders == {"seq_cst", "acq_rel"}
Wraps  == {"modulo", "compare", "pointer"}
Counting == {"none", "plain", "masked", "corrected"}

ClassType == [order: Orders, wrap: Wraps, cached: BOOLEAN, drain: Counting]

ASSUME ClassesAssumption == Classes \subseteq ClassType

\* order: the atomics' memory order; wrap: how an index starts over; cached:
\* whether the other index is cached; drain: how consume_all, where there is
\* one, counts.  Only the classes that have one let callbacks decline and can
\* be copied.  Alignment and padding make no difference here.
Class(order, wrap, cached, drain) ==
  [order |-> order, wrap |-> wrap, cached |-> cached, drain |-> drain]

LamportQueue2 == Class("seq_cst", "modulo",  FALSE, "none")
LamportQueue3 == Class("seq_cst", "compare", FALSE, "none")
LamportQueue4 == Class("seq_cst", "compare", FALSE, "none")
LamportQueue5 == Class("acq_rel", "compare", FALSE, "none")
LamportQueue6 == Class("acq_rel", "compare", FALSE, "none")
LamportQueue7 == Class("acq_rel", "compare", FALSE, "none")
LamportQueue8 == Class("acq_rel", "modulo",  FALSE, "none")
LamportQueue9 == Class("acq_rel", "modulo",  FALSE, "none")
MCRingBuffer1 == Class("seq_cst", "modulo",  TRUE, "none")
MCRingBuffer2 == Class("seq_cst", "compare", TRUE, "none")
MCRingBuffer3 == Class("acq_rel", "compare", TRUE, "none")
MCRingBuffer4 == Class("acq_rel", "compare", TRUE, "none")
MCRingBuffer5 == Class("acq_rel", "compare", TRUE, "none")
MCRingBuffer6 == Class("acq_rel", "pointer", TRUE, "none")
MCRingBuffer7 == Class("acq_rel", "pointer", TRUE, "none")
spsc_queue            == Class("acq_rel", "compare", FALSE, "plain")
spsc_queue_cached     == Class("acq_rel", "compare", TRUE,  "masked")
spsc_queue_cached_ptr == Class("acq_rel", "pointer", TRUE,  "corrected")

-----------------------------------------------------------------------------
VARIABLES
  class,                   \* the class in use
  steady,                  \* the clients go on for ever and never give up
  tail, headCache,         \* the producer's index and its copy of the other
  head, tailCache,         \* the consumer's index and its copy of the other
  tailSeen, headSeen,      \* what a load by the other thread returns
  buffer,                  \* slot by slot
  pPc,                     \* the producer's place in Enqueue
  cPc, cHead, cGoal, cCount, \* the consumer's place in its call, its locals
  out,                     \* the element the consumer was handed last
  life,                    \* flips when the content is replaced
  torn                     \* an assignment was left half done

choice == <<class, steady, torn>>
producer == <<tail, headCache, pPc>>
consumer == <<head, tailCache, cPc, cHead, cGoal, cCount, out>>
vars == <<class, steady, torn, tail, headCache, head, tailCache, tailSeen, headSeen,
          buffer, pPc, cPc, cHead, cGoal, cCount, out, life>>

Value == Elem \cup {Raw}

\* Slip: the end of the buffer is taken for its last slot.
AfterModuloShort(i) == (i + 1) % (Size - 1)

\* (t + 1) % SIZE
AfterModulo(i) == (i + 1) % Size

\* Slip: the end of the buffer is still a slot.
AfterCompareLate(i) == IF i + 1 > Size THEN 0 ELSE i + 1

\* n = t + 1; if (n == SIZE) n = 0
AfterCompare(i) == IF i + 1 = Size THEN 0 ELSE i + 1

\* The same with addresses: the end is buffer.data() + buffer.max_size(),
\* a number of bytes, which is the end of slot Size - 1.
AfterPointer(i) == IF i + 1 = Size THEN 0 ELSE i + 1

After(i) == CASE class.wrap = "modulo"  -> AfterModulo(i)
             [] class.wrap = "compare" -> AfterCompare(i)
             [] class.wrap = "pointer" -> AfterPointer(i)

\* A sequentially consistent store is there for every later load; a release
\* store may take its time.
Seen(seen, value) == IF class.order = "seq_cst" THEN value ELSE seen

-----------------------------------------------------------------------------
(* The producer: Enqueue, or produce.                                      *)

\* Slip: the queue counts as full when it is empty by the cached index.
EnqueueUnreserved ==
  /\ pPc = "idle"
  /\ pPc' = IF class.cached /\ tail # headCache THEN "fill" ELSE "load"
  /\ UNCHANGED <<choice, tail, headCache, tailSeen, headSeen, buffer, consumer, life>>

\* The first lines; only the cached classes may go on without a load.
Enqueue ==
  /\ pPc = "idle"
  /\ pPc' = IF class.cached /\ After(tail) # headCache THEN "fill" ELSE "load"
  /\ UNCHANGED <<choice, tail, headCache, tailSeen, headSeen, buffer, consumer, life>>

\* Slip: the second look is not taken.
LoadHeadStale ==
  /\ pPc = "load"
  /\ pPc' = IF After(tail) = headCache THEN "idle" ELSE "fill"
  /\ UNCHANGED <<choice, tail, headCache, tailSeen, headSeen, buffer, consumer, life>>

\* The load of the consumer's index.  Where nothing is cached, headCache is
\* a local that no later call looks at.
LoadHead ==
  /\ pPc = "load"
  /\ headCache' = headSeen
  /\ pPc' = IF After(tail) = headSeen THEN "idle" ELSE "fill"
  /\ UNCHANGED <<choice, tail, tailSeen, headSeen, buffer, consumer, life>>

Construct ==
  /\ pPc = "fill"
  /\ \E e \in Elem : buffer' = [buffer EXCEPT ![tail] = e]
  /\ pPc' = "store"
  /\ UNCHANGED <<choice, tail, headCache, tailSeen, headSeen, consumer, life>>

\* The constructor throws.
Throw ==
  /\ ~steady /\ pPc = "fill"
  /\ pPc' = "idle"
  /\ UNCHANGED <<choice, tail, headCache, tailSeen, headSeen, buffer, consumer, life>>

StoreTail ==
  /\ pPc = "store"
  /\ tail' = After(tail) /\ tailSeen' = Seen(tailSeen, After(tail))
  /\ pPc' = "idle"
  /\ UNCHANGED <<choice, headCache, headSeen, buffer, consumer, life>>

-----------------------------------------------------------------------------
(* The consumer: Dequeue, or consume, and consume_all.                     *)

Dequeue ==
  /\ cPc = "idle"
  /\ cPc' = IF class.cached /\ head # tailCache THEN "take" ELSE "load"
  /\ UNCHANGED <<choice, producer, head, tailCache, tailSeen, headSeen, buffer,
                 cHead, cGoal, cCount, out, life>>

LoadTail ==
  /\ cPc = "load"
  /\ tailCache' = tailSeen
  /\ cPc' = IF head = tailSeen THEN "idle" ELSE "take"
  /\ UNCHANGED <<choice, producer, head, tailSeen, headSeen, buffer, cHead,
                 cGoal, cCount, out, life>>

\* The callback is given the element, which is then destroyed.
TakeElement == /\ out' = buffer[cHead]
               /\ buffer' = [buffer EXCEPT ![cHead] = Raw]
               /\ cHead' = After(cHead)

Take ==
  /\ cPc = "take"
  /\ TakeElement
  /\ cPc' = "store" /\ cCount' = 1
  /\ UNCHANGED <<choice, producer, head, tailCache, tailSeen, headSeen, cGoal, life>>

ConsumeAll ==
  /\ class.drain # "none" /\ cPc = "idle"
  /\ tailCache' = tailSeen
  /\ \/ head = tailSeen /\ UNCHANGED <<cPc, cGoal>>
     \/ head # tailSeen /\ cPc' = "drain" /\ cGoal' = tailSeen
  /\ UNCHANGED <<choice, producer, head, tailSeen, headSeen, buffer, cHead,
                 cCount, out, life>>

\* Slip: the difference is neither masked nor corrected.
DrainedRaw == cHead - head

\* What consume_all returns: the number of elements it has taken.
Drained == CASE class.drain = "corrected" ->
                  IF cHead - head < 0 THEN cHead - head + Size ELSE cHead - head
             [] OTHER -> (cHead - head) % Size

Drain ==
  /\ cPc = "drain"
  /\ \/ /\ cHead # cGoal
        /\ TakeElement /\ UNCHANGED <<cPc, cCount>>
     \/ /\ cHead = cGoal
        /\ cPc' = "store" /\ cCount' = Drained
        /\ UNCHANGED <<buffer, cHead, out>>
  /\ UNCHANGED <<choice, producer, head, tailCache, tailSeen, headSeen, cGoal, life>>

\* Slip: the element is destroyed all the same.
DeclineDestroys ==
  /\ ~steady
  /\ \/ cPc = "take" /\ cPc' = "idle" /\ UNCHANGED cCount
     \/ cPc = "drain" /\ cHead # cGoal /\ cPc' = "store" /\ cCount' = Drained
  /\ buffer' = [buffer EXCEPT ![cHead] = Raw]
  /\ UNCHANGED <<choice, producer, head, tailCache, tailSeen, headSeen,
                 cHead, cGoal, out, life>>

\* The callback returns false or throws: the element stays, and consume_all
\* leaves its loop.
Decline ==
  /\ ~steady
  /\ \/ cPc = "take" /\ cPc' = "idle" /\ UNCHANGED cCount
     \/ cPc = "drain" /\ cHead # cGoal /\ cPc' = "store" /\ cCount' = Drained
  /\ UNCHANGED <<choice, producer, head, tailCache, tailSeen, headSeen, buffer,
                 cHead, cGoal, out, life>>

\* The store of the consumer's index, in consume_all by the scope guard.
StoreHead ==
  /\ cPc = "store"
  /\ head' = cHead /\ headSeen' = Seen(headSeen, cHead)
  /\ cPc' = "idle" /\ cGoal' = 0 /\ cCount' = 0
  /\ UNCHANGED <<choice, producer, tailCache, tailSeen, buffer, cHead, out, life>>

-----------------------------------------------------------------------------
PropagateTail == /\ tailSeen # tail /\ tailSeen' = tail
                 /\ UNCHANGED <<choice, producer, consumer, headSeen, buffer, life>>

PropagateHead == /\ headSeen # head /\ headSeen' = head
                 /\ UNCHANGED <<choice, producer, consumer, tailSeen, buffer, life>>

-----------------------------------------------------------------------------
(* Copying and destroying, while neither client is in a call and both have *)
(* synchronised with the thread that does it.                              *)

\* The slots a loop from index h up to index t passes.
Between(h, t) == {i \in Slots : Dist(h, i) < Dist(h, t)}

\* The destructor's loop from head up to tail.
Destroyed == [i \in Slots |-> IF Dist(head, i) < Dist(head, tail)
                              THEN Raw ELSE buffer[i]]

\* The elements of a queue from index h up to t, all e, copied into b.
Copied(b, e, h, t) == [i \in Slots |-> IF Dist(h, i) < Dist(h, t)
                                       THEN e ELSE b[i]]

\* The indices of a queue between calls: its caches are late, not ahead.
Resting(h, t, hc, tc) ==
  /\ Dist(hc, h) + Dist(h, tc) + Dist(tc, t) < Size
  /\ ~class.cached => hc = h /\ tc = t

\* The other queue's indices, its cached ones too.
TakeOver(h, t, hc, tc) ==
  /\ head' = h /\ headSeen' = h /\ cHead' = h /\ headCache' = hc
  /\ tail' = t /\ tailSeen' = t /\ tailCache' = tc

AssignBegins == ~steady /\ class.drain # "none" /\ pPc = "idle" /\ cPc = "idle"

\* operator=: the content is destroyed, then the other queue's indices are
\* stored, and then its elements are copied.  Destroying a queue and copying
\* another one in its place comes to the same.
Assign ==
  /\ AssignBegins
  /\ \E h \in Heads, t, hc, tc \in Slots : Resting(h, t, hc, tc) /\
     \E e \in Elem : /\ buffer' = Copied(Destroyed, e, h, t)
                     /\ TakeOver(h, t, hc, tc)
  /\ life' = ~life
  /\ UNCHANGED <<choice, pPc, cPc, cGoal, cCount, out>>

\* The copy of the element for slot m throws.  No guard takes the indices back:
\* they count m and the slots behind it, which hold no object.  The queue can be
\* used on.
AssignThrows ==
  /\ AssignBegins
  /\ \E h \in Heads, t, hc, tc \in Slots : Resting(h, t, hc, tc) /\
     \E e \in Elem, m \in Between(h, t) : /\ buffer' = Copied(Destroyed, e, h, m)
                                         /\ TakeOver(h, t, hc, tc)
  /\ life' = ~life /\ torn' = TRUE
  /\ UNCHANGED <<class, steady, pPc, cPc, cGoal, cCount, out>>

-----------------------------------------------------------------------------
Init ==
  /\ class \in Classes /\ steady \in BOOLEAN
  /\ tail = 0 /\ headCache = 0 /\ head = 0 /\ tailCache = 0
  /\ tailSeen = 0 /\ headSeen = 0
  /\ buffer = [i \in Slots |-> Raw]
  /\ pPc = "idle" /\ cPc = "idle" /\ cHead = 0 /\ cGoal = 0 /\ cCount = 0
  /\ out = Raw /\ life = FALSE /\ torn = FALSE

ProducerStep == Enqueue \/ LoadHead \/ Construct \/ Throw \/ StoreTail

ConsumerStep == Dequeue \/ LoadTail \/ Take \/ ConsumeAll \/ Drain
                \/ Decline \/ StoreHead

Next == \/ ProducerStep \/ ConsumerStep \/ PropagateTail \/ PropagateHead
        \/ Assign \/ AssignThrows

Spec == Init /\ [][Next]_vars

\* Both client threads loop over their calls, and a store becomes visible to
\* the other thread in finite time.
Fairness == /\ WF_vars(ProducerStep) /\ WF_vars(ConsumerStep)
            /\ WF_vars(PropagateTail) /\ WF_vars(PropagateHead)

FairSpec == Spec /\ Fairness

-----------------------------------------------------------------------------
(* Correctness.                                                            *)

\* TypeOK: every variable stays within its range; in particular no index
\* leaves the buffer, whichever way it is wrapped.
TypeOK ==
  /\ class \in Classes /\ steady \in BOOLEAN
  /\ tail \in Slots /\ headCache \in Slots /\ head \in Slots /\ tailCache \in Slots
  /\ tailSeen \in Slots /\ headSeen \in Slots
  /\ buffer \in [Slots -> Value]
  /\ pPc \in {"idle", "load", "fill", "store"}
  /\ cPc \in {"idle", "load", "take", "drain", "store"}
  /\ cHead \in Slots /\ cGoal \in Slots /\ cCount \in 0 .. Size
  /\ out \in Value /\ life \in BOOLEAN /\ torn \in BOOLEAN

\* Window: counted from headCache the seven indices always come in this
\* order: each copy is late but never ahead, and nobody laps anybody.
Offset(i) == Dist(headCache, i)

Window ==
  /\ Offset(headSeen) <= Offset(head)
  /\ Offset(head) <= Offset(cHead)
  /\ Offset(cHead) <= Offset(tailCache)
  /\ Offset(tailCache) <= Offset(tailSeen)
  /\ Offset(tailSeen) <= Offset(tail)

\* What the two calls under way have made sure of.
ProducerFrame == pPc \in {"fill", "store"} => Offset(tail) < Size - 1

ConsumerFrame ==
  /\ cPc \in {"idle", "load", "take"} => cHead = head
  /\ cPc = "take" => head # tailCache
  /\ cPc = "drain" => cGoal = tailCache
  /\ cPc = "store" => cCount = Dist(head, cHead)

\* The elements that exist: from the consumer's cursor up to the producer's
\* index, and the one just constructed.
Live == Between(cHead, tail) \cup (IF pPc = "store" THEN {tail} ELSE {})

\* LiveExactly: the slots with an object are exactly those: none is leaked or
\* destroyed twice, also when a callback or a constructor gives up, when
\* consume_all stops half way, and when the queue is assigned.  Where a copy
\* threw in an assignment, there is still no leak, but slots are counted that
\* hold no object.
LiveExactly ==
  /\ \A i \in Slots : buffer[i] # Raw => i \in Live
  /\ torn \/ \A i \in Live : buffer[i] # Raw

\* The inductive invariant the others follow from.
Invariant == TypeOK /\ Window /\ ProducerFrame /\ ConsumerFrame /\ LiveExactly

\* HandedOver: the plain accesses never race.  The slot the producer builds in
\* was given back, and the index that says so loaded, and holds no object.  The
\* slot the consumer takes was published, and the index that says so loaded; it
\* holds an object, unless an assignment was left half done.
HandedOver ==
  /\ pPc = "fill" => Dist(headSeen, tail) < Size - 1 /\ buffer[tail] = Raw
  /\ cPc = "take" \/ (cPc = "drain" /\ cHead # cGoal) =>
       cHead \in Between(head, tailSeen) /\ (torn \/ buffer[cHead] # Raw)

\* DrainCount: consume and consume_all return the number of elements they
\* took, also when the drain passes the end of the buffer or is broken off.
\* It is about calls that found something; what consume_all returns when there
\* is nothing differs from class to class.
DrainCount ==
  [][cPc = "store" /\ cPc' = "idle" => cCount = Dist(head, head')]_vars

\* Flow: clients that go on for ever and never give up pass elements on for
\* ever: no cached or late index makes both calls fail for good.
Flow == steady => /\ []<><<tail' # tail>>_vars
                  /\ []<><<head' # head>>_vars

\* The published elements that were not yet taken, oldest first.
Content == [i \in 1 .. Dist(cHead, tail) |-> buffer[(cHead + (i - 1)) % Size]]

\* FifoSpec: a queue of this module is a first-in first-out queue of Size - 1
\* elements.  What an assignment that threw did not copy counts as an element
\* Raw; LiveExactly says that there is no other.
Fifo == INSTANCE BoundedFifo
        WITH Capacity <- Size - 1, queue <- Content, Elem <- Value

FifoSpec == Fifo!Spec
=============================================================================
