----------------------------- MODULE ChunkedQueue -----------------------------
(***************************************************************************)
(* The queues made of a ring of chunks, each a small ring buffer with its  *)
(* own indices: ChunkedQueue1 to ChunkedQueue7 (Enqueue and Dequeue), and  *)
(* spsc_queue_chunked and spsc_queue_chunked_ptr of spsc_queue.hpp (the    *)
(* same, with a callback that may refuse the element, and consume_all).    *)
(* Their differences are a record, class, picked by Init.  The names are   *)
(* those of ChunkedQueue3; spsc_queue.hpp calls the producer's end head    *)
(* and the consumer's end tail.                                            *)
(*                                                                         *)
(* Unlike the single ring, a thread reads several variables of the other   *)
(* one, so the order in which stores become visible matters: each thread   *)
(* sees a prefix of the other's release stores, in the order they were     *)
(* made; a sequentially consistent store is visible at once.               *)
(***************************************************************************)
EXTENDS Integers, Sequences

CONSTANTS
  ChunkSize,    \* chunk_size, slots per chunk
  ChunkCount,   \* chunk_count
  Elem,         \* what can be queued
  Raw,          \* a slot without a live object
  Classes,      \* the classes, records like ChunkedQueue1 below
  Consumers,    \* consumers of spsc_queue.hpp's, each the operations it calls
  Declining     \* operations whose callback or constructor may give up

ASSUME ChunkSizeAssumption == ChunkSize \in Nat /\ ChunkSize >= 2
ASSUME ChunkCountAssumption == ChunkCount \in Nat /\ ChunkCount >= 1
ASSUME ElemAssumption == Raw \notin Elem

VARIABLES
  tail, headCache,          \* chunk by chunk, the producer's index and cache
  head, tailCache,          \* chunk by chunk, the consumer's index and cache
  tailChunk, headChunk,     \* tail_chunk and head_chunk
  buffer,                   \* chunk by chunk, slot by slot
  toConsumer, toProducer,   \* stores not yet visible to the other thread
  tailSeen, tailChunkSeen,  \* what the consumer's acquire loads return
  headSeen, headChunkSeen,  \* what the producer's acquire loads return
  pPc, tc,                  \* the producer's call: where it is, its chunk
  cPc, hc, last, h, t,      \* the consumer's call: where it is, its chunk,
                            \* the tail_chunk it loaded, its cursor and limit
  cSome,                    \* is_empty() said false, nothing removed since
  class, ops,               \* the class; the operations this consumer calls
  out                       \* the element the consumer was handed last

shared   == <<tail, head, tailChunk, headChunk, toConsumer, toProducer>>
caches   == <<headCache, tailCache>>
seen     == <<tailSeen, tailChunkSeen, headSeen, headChunkSeen>>
producer == <<pPc, tc>>
client   == <<cSome, class, ops>>
consumer == <<cPc, hc, last, h, t, client>>
vars == <<tail, headCache, head, tailCache, tailChunk, headChunk, buffer,
          toConsumer, toProducer, tailSeen, tailChunkSeen, headSeen,
          headChunkSeen, pPc, tc, cPc, hc, last, h, t, cSome, class, ops, out>>

Chunks == 0 .. ChunkCount - 1
Slots == 0 .. ChunkSize - 1
Value == Elem \cup {Raw}

\* What tells the classes apart: whether the atomics are sequentially
\* consistent, whether a chunk keeps a cache of the other end, and whether
\* the callback may refuse the element (in the classes with consume_all and
\* is_empty).
Class(seqCst, cached, refuses) ==
  [seqCst |-> seqCst, cached |-> cached, refuses |-> refuses]

ChunkedQueue1          == Class(TRUE, FALSE, FALSE)
ChunkedQueue2          == Class(FALSE, FALSE, FALSE)
ChunkedQueue3          == Class(FALSE, TRUE, FALSE)
ChunkedQueue4          == ChunkedQueue3   \* alignment
ChunkedQueue5          == ChunkedQueue3   \* layout of the chunk
ChunkedQueue6          == ChunkedQueue3   \* pointers for indices
ChunkedQueue7          == ChunkedQueue3   \* pointers, layout
spsc_queue_chunked     == Class(FALSE, TRUE, TRUE)
spsc_queue_chunked_ptr == spsc_queue_chunked   \* pointers

\* Slip: the wrap is forgotten.
Next1Unwrapped(i) == i + 1

Next1(i) == IF i + 1 = ChunkSize THEN 0 ELSE i + 1

\* chunk::next, set up by the constructor.
NextChunk(c) == IF c = ChunkCount - 1 THEN 0 ELSE c + 1

\* Release stores: to the index of a chunk, or to the chunk pointer.
Store == [index : BOOLEAN, chunk : Chunks, value : Slots]
IndexStore(c, i) == [index |-> TRUE, chunk |-> c, value |-> i]
ChunkStore(c) == [index |-> FALSE, chunk |-> c, value |-> 0]

\* Only a store that changes its variable can be told from none.
Queued(stores, s, changes) ==
  IF changes /\ ~class.seqCst THEN Append(stores, s) ELSE stores

\* The other thread's view after a store: it follows at once, or later.
Seen(view, now) == IF class.seqCst THEN now ELSE view

StoreTail(c, i) ==
  /\ tail' = [tail EXCEPT ![c] = i]
  /\ toConsumer' = Queued(toConsumer, IndexStore(c, i), tail[c] # i)
  /\ tailSeen' = Seen(tailSeen, tail')
  /\ UNCHANGED <<head, tailChunk, headChunk, toProducer, tailChunkSeen,
                 headSeen, headChunkSeen>>

StoreTailChunk(c) ==
  /\ tailChunk' = c
  /\ toConsumer' = Queued(toConsumer, ChunkStore(c), tailChunk # c)
  /\ tailChunkSeen' = Seen(tailChunkSeen, tailChunk')
  /\ UNCHANGED <<tail, head, headChunk, toProducer, tailSeen, headSeen,
                 headChunkSeen>>

StoreHead(c, i) ==
  /\ head' = [head EXCEPT ![c] = i]
  /\ toProducer' = Queued(toProducer, IndexStore(c, i), head[c] # i)
  /\ headSeen' = Seen(headSeen, head')
  /\ UNCHANGED <<tail, tailChunk, headChunk, toConsumer, tailSeen,
                 tailChunkSeen, headChunkSeen>>

StoreHeadChunk(c) ==
  /\ headChunk' = c
  /\ toProducer' = Queued(toProducer, ChunkStore(c), headChunk # c)
  /\ headChunkSeen' = Seen(headChunkSeen, headChunk')
  /\ UNCHANGED <<tail, head, tailChunk, toConsumer, tailSeen, tailChunkSeen,
                 headSeen>>

\* A cache follows the load of the variable it caches.
Cached(cache, c, i) == IF class.cached THEN [cache EXCEPT ![c] = i] ELSE cache

-----------------------------------------------------------------------------
(* Enqueue (produce in spsc_queue_chunked).                                *)

\* The current chunk, as far as its cached head tells, if there is one.
Enqueue ==
  /\ pPc = "idle"
  /\ tc' = tailChunk
  /\ pPc' = IF class.cached /\ Next1(tail[tailChunk]) # headCache[tailChunk]
            THEN "construct" ELSE "reload"
  /\ UNCHANGED <<shared, caches, seen, buffer, consumer, out>>

\* The look at the chunk's head, the second one where it is cached.
ReloadHead ==
  /\ pPc = "reload"
  /\ headCache' = Cached(headCache, tc, headSeen[tc])
  /\ pPc' = IF Next1(tail[tc]) = headSeen[tc] THEN "cross" ELSE "construct"
  /\ UNCHANGED <<shared, tailCache, seen, buffer, tc, consumer, out>>

\* The chunk is full: the next one is free unless the consumer is in it.  Its
\* cached head may be an old one.
CrossToNext ==
  /\ pPc = "cross"
  /\ \/ NextChunk(tc) = headChunkSeen /\ pPc' = "idle" /\ UNCHANGED tc
     \/ /\ NextChunk(tc) # headChunkSeen /\ tc' = NextChunk(tc)
        /\ pPc' = IF class.cached THEN "refresh" ELSE "construct"
  /\ UNCHANGED <<shared, caches, seen, buffer, consumer, out>>

\* Slip: the cached head of the chunk that is entered is not refreshed.
RefreshHeadSkipped ==
  /\ pPc = "refresh"
  /\ pPc' = "construct"
  /\ UNCHANGED <<shared, caches, seen, buffer, tc, consumer, out>>

\* "this _next line is exactly where it needs to be, unless you like deadlocks"
RefreshHead ==
  /\ pPc = "refresh"
  /\ headCache' = Cached(headCache, tc, headSeen[tc])
  /\ pPc' = "construct"
  /\ UNCHANGED <<shared, tailCache, seen, buffer, tc, consumer, out>>

Construct ==
  /\ pPc = "construct"
  /\ \E e \in Elem : buffer' = [buffer EXCEPT ![tc][tail[tc]] = e]
  /\ pPc' = "publish"
  /\ UNCHANGED <<shared, caches, seen, tc, consumer, out>>

\* The constructor throws: there is nothing to undo.
Throw ==
  /\ pPc = "construct" /\ "enqueue" \in Declining
  /\ pPc' = "idle"
  /\ UNCHANGED <<shared, caches, seen, buffer, tc, consumer, out>>

\* Slip: tail_chunk is stored before the first tail of the new chunk.
PublishTailLast ==
  /\ pPc = "publish"
  /\ \/ tc # tailChunk /\ StoreTailChunk(tc) /\ UNCHANGED pPc
     \/ tc = tailChunk /\ StoreTail(tc, Next1(tail[tc])) /\ pPc' = "idle"
  /\ UNCHANGED <<caches, buffer, tc, consumer, out>>

PublishTail ==
  /\ pPc = "publish"
  /\ StoreTail(tc, Next1(tail[tc]))
  /\ pPc' = IF tc = tailChunk THEN "idle" ELSE "publishChunk"
  /\ UNCHANGED <<caches, buffer, tc, consumer, out>>

PublishChunk ==
  /\ pPc = "publishChunk"
  /\ StoreTailChunk(tc)
  /\ pPc' = "idle"
  /\ UNCHANGED <<caches, buffer, tc, consumer, out>>

-----------------------------------------------------------------------------
(* Dequeue (consume in spsc_queue_chunked).                                *)

\* The current chunk, as far as its cached tail tells, if there is one.
ReadChunk ==
  /\ cPc = "idle"
  /\ hc' = headChunk /\ h' = head[headChunk] /\ t' = tailCache[headChunk]
  /\ cPc' = IF class.cached /\ tailCache[headChunk] # head[headChunk]
            THEN "take" ELSE "loadChunk"
  /\ UNCHANGED <<shared, caches, seen, buffer, producer, last, client, out>>

Dequeue == "dequeue" \in ops /\ ReadChunk

\* pop of spsc_queue_chunked_ptr: the element is assigned, there is no callback
\* that could refuse it.
Pop == "pop" \in ops /\ ReadChunk

\* Slip: the consumer loads its own chunk pointer.
LoadTailChunkOwn ==
  /\ cPc = "loadChunk"
  /\ last' = headChunk
  /\ cPc' = "reload"
  /\ UNCHANGED <<shared, caches, seen, buffer, producer, hc, h, t, client, out>>

\* "this line needs to stay right here, before we load the latest value of
\* hc->tail"
LoadTailChunk ==
  /\ cPc = "loadChunk"
  /\ last' = tailChunkSeen
  /\ cPc' = "reload"
  /\ UNCHANGED <<shared, caches, seen, buffer, producer, hc, h, t, client, out>>

\* Slip: no second look at the chunk's tail.
ReloadTailStale ==
  /\ cPc = "reload"
  /\ \/ hc = last /\ cPc' = "idle" /\ UNCHANGED <<hc, h>>
     \/ /\ hc # last
        /\ cPc' = "enter" /\ hc' = NextChunk(hc) /\ h' = head[NextChunk(hc)]
  /\ UNCHANGED <<shared, caches, seen, buffer, producer, last, t, client, out>>

\* Slip: the cursor of the next chunk is not loaded.
ReloadTailSameCursor ==
  /\ cPc = "reload"
  /\ tailCache' = Cached(tailCache, hc, tailSeen[hc])
  /\ \/ h # tailSeen[hc] /\ cPc' = "take" /\ t' = tailSeen[hc] /\ UNCHANGED hc
     \/ h = tailSeen[hc] /\ hc = last /\ cPc' = "idle" /\ UNCHANGED <<hc, t>>
     \/ /\ h = tailSeen[hc] /\ hc # last
        /\ cPc' = "enter" /\ hc' = NextChunk(hc) /\ UNCHANGED t
  /\ UNCHANGED <<shared, headCache, seen, buffer, producer, last, h, client, out>>

\* The second look at the chunk's tail; when the chunk is empty and the
\* producer has left it, on to the next one.
ReloadTail ==
  /\ cPc = "reload"
  /\ tailCache' = Cached(tailCache, hc, tailSeen[hc])
  /\ \/ h # tailSeen[hc] /\ cPc' = "take" /\ t' = tailSeen[hc] /\ UNCHANGED <<hc, h>>
     \/ h = tailSeen[hc] /\ hc = last /\ cPc' = "idle" /\ UNCHANGED <<hc, h, t>>
     \/ /\ h = tailSeen[hc] /\ hc # last
        /\ cPc' = "enter" /\ hc' = NextChunk(hc) /\ h' = head[NextChunk(hc)]
        /\ UNCHANGED t
  /\ UNCHANGED <<shared, headCache, seen, buffer, producer, last, client, out>>

EnterNext ==
  /\ cPc = "enter"
  /\ tailCache' = Cached(tailCache, hc, tailSeen[hc])
  /\ t' = tailSeen[hc]
  /\ cPc' = IF h = tailSeen[hc] THEN "idle" ELSE "take"
  /\ UNCHANGED <<shared, headCache, seen, buffer, producer, hc, last, h, client, out>>

TakeElement == /\ out' = buffer[hc][h]
               /\ buffer' = [buffer EXCEPT ![hc][h] = Raw]
               /\ h' = Next1(h)

Take ==
  /\ cPc = "take"
  /\ TakeElement
  /\ cPc' = "release"
  /\ UNCHANGED <<shared, caches, seen, producer, hc, last, t, client>>

\* The element stays: the callback or the assignment throws, or the callback
\* refuses, and then a chunk that was entered is the consumer's from now on.
Decline ==
  /\ cPc = "take" /\ ops \cap Declining # {}
  /\ \/ /\ class.refuses /\ "dequeue" \in ops
        /\ cPc' = IF hc = headChunk THEN "idle" ELSE "releaseChunk"
     \/ cPc' = "idle"
  /\ UNCHANGED <<shared, caches, seen, buffer, producer, hc, last, h, t, client, out>>

ReleaseHead ==
  /\ cPc = "release"
  /\ StoreHead(hc, h)
  /\ cPc' = IF hc = headChunk THEN "idle" ELSE "releaseChunk"
  /\ cSome' = FALSE
  /\ UNCHANGED <<caches, buffer, producer, hc, last, h, t, class, ops, out>>

ReleaseChunk ==
  /\ cPc = "releaseChunk"
  /\ StoreHeadChunk(hc)
  /\ cPc' = "idle"
  /\ UNCHANGED <<caches, buffer, producer, hc, last, h, t, client, out>>

-----------------------------------------------------------------------------
(* consume_all of spsc_queue.hpp: from the consumer's chunk to the one     *)
(* the producer was in, each up to the tail it loads; no cache is updated. *)

ConsumeAll ==
  /\ cPc = "idle" /\ "consume_all" \in ops
  /\ hc' = headChunk /\ last' = tailChunkSeen
  /\ cPc' = "drainChunk"
  /\ UNCHANGED <<shared, caches, seen, buffer, producer, h, t, client, out>>

DrainChunk ==
  /\ cPc = "drainChunk"
  /\ h' = head[hc] /\ t' = tailSeen[hc]
  /\ cPc' = IF hc = last /\ head[hc] = tailSeen[hc]
            THEN "releaseChunk" ELSE "drain"
  /\ UNCHANGED <<shared, caches, seen, buffer, producer, hc, last, client, out>>

DrainElement ==
  /\ cPc = "drain" /\ h # t
  /\ TakeElement
  /\ UNCHANGED <<shared, caches, seen, producer, cPc, hc, last, t, client>>

\* Slip: a refusal ends the chunk, not the call.
DrainReleaseMovesOn ==
  /\ cPc = "drain"
  /\ StoreHead(hc, h)
  /\ h = t \/ "consume_all" \in Declining
  /\ \/ hc # last /\ cPc' = "drainChunk" /\ hc' = NextChunk(hc)
     \/ hc = last /\ cPc' = "releaseChunk" /\ UNCHANGED hc
  /\ cSome' = (cSome /\ h = head[hc])
  /\ UNCHANGED <<caches, buffer, producer, last, h, t, class, ops, out>>

\* The inner guard stores the chunk's head, at its end or when the callback
\* refuses; the outer one then stores the chunk.
DrainRelease ==
  /\ cPc = "drain"
  /\ StoreHead(hc, h)
  /\ \/ h = t /\ hc # last /\ cPc' = "drainChunk" /\ hc' = NextChunk(hc)
     \/ h = t /\ hc = last /\ cPc' = "releaseChunk" /\ UNCHANGED hc
     \/ /\ h # t /\ "consume_all" \in Declining
        /\ cPc' = "releaseChunk" /\ UNCHANGED hc
  /\ cSome' = (cSome /\ h = head[hc])
  /\ UNCHANGED <<caches, buffer, producer, last, h, t, class, ops, out>>

-----------------------------------------------------------------------------
(* is_empty of spsc_queue.hpp, called by the consumer: it looks at the     *)
(* producer's chunk alone.                                                 *)

IsEmpty ==
  /\ cPc = "idle" /\ "is_empty" \in ops
  /\ last' = tailChunkSeen
  /\ cPc' = "isEmpty"
  /\ UNCHANGED <<shared, caches, seen, buffer, producer, hc, h, t, client, out>>

ChunkIsEmpty ==
  /\ cPc = "isEmpty"
  /\ cSome' = (head[last] # tailSeen[last])
  /\ cPc' = "idle"
  /\ UNCHANGED <<shared, caches, seen, buffer, producer, hc, last, h, t, class,
                 ops, out>>

-----------------------------------------------------------------------------
(* The next store of the one thread becomes visible to the other.          *)

PropagateTail ==
  /\ toConsumer # <<>>
  /\ LET s == Head(toConsumer) IN
       IF s.index
       THEN /\ tailSeen' = [tailSeen EXCEPT ![s.chunk] = s.value]
            /\ UNCHANGED tailChunkSeen
       ELSE tailChunkSeen' = s.chunk /\ UNCHANGED tailSeen
  /\ toConsumer' = Tail(toConsumer)
  /\ UNCHANGED <<tail, head, tailChunk, headChunk, toProducer, caches, headSeen,
                 headChunkSeen, buffer, producer, consumer, out>>

PropagateHead ==
  /\ toProducer # <<>>
  /\ LET s == Head(toProducer) IN
       IF s.index
       THEN /\ headSeen' = [headSeen EXCEPT ![s.chunk] = s.value]
            /\ UNCHANGED headChunkSeen
       ELSE headChunkSeen' = s.chunk /\ UNCHANGED headSeen
  /\ toProducer' = Tail(toProducer)
  /\ UNCHANGED <<tail, head, tailChunk, headChunk, toConsumer, caches, tailSeen,
                 tailChunkSeen, buffer, producer, consumer, out>>

-----------------------------------------------------------------------------
Zeros == [c \in Chunks |-> 0]

Init ==
  /\ tail = Zeros /\ headCache = Zeros /\ head = Zeros /\ tailCache = Zeros
  /\ tailChunk = 0 /\ headChunk = 0
  /\ buffer = [c \in Chunks |-> [i \in Slots |-> Raw]]
  /\ toConsumer = <<>> /\ toProducer = <<>>
  /\ tailSeen = Zeros /\ tailChunkSeen = 0 /\ headSeen = Zeros /\ headChunkSeen = 0
  /\ pPc = "idle" /\ tc = 0
  /\ cPc = "idle" /\ hc = 0 /\ last = 0 /\ h = 0 /\ t = 0
  /\ cSome = FALSE /\ out = Raw
  /\ class \in Classes
  /\ ops \in IF class.refuses THEN Consumers ELSE {{"dequeue"}}

ProducerStep == \/ Enqueue \/ ReloadHead \/ CrossToNext \/ RefreshHead
                \/ Construct \/ Throw \/ PublishTail \/ PublishChunk

ConsumerStep == \/ Dequeue \/ Pop \/ LoadTailChunk \/ ReloadTail \/ EnterNext \/ Take
                \/ Decline \/ ReleaseHead \/ ReleaseChunk
                \/ ConsumeAll \/ DrainChunk \/ DrainElement \/ DrainRelease

Next == \/ ProducerStep \/ ConsumerStep \/ IsEmpty \/ ChunkIsEmpty
        \/ PropagateTail \/ PropagateHead

Spec == Init /\ [][Next]_vars

\* Both client threads loop over their calls, and a store becomes visible to
\* the other thread in finite time.
Fairness == /\ WF_vars(ProducerStep) /\ WF_vars(ConsumerStep)
            /\ WF_vars(PropagateTail) /\ WF_vars(PropagateHead)

FairSpec == Spec /\ Fairness

-----------------------------------------------------------------------------
(* Correctness.                                                            *)

Dist(a, b) == IF b >= a THEN b - a ELSE b - a + ChunkSize

\* TypeOK: every variable stays within its range.
TypeOK ==
  /\ \A f \in {tail, headCache, head, tailCache, tailSeen, headSeen} :
       f \in [Chunks -> Slots]
  /\ {tailChunk, headChunk, tailChunkSeen, headChunkSeen} \subseteq Chunks
  /\ {tc, hc, last} \subseteq Chunks
  /\ buffer \in [Chunks -> [Slots -> Value]]
  /\ toConsumer \in Seq(Store) /\ toProducer \in Seq(Store)
  /\ pPc \in {"idle", "reload", "cross", "refresh", "construct", "publish",
              "publishChunk"}
  /\ cPc \in {"idle", "loadChunk", "reload", "enter", "take", "release",
              "releaseChunk", "drainChunk", "drain", "isEmpty"}
  /\ h \in Slots /\ t \in Slots /\ cSome \in BOOLEAN /\ out \in Value
  /\ class \in Classes /\ ops \in Consumers \cup {{"dequeue"}}

\* Where the consumer stands in chunk c, its removals under way included.
Cursor(c) == IF c = hc /\ cPc \in {"release", "drain"} THEN h ELSE head[c]

\* Where the producer stands in chunk c, the construction under way included.
Built(c) == IF c = tc /\ pPc = "publish" THEN Next1(tail[c]) ELSE tail[c]

\* HandedOver: the plain accesses never race.  The slot the consumer takes
\* was published and its publication acquired, the slot the producer
\* constructs in was released and its release acquired.
HandedOver ==
  /\ cPc = "take" \/ (cPc = "drain" /\ h # t) =>
       /\ Dist(head[hc], h) < Dist(head[hc], tailSeen[hc])
       /\ buffer[hc][h] # Raw
  /\ pPc = "construct" =>
       /\ Dist(headSeen[tc], tail[tc]) < ChunkSize - 1
       /\ buffer[tc][tail[tc]] = Raw

\* LiveExactly: in every chunk the live slots are those from the consumer's
\* position to the producer's, whichever chunks the two are in.
LiveExactly ==
  \A c \in Chunks : \A i \in Slots :
    buffer[c][i] # Raw <=> Dist(Cursor(c), i) < Dist(Cursor(c), Built(c))

\* LeftEmpty: a chunk the producer may enter, because it is neither the
\* producer's nor from the consumer's on, holds nothing: the consumer leaves
\* no element behind when it moves to the next chunk.
LeftEmpty ==
  \A c \in Chunks :
    (c - headChunk) % ChunkCount > (tc - headChunk) % ChunkCount
      => Cursor(c) = Built(c)

\* NextHasElement: a chunk that was entered has an element for the consumer,
\* because its first tail is stored before tail_chunk: Dequeue never gives up
\* between two chunks.
NextHasElement == [][cPc = "enter" => cPc' \in {"enter", "take"}]_vars

\* SomeIsKept: is_empty() looks at the producer's chunk alone, yet after it
\* answered false the consumer's next Dequeue finds an element, in whichever
\* chunk, however stale the caches are.
SomeIsKept ==
  [][cSome /\ cPc \in {"reload", "enter"} => cPc' # "idle"]_vars

\* Flow: with both clients calling for ever and no callback giving up, the
\* queue never wedges: both ends keep moving.
Flow == \A c \in Chunks : \A i \in Slots :
  /\ tailChunk = c /\ tail[c] = i ~> tailChunk # c \/ tail[c] # i
  /\ headChunk = c /\ head[c] = i ~> headChunk # c \/ head[c] # i
=============================================================================
