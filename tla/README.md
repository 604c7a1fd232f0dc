# Verification of the ring buffers of RingBufferBenchmark

TLA+ models of the queues in this repository, model-checked with TLC, with
theorems checked by TLAPS. All queues but one connect one producer thread with
one consumer thread; what can go wrong is an interleaving of the two, a cached
index that is stale when it is used, index arithmetic at the end of the buffer,
or a callback that gives up in the middle of a call.

## The system

| component | files | state | operations |
|---|---|---|---|
| Release queue | `spsc_queue_release.hpp` | `_buffer`, `_tail` + `_head_cache` (producer), `_head` + `_tail_cache` (consumer) | push, push_n, write, emplace, emplace_n, produce, produce_n; front, discard, pop, read, consume, consume_all; is_empty, is_full; copy, assign, destroy |
| Plain index queues | `LamportQueue1-9.hpp`, `spsc_queue` in `spsc_queue.hpp` | `tail`, `head`, slots | Enqueue, Dequeue (produce, consume, consume_all, is_empty, copy, assign, destroy) |
| Cached index queues | `MCRingBuffer1-7.hpp`, `spsc_queue_cached(_ptr)` | the same and a cached copy of the other index | the same |
| Flag queues | `FastForward1-6.hpp`, `GFFQueue1-5.hpp`, `ce_queue.hpp` | private indices, a flag or pointer per slot | Enqueue, Dequeue (emplace, consume, is_empty) |
| Chunked queues | `ChunkedQueue1-7.hpp`, `spsc_queue_chunked(_ptr)` | a ring of chunks, each an index queue, `tail_chunk`, `head_chunk` | Enqueue, Dequeue (produce, consume, pop, consume_all, is_empty), copy |
| Byte ring buffers | `spsc_ring_buffer(_masked, _cached, _cached_masked, _heap).hpp` | a byte buffer of records, each behind its length, a negative length as wrap marker | produce, consume, consume_all, is_empty |
| Chunked byte ring buffer | `spsc_ring_buffer_chunked.hpp` | a ring of chunks, each a byte buffer of records, `_head`, `_tail` | produce, consume, consume_all, is_empty |
| MPMC queue | `mpmc_queue.hpp` | free list, ring of storage indices | allocate, free, Enqueue, Dequeue |
| Harness | `*Test.cpp`, `RingBufferBenchmark.cpp` | one queue, two threads | create; loop Enqueue; loop Dequeue, check, delete |
| Third-party | `rigtorpSPSCQueue.h`, `moodycamel/` | | |
| Support | `scope_guard.hpp`, `compile_time_utilities.hpp`, `aligned_alloc.hpp`, `Platform.hpp`, `DummyContainer.hpp` | none | |

The queues do not call one another. A queue interacts with its two client
threads by calls and callbacks (which run inside the call and may refuse or
throw), and the two calls interact through the atomics: a release store of an
index by its owner, an acquire load by the other thread. Slots are plain
memory; the protocol is correct when a slot is never touched by a thread that
has not acquired the store by which the other gave it up.

What makes each component correct:

* every queue: bounded FIFO order, no element lost, repeated or taken before
  it is complete, objects constructed and destroyed exactly once, no data race
  on a slot, and neither side stops for ever when both keep calling;
* caches (release queue, cached queues, chunks): a cache may be late but never
  ahead, and a stale cache never makes a call fail for good;
* batches and drains: the result is what was done, also when a callback gives
  up or throws half way;
* chunks: nothing is left in a chunk the consumer leaves, and a chunk it
  enters is not empty;
* records: a record never wraps around the end, and the marker is followed;
* MPMC: no index is handed out twice;
* harness: no call is under way when the queue is deleted, and it is empty then.

`PROJECT.json` lists the hazards at their lines.

## Modules

| module | what it is |
|---|---|
| `BoundedFifo` | what a queue promises: an appended batch, the oldest element taken, nothing else |
| `Ring`, `RingProofs` | slots of a ring and the distance between two of them; the lemmas about them |
| `SpscQueue` | the release queue, with the properties |
| `MCSpscQueue` | the sets of operations its runs enable, symmetry |
| `SpscQueueProofs` | its inductive invariant, theorems about what its calls return, and that it implements `BoundedFifo` |
| `IndexQueue` | the plain and cached index queues, 18 classes |
| `MCIndexQueue` | the classes its run covers |
| `IndexQueueProofs` | its inductive invariant, and the proof that it implements `BoundedFifo` |
| `FlagQueue` | the calls of the 13 flag queues |
| `Harness` | the two threads of the benchmark function and the library that runs them, around any queue |
| `FlagQueueTest` | the composition of the two: the flag queues under the benchmark's threads, with the properties |
| `MCFlagQueueTest`, `FlagQueueTestProofs` | the classes its run covers; its theorems |
| `ChunkedQueue` | `ChunkedQueue1` to `7` and `spsc_queue_chunked(_ptr)` |
| `ChunkedQueueProofs` | its inductive invariant, theorems about calls between two chunks, and that it implements `BoundedFifo` |
| `ChunkedQueueFifo` | the refinement mapping of `ChunkedQueue` to `BoundedFifo` |
| `MCChunkedQueue` | classes and consumers for its runs, symmetry |
| `RingBuffer` | the five ring buffers of records in one piece of memory, as two choices: positions or offsets, with caches or without |
| `MCRingBuffer` | variants and clients for its runs |
| `RingBufferProofs` | theorems about `RingBuffer` |
| `ChunkedRingBuffer`, `MCChunkedRingBuffer` | the ring of chunks of records; its instances |
| `ChunkedRingBufferProofs` | theorems about `ChunkedRingBuffer` |
| `MpmcQueue`, `MCMpmcQueue` | the multi-producer, multi-consumer queue; the clients its runs have |
| `MpmcQueueProofs` | theorems about `MpmcQueue` |

Definitions marked "Slip" are variants of the definition that follows them,
each with one plausible bug. No specification uses them; each breaks a property
when it takes the place of the original, which shows that the property depends
on that code.

Classes that differ in a few choices share a module: the initial state picks a
record of choices (`class`, `variant`, `instance`) that never changes, so one
run and one proof cover them all. Where the sources of two classes differ only
in alignment, padding or the layout of the members, their records are equal.

Everywhere, an atomic variable that the other thread reads has a second
variable, `...Seen`, that holds what an acquire load returns. A release store
changes the first and an action `Propagate...` brings the second up to date at
any later time; a sequentially consistent store changes both at once.

### SpscQueue

| in the code | in the model |
|---|---|
| `_tail`, `_head_cache`, `_head`, `_tail_cache` | `tail`, `headCache`, `head`, `tailCache` |
| what `_tail.load(acquire)` gives the consumer, `_head.load(acquire)` the producer | `tailSeen`, `headSeen`, brought up to date by `PropagateTail`, `PropagateHead` at any later time |
| `_buffer` | `buffer`, slot by slot an element or `Raw` |
| the locals of a producer call (`tail`, `next`, `count`) | `pTail`, `pGoal`, `pCount`; `pAsked` is the argument, `pOp` the function, `pPc` the place in it |
| the locals of a consumer call | `cHead`, `cGoal`, `cCount`, `cOp`, `cPc` |

A call is split where the other thread can come between: its start, with the
test of the cached index; the acquire load and second test (`Reload...`); each
construction (`Construct`) or destruction (`Take`, `Drain`, `CopyRead`); the
release store (`Publish`, `Release`). An operation's action, such as `Emplace`
or `ProduceN`, is its first step and names the operation; the steps it goes
through after that are shared with the operations that have the same code.
`push` and `push_n` are calls of `emplace` and `emplace_n`; `write` chooses
between `write_copy`, `write_trivial` and `write_internal` at compile time.
Callbacks and constructors that refuse or throw are `Refuse`, `Throw` and
`Decline`; after a throw the scope guard's store is made by `Publish`.

`pRoom` and `cSome` remember that `is_full()` or `is_empty()` answered false
and `cFront` that the client holds `front()`'s pointer; they are what the
client knows, and `discard` is called only on the strength of it. `life` flips
when construction, assignment or destruction replaces the content, which the
clients do only between calls.

Integers: `size_t` arithmetic is modulo `Word`, any number above twice the
size, so the corrections after a subtraction that wraps (`Free`, `Filled`) are
the code's. `Next1` and `NextBy` give the values of both branches (mask or
compare) of `_next`.

### IndexQueue

A class is `order` (memory order of the atomics), `wrap` (how an index starts
over: modulo, compare, or compare of pointers), `cached` (whether the other
thread's index is kept between calls) and `drain` (how `consume_all`, where there
is one, computes its result). `Enqueue` is the first lines of `Enqueue` or
`produce`, `LoadHead` the load of the other index and the test, `Construct` and
`StoreTail` the rest; `Dequeue`, `LoadTail`, `Take`, `StoreHead` those of
`Dequeue` or `consume`, and `ConsumeAll`, `Drain`, `StoreHead` those of
`consume_all`. Where nothing is cached, `headCache` and `tailCache` are the
locals of the call and no later call looks at them. `Throw` and `Decline` are a
constructor or callback that gives up. `Assign` is assignment: the destructor's
loop over the old content, then the other queue's indices and caches
(`TakeOver`), then its elements; destroying a queue and copying another into its
place comes to the same. Nobody else is in a call then, so it is one step, or
`AssignThrows`: the copy for some slot throws when the indices have been stored
and the elements before that slot copied. No guard takes the indices back; the
queue can be used on, and `torn` remembers that it counts slots without an object.
`Heads` bounds, for TLC, where a queue that is copied begins.
`steady` tells clients that never give up nor assign, the ones `Flow` is about.

### FlagQueue, Harness, FlagQueueTest

A class is `order`, `wrap` and `slot`: a pointer that is its own flag
(FastForward), an object beside a flag (GFFQueue), or one whose callback may
decline (`ce_queue`, `ce_queue2`). `occupied` are the flags, `pSeen` and `cSeen`
what each thread's load of them returns; flags of different slots become visible
in any order. A call that finds its flag in the wrong state returns without a
change and is a stuttering step.

`Harness` follows the benchmark function of the five `*Test.cpp` and of
`RingBufferBenchmark.cpp`: thread 0 creates the queue (`CreateQueue`) and both
meet at the barrier by which the library starts the measured loop
(`StartBarrier`); each calls until it has passed `Total` elements and they meet
again (`FinishBarrier`); thread 1 checks that the queue is empty, deletes it and
resets the pointer (`CheckEmpty`, `DeleteQueue`, `ResetPointer`); the library
joins both and starts over (`Repeat`). The two barriers and the join are the
benchmark library's and modelled from how the code relies on them.
`FlagQueueTest` lets a thread take a step of the queue only inside its loop.

### ChunkedQueue

Names are those of `ChunkedQueue3`; `spsc_queue_chunked` calls the producer's
chunk `_head` and the consumer's `_tail`. A class is `seqCst`, `cached` (a chunk
keeps a copy of the index of its other end) and `refuses` (the callback may
refuse the element; these classes have `consume_all` and `is_empty`). Here a
thread reads several variables of the other one, and the comments of the code
insist on an order. Each direction therefore has a queue of release stores
(`toConsumer`, `toProducer`) that become visible one at a time and in order; the
acquire loads read `tailSeen`, `tailChunkSeen`, `headSeen`, `headChunkSeen`. A
store that writes the value already there is not queued: it cannot be told from
none.

`Enqueue`, `ReloadHead`, `CrossToNext`, `RefreshHead`, `Construct`,
`PublishTail`, `PublishChunk` are the steps of `Enqueue`/`produce`; `Dequeue` (or
`Pop`, for `spsc_queue_chunked_ptr::pop`), `LoadTailChunk`, `ReloadTail`,
`EnterNext`, `Take`, `ReleaseHead`, `ReleaseChunk` those of `Dequeue`/`consume`;
`ConsumeAll`, `DrainChunk`, `DrainElement`, `DrainRelease` those of
`consume_all`; `IsEmpty`, `ChunkIsEmpty` those of `is_empty`. The initial state
picks `ops`, what this consumer calls, from `Consumers`.

### RingBuffer

The initial state picks one of `Variants`, so that one run covers several.
`steady` in it tells clients whose callbacks never give up and whose records
take half the buffer at most, the ones `Flow` is about.
`Masked` tells positions that run on through `size_t` and are masked when used
(`spsc_ring_buffer_masked`, `_cached_masked`, `_heap`) from offsets that start
over at `size` (`spsc_ring_buffer`, `_cached`); `Cached` tells the variants
that keep `_consume_pos_cache` and `_produce_pos_cache` from those that do not.
In the latter `consumePosCache` is the local `consume_pos` of `produce`, and
`producePosCache` keeps its initial value. The buffer is modelled byte by byte,
a length or marker standing in its first byte; a payload is filled with one
value, so a record that is split or overwritten shows.

`Produce`, `Reload`, `Wrap`, `ReloadWrap`, `Fill`, `Refuse`, `Publish` are the
steps of `produce`; `Consume`, `ReloadProducePos`, `Take` those of `consume`;
`ConsumeAll`, `Drain`, `DrainAgain` those of `consume_all`; `Decline` is a
callback that gives up, `Release` the store of `_consume_pos`. `produceSeen`,
`consumeSeen` are the positions as the other thread can see them. `records` and
`out` are history: what was published and not yet taken, and what was handed
over last. `is_empty` changes nothing and is no action.

`Lengths` may be any the guard of `produce` lets through
(`LengthsAssumption`). That guard looks at the length without header and
rounding, so a record may not fit into the buffer; the difference of `Size` and
its rounded length then wraps around modulo `Word` as in the code. `RecordsFit`
says that there is no such length. What a payload longer than the buffer
overwrites behind it is not followed.

### ChunkedRingBuffer

`Produce`, `Reload`, `Wrap`, `ReloadWrap`, `Fill`, `Publish` are the steps of
`produce` in one chunk, and `cross`, in `pPc`, the place where it goes on to the
next one; those of `consume` are split the same way, with the second call of the
callback for a record it has just refused (the code falls through) told apart.
Positions are masked, chunk by chunk, and stores travel in two queues as in
`ChunkedQueue`. `instance` has the sizes and the client: a "firm" callback
answers the second call as it answered the first, a "wavering" one may not.
`records` and `out` are history as in `RingBuffer`. `consume_all` has its body
commented out and `is_empty` changes nothing; neither is an action.

### MpmcQueue

`pc`, `idx`, `next` are a thread's place and locals. There is one copy of each
atomic: the threads' steps interleave, and every load reads the last store. A
load that is older only makes a compare-and-swap fail or `Dequeue` find nothing.
A compare-and-swap loop is one step where nothing that happens between its
load and its success matters (`Bump`, `ClaimTail`); for the list of unused
indices it matters, and load, read of the next index and swap are steps of
their own (`Allocate`, `ReadNext`, `Pop`, `PopFails`; `Free`, `Link`, `Push`).
The same holds for `Dequeue`, `LoadTail`, `ClaimHead`, `Spin`. The initial state
picks from `Clients` the threads that call `allocate` or `Enqueue`
(`allocators`) and those that call `free` (`freers`); the class says nothing of
either. `SoundClients` are those it works for: any thread allocates and none
frees, or one allocates and any free. After `Throw` the index belongs to nobody
any more (`lost`). `OneOwner` counts the owners of every
index (`Owners`), along a sequence that is the list (`List`).

## Runs

| run | module, config | what it shows |
|---|---|---|
| `spsc_safety` | `MCSpscQueue`, `SpscQueueSafety` | all operations but `read`, callbacks that give up, assign and destroy: `HandedOver` (no race on a slot), `LiveExactly` (object lifetimes), `Window` (caches late, never ahead), `CountsExact` (results are what was done), `ShortMeansFull` (a short batch means a full queue), `AnswersKept` (a false from is_full/is_empty holds, however stale the cache), `FifoSpec` (refinement of `BoundedFifo` with capacity `Size - 1`) |
| `spsc_flow` | `MCSpscQueue`, `SpscQueueFlow` | `Flow`: neither index stops for ever, with `read` among the calls |
| `index` | `MCIndexQueue`, `IndexQueue` | all 18 classes, with assignments that may throw half way: `TypeOK`, `LiveExactly` (no leak; no slot without an object but where a copy threw), `HandedOver`, `DrainCount` (the result of a drain), `Flow` (for steady clients), `FifoSpec` |
| `flag_test` | `MCFlagQueueTest`, `FlagQueueTest` | all 13 classes under the benchmark: `HandedOver`, `NoUseAfterDelete` (no call is under way or to come when the queue goes), `EmptyAfterTest` (the harness's check never fails), `FifoSpec` (`Size` elements), `Terminates` |
| `chunked_safety` | `MCChunkedQueue`, `ChunkedQueueSafety` | a consumer that calls Dequeue and is_empty, or pop, or consume_all: `HandedOver`, `LiveExactly` across chunks, `LeftEmpty` (nothing is left behind), `NextHasElement` (a chunk that is entered has an element), `SomeIsKept`, `FifoSpec` (one FIFO over all chunks) |
| `chunked_flow` | `MCChunkedQueue`, `ChunkedQueueFlow` | over three chunks neither end stops for ever |
| `ring` | `MCRingBuffer`, `RingBuffer` | all five ring buffers, of records that fit into the buffer: `HandedOver` (no byte is written before it was given back or read before it was published, no record leaves the buffer, and what is read as a length is one), `RefusedMeansFull` (no refusal when there is room in one piece), `FifoSpec` (over whole records), `Flow` (for steady clients) |
| `chunk_ring` | `MCChunkedRingBuffer`, `ChunkedRingBuffer` | `HandedOver`, `NeverStuck` (no record is left in a chunk the consumer will not look at, and an emptied buffer accepts a record), `EmptyMeansNothing` (is_empty looks at one chunk and speaks for all), `FifoSpec` |
| `mpmc` | `MCMpmcQueue`, `MpmcQueue` | the clients `SafeClients`: `OneOwner` (no index handed out twice or lost from the list), `ServedOnce` (a Dequeue waits for a cell that is its own and will be filled), `RunsOut` (the storage is used up for good), `SpinEnds` |
| `spsc_unpeeked` | `MCSpscQueue`, `SpscQueueUnpeeked` | a defect of the code, below; TLC finds the violation |
| `ring_again` | `MCRingBuffer`, `RingBufferAgain` | the same |
| `mpmc_reuse` | `MCMpmcQueue`, `MpmcQueueReuse` | the same |

`HandedOver` in `RingBuffer` and `ChunkedRingBuffer`, and `OneOwner` in
`MpmcQueue`, have the type invariant as a conjunct.

Bounds.

* `SpscQueue` has 3 slots in the safety run: the ring is full at two elements,
  so wrap-around, full, empty, one free slot, and a batch that wraps all occur,
  and a size that is no power of two takes the comparing branch. The flow run
  has 4 slots, where the correction of a wrapped difference meets a batch that
  is smaller than the queue. `Counts` is 0, 1 and 3: nothing, a fitting batch,
  and one as large as the queue, which must be clamped. `Word` is 16: above
  twice the size, the only fact used of it.
* `IndexQueue` has 4 slots: three elements, so a drain can be broken off before,
  between and after the wrap; it is a power of two, as `spsc_queue_cached`, which
  masks its count, requires. The proofs cover every size. A queue that is copied
  begins in the last slot (`Heads`), so that its elements wrap.
* `FlagQueueTest` passes four elements through three slots, so that each
  repetition goes past the end, and repeats once: the second repetition is the
  one that could meet the first one's queue.
* `ChunkedQueue` has two chunks of two usable slots, where the consumer's and
  the producer's chunk meet in every way, or three chunks of one usable slot,
  where they can be apart by a full chunk.
* `RingBuffer` has 8 bytes, a header of 1 and an alignment of 2, and records of
  a quarter, a half and three quarters of the buffer: up to four records, every
  wrap distance with and without room. Its positions go round three times before
  they wrap at `Word`. With a header of 1 every length below 8 fits, rounded.
  Records are told apart by their lengths; what their payloads hold is one value
  here and any in the proof.
* `ChunkedRingBuffer` has two chunks of 8 bytes, in which records of a quarter
  and a half wrap, or three chunks of 4 bytes, one record at most in each,
  where a chunk can be left behind. Lengths that `produce` turns down at once
  are part of the instances.
* `MpmcQueue` has three threads and two indices: a third thread is what it takes
  for two to compete while another is half way. Any set of threads allocates
  and none frees, or one allocates and all free. In the run `mpmc_reuse` two
  threads do both.

Two elements suffice to tell order, and where order does not matter one does.

What a client may mix. A chunked consumer keeps to one of the functions that
remove elements; in `ring` `consume` and `consume_all` are mixed without
caches, and with caches `consume` is called alone; offsets are left to
`consume`. The reasons are below. `consume_all` alone with caches is the variant
without, as it uses none. In `ring` no record is too long for the buffer, and in
`mpmc` threads that compete to allocate never free; `mpmc_reuse` has those.

Fairness. The benchmarks' threads call in a loop until a fixed number of
elements has passed; `Fairness` is weak fairness of each client's steps, that is
of a thread that keeps being scheduled, and of propagation: an atomic store
becomes visible in finite time. `FlagQueueTest` adds the library, which releases
a barrier both threads have reached. There is no fairness on a particular
operation or answer. In the flow runs callbacks do not give up: a callback that
always refuses would stop the queue by itself; `FlagQueueTest`, `IndexQueue` and
`RingBuffer` ask their liveness of `steady` clients for the same reason. A record
of more than half the buffer can be refused for ever by an empty one, where it
fits on neither side of the position. In `MpmcQueue` a
thread that has begun a call goes on with it (`Continue`); nobody has to begin
one. `ChunkedRingBuffer` has no liveness run: the behaviour graph is too large
for TLC. `NeverStuck` is the safety property behind it.

Deadlock is checked everywhere but in `flag_test`, where the benchmark ends.

### Defects, and where code and documentation disagree

Shown by a run that expects the violation:

* `discard` of the release queue does not refresh `_tail_cache`. After
  `is_empty()` answered false it is legal, but a later `pop`, `consume` or
  `front` then takes a slot without an object (`spsc_unpeeked`). After `front()`
  it is sound, and the other runs use it that way.
* `consume_all` of the ring buffers with offsets assigns `size` where it means
  to compare, and hands over the first record for ever (`ring_again`).
* `mpmc_queue` has the ABA problem at `:41`. A thread in `allocate` reads the head
  of the list and its successor; others pop that head and the successor, and
  free the head; the swap succeeds and makes the successor, which is in use, the
  head, or loses an index that was freed (`mpmc_reuse`, with two threads that
  allocate and free). Where one thread allocates, or nobody frees, it is sound
  (`mpmc`).

In the model, but no run expects the violation:

* `produce_n` refused by its callback returns the number of elements it did
  *not* put in (`spsc_queue_release.hpp:931`), against the comment at `:896`.
  `CountsExact` leaves that call out; stated for it too (`pPc = "refused"`), TLC
  finds it violated.
* The byte ring buffers accept records they cannot hold. The guard `length <= 0
  || length >= size` (`spsc_ring_buffer.hpp:30`, and `:175`,
  `spsc_ring_buffer_cached.hpp:30`, `:187`, `spsc_ring_buffer_heap.hpp:71`)
  counts neither the header nor the rounding. With the header of eight bytes, a
  length just below `size` has a rounded length above it; `size -
  rounded_length`, unsigned, wraps around, both room tests pass whatever the
  buffer holds, unread records are overwritten and the payload leaves
  `_buffer`. So it is in the model: with `Size` 32, `Header` 8, `Align` 8 and `Lengths` {8, 28}
  TLC finds `HandedOver` violated. All else said here about these buffers is for
  records that fit (`RecordsFit`).
* `operator=` of `spsc_queue`, `spsc_queue_cached` and `spsc_queue_cached_ptr`
  stores the new indices (`spsc_queue.hpp:54`, `:227`, `:729`) before it copies
  the elements, with no guard. When a copy constructor throws, the queue counts
  slots that hold no object, and the next `consume`, assignment or destructor
  uses them. The release queue's `operator=` has a guard that stores only what
  was constructed. `AssignThrows` is in the run and in the theorems; without
  `torn` in it, TLC finds `LiveExactly` violated.

Read in the code while modelling it; the runs keep away from these:

* `read` of trivial types copies from the destination into the buffer
  (`:1148`). The queue's own state stays consistent, so `read` takes part in
  `spsc_flow` and in the theorems.
* `consume_all` of `spsc_queue_chunked(_ptr)` does not refresh the chunks' cached
  tails (`spsc_queue.hpp:615`); a `consume` that follows takes a destroyed
  element. The same holds of the cached ring buffers
  (`spsc_ring_buffer_cached.hpp:116`, `:258`). Each function alone is sound.
* `consume_all` is said to return "true if buffer is empty after this call"
  (`spsc_queue.hpp:137`, `:318`, `:820`) and returns a number of elements.
  Where there was nothing to take, that of `spsc_queue` returns true, that is
  one (`:144`). `DrainCount` is about calls that found something.
* Copying or destroying a chunk wraps at the size of the queue, not of the chunk
  (`spsc_queue.hpp:436`). The copy constructors of `spsc_queue`,
  `spsc_queue_cached(_ptr)` and `spsc_queue_chunked(_ptr)` and the assignment of
  `spsc_queue_chunked` would not compile if they were used: they initialise an
  atomic from an atomic or add to an array. `Assign` of `IndexQueue` is the
  assignment operators, which do.
* `spsc_ring_buffer_chunked`: the guard on the length (`:66`) forgets the header,
  so a record may be accepted that a chunk cannot hold in one piece
  (`LengthsAssumption` excludes those). `consume_all` does nothing and answers
  true. A callback that refuses the first record of a chunk just entered is
  called a second time (`:171`); if it then accepts, the consumer's chunk stays
  the one before, and with three chunks or more a record can end up where the
  consumer never looks. TLC finds this as soon as `NothingStranded` is stated
  without its first conjunct.
* `mpmc_queue`: `:62` loads with `memory_order_acq_rel`, which a load may not have;
  the model takes it for an acquire. `Dequeue` neither calls its callback nor
  frees the index (`:87`), which is what `RunsOut` says.

## Proofs

For every value of the constants that satisfies the named assumptions.

**`SpscQueueProofs`**: for every `Size`, `Word`, `Elem`, `Counts` and set of
operations,

    Spec => []Invariant    []TypeOK    []Window    []LiveExactly    []HandedOver

provided the client peeks before it discards ("discard_unpeeked" is not among
the consumer's operations; without this they are false, see above).

None of the properties is inductive alone. `Invariant` adds what the calls in
progress rely on (`ProducerFrame`, `ConsumerFrame`) to `TypeOK`, `Window` and
`LiveExactly`. The idea is to count every index from the oldest one that anyone
remembers, the producer's `headCache` (`Offset`): `Window` says the indices come
in a fixed order on the ring, and every step either moves one of them towards
its successor or, when `headCache` itself moves, shifts all offsets by the same
amount. The lemmas about `Dist`, `NextBy`, `Free` and `Filled` give that
arithmetic; then there is one lemma per action; `HandedOver` follows from
the invariant.

It also proves, again without the unpeeked discard,

    Spec => CountsExact    ShortMeansFull    AnswersKept

from a second invariant beside the first, `Results`: the count a call is about
to return is the distance between its index in memory and its cursor
(`ProducerCounts`, `ConsumerCounts`), a batch that was cut short ends at the last
usable slot as seen from `headCache` (`ShortGrant`), and after an answer of
"not full" or "not empty" there is such a slot or element between what the
client can see and its cursor (`Answers`). `CountsExact` says nothing of a
`produce_n` that was refused, whose result is wrong. `AnswersKept` stays true
because the other thread only moves its index away, and a copy only catches up
with it.

The last theorem is `Spec => FifoSpec`: the release queue implements the bounded FIFO of `Size - 1` elements, provided neither the unpeeked discard
nor `read` is among the operations (`read` writes into the buffer, see above).
The published elements not yet taken are `Contents`, a function of the
consumer's cursor, the producer's index and the slots between. Under the
invariant every step leaves it alone, appends the whole batch at once
(`Publish`), drops the first element and hands it over (`Take`, `Drain`), or
replaces it (`Create`, `Assign`, `Destroy`).

**`RingProofs`** holds the lemmas about `Dist` and `Between` the index queues need.

**`IndexQueueProofs`** proves, for every `Size`, `Elem` and set of classes, the
same kind of invariant, and from it

    Spec => []Invariant    []TypeOK    []LiveExactly    []HandedOver
            DrainCount     FifoSpec

All of them hold behind an assignment that threw half way as well. Then
`LiveExactly` only says that nothing is leaked, `HandedOver` not that what the
consumer takes is an object, and in `FifoSpec` what was not copied is an element
`Raw`. `DrainCount` is about calls that found an element.

`FifoSpec` says that every index queue implements the bounded FIFO. The published elements are a function of the state
(`Content`); under the invariant a step of `IndexQueue` leaves it alone
(constructing, loading, propagating), appends one element within the capacity
(`StoreTail`), removes the first and hands it over (`Take`, `Drain`), or replaces
it (`Assign`, `AssignThrows`). Each case is a lemma about `Content` before and after.

**`FlagQueueTestProofs`** proves, for every `Size`, `Total`, `Repetitions` and
set of classes,

    Spec => []Invariant    []NoUseAfterDelete    []HandedOver
            []EmptyAfterTest    FifoSpec

`Invariant` is `TypeOK`, `Phases` (where the two threads can be at the same
time, which the barriers give), `InCalls` (a thread is in a call only inside its
loop and before its last element) and `Flags` (a flag's copy is late in the safe
direction only, and tells which slots hold an object). `NoUseAfterDelete` needs
the first three, `HandedOver` the last. For the other two no variable says how
many elements there are, so a second invariant beside the first, `Counting`,
takes that number from the harness's counters: the set flags are `sent` minus
`received` (each one more while a thread has still to move its index on), start
at the consumer's next slot and end before the producer's (`Window`), and each
stage fixes what a thread has counted (`Counted`). Then `SetFlag` appends, `Take`
removes, and a new queue is as empty as the one before it was in the end.

**`ChunkedQueueProofs`** proves, for every number and size of chunks, `Elem`,
set of classes and set of consumers,

    Spec => []Invariant    []TypeOK    []LiveExactly    []HandedOver
            []LeftEmpty    NextHasElement    SomeIsKept    FifoSpec

provided every consumer keeps to one kind of removal (`KeepToOne`: one that
calls `consume_all` calls neither `Dequeue` nor `pop`; with both they are false,
since `consume_all` does not keep the caches, see above).

* Inside a chunk, positions are counted from the oldest one anyone remembers, the
  chunk's cached or seen head (`Off`); `Window` says in which order they come.
  Chunks are counted in the same way from `headChunkSeen` (`Ahead`); `Order`
  puts the consumer's chunk, the one it can see the producer in, and the
  producer's own in a row.
* What has been stored and is not visible yet is a sequence of stores, and the
  two ends of it are the copy and the original. `ConsumerView` and
  `ProducerView` say that the stores of a queue come in the order of the
  positions they tell (`InOrder`), lie between the two (`Between`), and that
  when a store of `tail_chunk` becomes visible, so is an element in the chunk
  it tells (`FirstElement`). This is where the order of the two release stores
  in `Enqueue` is needed: with it the other way round `FirstElement` is false.
* The chunks are told apart by where they are: those the consumer has left are
  empty (`Left`), those the producer has not entered are (`Unentered`), those in
  between hold elements and will get no more (`Final`, `Filled`).
* The calls in progress add what they know (the frames), and a false from
  `is_empty` adds that there is an element to be seen (`Some`).

There is one lemma per action, and under it one step per part the action can
disturb; pushing to and popping from a queue of stores are lemmas of their own.

`FifoSpec` needs no more of the state, but something about its mapping:
`Contents` joins the chunks' parts by recursion on their number. That the join
exists, is the only one, and how it follows its parts are lemmas about any row
of sequences (`Joins`), by induction over a *set* of numbers: `Inducts`
takes the least number outside the set from the library's theorem that the
finite sets are well-founded, since its induction theorems take an operator. An
element added to the last part that is not empty is added to the join
(`JoinAppends`), the first element of the first part that is not empty is the
first of the join (`JoinTakes`), and empty parts may go from the front to the
back (`JoinShifts`). The invariant says which parts are empty: those in front of
the chunk the consumer is in (`EmptyInFront`) and those behind the producer's
(`EmptyBehind`). So `PublishTail` appends, `Take` and `DrainElement` remove, and
when `ReleaseChunk` moves the front of the row it moves it over empty parts.

**`MpmcQueueProofs`** proves, for every `Size`, any finite number of threads
(`ThreadsAssumption`) and clients of which one thread at most allocates or
none frees (`SoundClients`),

    Spec => []OneOwner    []ServedOnce    RunsOut

For other clients `OneOwner` is false (`mpmc_reuse`).

* `Owned` names, for every index, the one place it is in: never handed out, in
  the list, at work in a thread, in a cell, with the caller of `allocate`, or
  lost (`Located`), and says that it is there once (`Once`). Its steps are a
  thread that obtains an index (`ObtainOwned`), one that gives it up
  (`GivenUp`), and those that hand nothing on.
* `Linked` is why a pop is right: the index a thread has compared and the next
  one it has read are those of the list as it is now. A thread that pops alone
  sees to that itself, since what is pushed meanwhile is not in the list; where
  several pop nothing is ever pushed, and the list is empty.
* `Filling` says that the cells before `tail` are filled or about to be, each
  by one thread, and the others are empty. With `Owned`, the claimed cells
  hold or await different indices and the thread that claims the next one has
  another, so there are at most `Size - 1` of them: `tail` never starts over
  (`TailMoves`). `Taking` says that a Dequeue only ever claims a claimed cell.

**`RingBufferProofs`** proves, for every `Size`, `Header`, `Align` and `Word`, every
set of lengths that fit into the buffer with header and rounding (`RecordsFit`),
and every set of variants in which `consume_all` is enabled only where positions
run on and not beside a `consume` that goes by a cache (`Mixes`),

    Spec => []Invariant    []HandedOver    []TakesARecord
            FifoSpec    RefusedMeansFull

Neither is a convenience. `produce` accepts records that do not fit, and then
`HandedOver` is false. With offsets `consume_all` takes records that are not
there, which the run `ring_again` shows; beside a `consume` that trusts
`_produce_pos_cache` it leaves that cache behind the end it has passed. The
variants of the passing runs satisfy `Mixes`.

* Every byte an end ever passed has a number, and a position is its remainder
  (`Pos`), modulo the word or the size. Six such numbers stand for the two
  ends, what was stored of them, what the other thread can see and what the
  producer remembers (`Places`); they are in order and no further apart than
  the buffer is long, one byte less with offsets (`Order`). Used and free space,
  the wrap distance and the regions of bytes are then differences of numbers,
  and the lemmas about them (`UsedPos`, `RegionPos`, `FitsMeans`) hold for
  positions that start over as for those that do not.
* `Chain` says what is in the bytes between the ends: one record behind the
  other, each of them a `Link`, which is a length, its payload and its rounding,
  with a marker before it where the end of the buffer was skipped. The
  position the consumer can see is between two records. Each record takes at
  least `Align` bytes, so there are never more than `Size \div Align`.
* The calls in progress add what they know (the frames): how far the producer's
  record will reach and that it ends before the consumer's position, and which
  link the consumer is at.
* A write lands behind everything published (`WriteBehind`), which keeps the
  chain; publishing adds a link to it (`ChainAppended`) and taking a record
  removes the first (`ChainShortened`).
* For `RefusedMeansFull`, `RoomMeans` turns the subtractions of the code into an
  inequality of numbers, `TooLong` and `NeededIs` that inequality into bytes.

**`ChunkedRingBufferProofs`** proves, for every `Align`, `Header`, `Elem` and every
set of instances (numbers and sizes of chunks, record lengths, callbacks that
change their mind or not) that keeps to the named assumptions,

    Spec => []Invariant    []HandedOver    []EmptyMeansNothing
            []NeverStuck   FifoSpec

The invariant puts together what the ring buffer and the chunked queue need
apart, and adds one thing that neither has.

* In each chunk every byte an end ever passed has a number, and a position is its
  remainder (`Pos`). Every visit to a chunk has a number too, its era, and a
  chunk is the remainder of the era (`ChunkOf`). `Order` puts the ends of each
  chunk in a row, and the consumer's era before the producer's.
* What one thread knows of the other is the result of a queue of stores, and with
  many variables in many chunks no bound on each of them is enough: the threads
  conclude from one variable to another. `Viewed` therefore attaches to each
  queue the row of states it leads through, one after each store. `ProducerView`
  says of every such state that in all the eras before the producer's the
  producer has finished, and has put a record into each era that is seen;
  `ConsumerView` that a chunk the producer may enter by what it sees is empty to
  the last byte. Pushing and popping a queue of stores (`ViewPushed`,
  `ViewPopped`) lengthen and shorten the row.
* `Chain` gives every record its era and its bytes (`Span`), each a `Link` as in
  the ring buffer, in the order of the eras and within an era of the bytes. `Far`
  counts how far a record is from the start of era 0; records are at least
  `Align` apart, which bounds their number for `FifoSpec`.
* The calls in progress add what they know (the frames). `Emptied` is what the
  consumer knows when it goes to the next chunk: the producer was seen to have
  left, and the positions are equal.
* `behind` is the callback that is asked twice about the first record of a chunk
  (`:171`): when it refuses and then accepts, the record is taken but `_tail`
  stays. Only a client that changes its mind leaves the call in this state. The
  era before the consumer's stays its chunk until the next call crosses again,
  and everything but `NothingStranded` survives it. `NothingStranded`, half
  of `NeverStuck`, holds for such clients with two chunks at most, as it says,
  since then the producer cannot be two eras on.

Every safety property, action property and refinement that a passing run checks
is a theorem. Only model-checked is liveness: `Flow` of `SpscQueue`, `IndexQueue`,
`ChunkedQueue` and `RingBuffer`, `Terminates` of `FlagQueueTest` and `SpinEnds`
of `MpmcQueue`. Liveness under fairness is out of the prover's reach, as is
ENABLED.

## Not modelled

* `LamportQueue1`, whose indices are `volatile` and not atomic: every access is a
  data race, and no test uses it.
* `read_copy` and `read_internal` of the release queue: they assign an element
  to a `T*` and do not instantiate for an ordinary element type.
* A third thread that calls `is_empty` or `is_full`.
* In `ChunkedQueue`: copying and destroying chunks, and chunks of one slot, which
  have no room for an element.
* In `IndexQueue`: a copy constructor of a queue that is left by a throw; there is
  no queue then.
* In `RingBuffer`: copying and moving `spsc_ring_buffer_heap`, and what a payload
  that is longer than the buffer overwrites behind it.
* In `MpmcQueue`: loads older than the latest store. The classes above it have those; here a stale load only
  makes a compare-and-swap fail or a Dequeue find nothing.
* In the harness: `QueueEmplaceDiscard`, which fills the queue before it empties
  it; the adapters of third-party queues; the third thread that
  `RingBufferBenchmark.cpp` has code for and `configure_queue` never creates.
* The third-party queues (`rigtorpSPSCQueue.h`, `moodycamel/`), kept here for
  comparison, and the support headers, which have no state.

## What is left

The chunk copies, once they wrap where they should.
