------------------------------ MODULE MpmcQueue ------------------------------
(***************************************************************************)
(* mpmc_queue: a queue for any number of threads that keeps its elements   *)
(* in a storage of its own and queues their indices.  An index comes from  *)
(* a list of unused ones, or from storage never used; index 0 means none.  *)
(* Nothing in the repository uses the class, and Dequeue does not give an  *)
(* index back: what is returned with free was taken with allocate.  Which  *)
(* threads call allocate or Enqueue, and which call free, is the client's  *)
(* choice, one of Clients; allocate and free look at neither.              *)
(*                                                                         *)
(* A loop of compare-and-swap that succeeds is one step where it does not  *)
(* matter what happened between its load and its success; the list of      *)
(* unused indices is where it does.                                        *)
(***************************************************************************)
EXTENDS Integers, FiniteSets

CONSTANTS
  Threads,
  Size,         \* size
  Clients       \* [allocators, freers]: who calls what

ASSUME ThreadsAssumption == IsFiniteSet(Threads)
ASSUME SizeAssumption == Size \in Nat /\ Size >= 2
ASSUME ClientsAssumption ==
  Clients \subseteq [allocators : SUBSET Threads, freers : SUBSET Threads]

VARIABLES
  allocators,           \* the threads that call allocate and Enqueue
  freers,               \* the threads that call free
  unused, unusedHead,   \* the list of unused indices, linked
  storageHead,          \* the first index never used
  queue, tail, head,    \* the cells and their ends
  pc,                   \* where each thread is
  idx,                  \* the index, or the cell, it is at work with
  next,                 \* _unused[unused_head], as it read it
  enqueues,             \* whether it allocates for Enqueue
  held,                 \* indices given to the caller of allocate
  lost                  \* indices whose constructor threw

ends == <<queue, tail, head>>
list == <<unused, unusedHead, storageHead>>
outside == <<allocators, freers, held, lost>>
vars == <<allocators, freers, unused, unusedHead, storageHead, queue, tail, head,
          pc, idx, next, enqueues, held, lost>>

Indices == 1 .. Size - 1
Cells == 0 .. Size - 1

\* Where a thread can be; an index is its own in some of these places.
Owning == {"construct", "claim", "store", "link", "push"}
Places == Owning \cup {"idle", "look", "pop", "dequeue", "claimHead", "spin"}

At(t, place) == pc[t] = place
Goto(t, place) == pc' = [pc EXCEPT ![t] = place]
Use(t, i) == idx' = [idx EXCEPT ![t] = i]

\* A call ends, and with it its locals.
Return(t) == /\ Goto(t, "idle") /\ Use(t, 0)
             /\ next' = [next EXCEPT ![t] = 0]
             /\ enqueues' = [enqueues EXCEPT ![t] = FALSE]

\* next = i + 1; if (next == size) next = 0;
After(i) == IF i + 1 = Size THEN 0 ELSE i + 1

-----------------------------------------------------------------------------
(* allocate and free                                                       *)

\* allocate(), called for its index or by Enqueue.
Allocate(t) ==
  /\ At(t, "idle") /\ t \in allocators
  /\ \E b \in BOOLEAN : enqueues' = [enqueues EXCEPT ![t] = b]
  /\ Use(t, unusedHead)
  /\ Goto(t, "look")
  /\ UNCHANGED <<list, ends, next, outside>>

\* _unused[unused_head] is read before it is compared.
ReadNext(t) ==
  /\ At(t, "look") /\ idx[t] # 0
  /\ next' = [next EXCEPT ![t] = unused[idx[t]]]
  /\ Goto(t, "pop")
  /\ UNCHANGED <<list, ends, idx, enqueues, outside>>

\* What the caller does with the index.
Obtain(t, i) ==
  /\ \/ /\ enqueues[t] /\ Goto(t, "construct") /\ Use(t, i)
        /\ UNCHANGED <<held, next, enqueues>>
     \/ ~enqueues[t] /\ Return(t) /\ held' = held \cup {i}
  /\ UNCHANGED <<ends, allocators, freers, lost>>

\* Slip: the head is not compared.
PopUncompared(t) ==
  /\ At(t, "pop")
  /\ unusedHead' = next[t] /\ UNCHANGED <<unused, storageHead>>
  /\ Obtain(t, idx[t])

Pop(t) ==
  /\ At(t, "pop") /\ unusedHead = idx[t]
  /\ unusedHead' = next[t] /\ UNCHANGED <<unused, storageHead>>
  /\ Obtain(t, idx[t])

PopFails(t) ==
  /\ At(t, "pop")
  /\ Use(t, unusedHead)
  /\ Goto(t, "look")
  /\ UNCHANGED <<list, ends, next, enqueues, outside>>

\* Slip: the first index never used stays what it is.
BumpNotStored(t) ==
  /\ At(t, "look") /\ idx[t] = 0 /\ storageHead < Size
  /\ UNCHANGED list
  /\ Obtain(t, storageHead)

\* No unused index: new storage.
Bump(t) ==
  /\ At(t, "look") /\ idx[t] = 0 /\ storageHead < Size
  /\ storageHead' = storageHead + 1 /\ UNCHANGED <<unused, unusedHead>>
  /\ Obtain(t, storageHead)

\* No storage either: allocate returns 0, Enqueue false.
Exhausted(t) ==
  /\ At(t, "look") /\ idx[t] = 0 /\ storageHead >= Size
  /\ Return(t)
  /\ UNCHANGED <<list, ends, outside>>

\* free(idx), for an index the caller has from allocate.
Free(t) ==
  /\ At(t, "idle") /\ t \in freers
  /\ \E i \in held : Use(t, i) /\ held' = held \ {i}
  /\ Goto(t, "link")
  /\ UNCHANGED <<list, ends, next, enqueues, allocators, freers, lost>>

\* The head is loaded and written behind the index.
Link(t) ==
  /\ At(t, "link")
  /\ unused' = [unused EXCEPT ![idx[t]] = unusedHead]
  /\ next' = [next EXCEPT ![t] = unusedHead]
  /\ Goto(t, "push")
  /\ UNCHANGED <<unusedHead, storageHead, ends, idx, enqueues, outside>>

Push(t) ==
  /\ At(t, "push")
  /\ \/ unusedHead = next[t] /\ unusedHead' = idx[t] /\ Return(t)
     \/ Goto(t, "link") /\ UNCHANGED <<unusedHead, idx, next, enqueues>>
  /\ UNCHANGED <<unused, storageHead, ends, outside>>

-----------------------------------------------------------------------------
(* Enqueue and Dequeue                                                     *)

Construct(t) ==
  /\ At(t, "construct")
  /\ Goto(t, "claim")
  /\ UNCHANGED <<list, ends, idx, next, enqueues, outside>>

\* The constructor throws: nobody has the index any more.
Throw(t) ==
  /\ At(t, "construct")
  /\ lost' = lost \cup {idx[t]}
  /\ Return(t)
  /\ UNCHANGED <<list, ends, allocators, freers, held>>

\* A cell is claimed, and only then filled: next is the cell now.
ClaimTail(t) ==
  /\ At(t, "claim")
  /\ next' = [next EXCEPT ![t] = tail]
  /\ tail' = After(tail)
  /\ Goto(t, "store")
  /\ UNCHANGED <<list, queue, head, idx, enqueues, outside>>

\* Slip: the cell filled is the one after.
StoreIndexLate(t) ==
  /\ At(t, "store")
  /\ queue' = [queue EXCEPT ![After(next[t])] = idx[t]]
  /\ Return(t)
  /\ UNCHANGED <<list, tail, head, outside>>

StoreIndex(t) ==
  /\ At(t, "store")
  /\ queue' = [queue EXCEPT ![next[t]] = idx[t]]
  /\ Return(t)
  /\ UNCHANGED <<list, tail, head, outside>>

Dequeue(t) ==
  /\ At(t, "idle")
  /\ Use(t, head)
  /\ Goto(t, "dequeue")
  /\ UNCHANGED <<list, ends, next, enqueues, outside>>

\* _tail is loaded after _head and compared with it.
LoadTail(t) ==
  /\ At(t, "dequeue")
  /\ \/ idx[t] = tail /\ Return(t)
     \/ idx[t] # tail /\ Goto(t, "claimHead") /\ UNCHANGED <<idx, next, enqueues>>
  /\ UNCHANGED <<list, ends, outside>>

\* Slip: _head is not compared.
ClaimHeadUncompared(t) ==
  /\ At(t, "claimHead")
  /\ head' = After(idx[t]) /\ Goto(t, "spin") /\ UNCHANGED idx
  /\ UNCHANGED <<list, queue, tail, next, enqueues, outside>>

\* Where _head has moved on the loop starts over with what it is now.
ClaimHead(t) ==
  /\ At(t, "claimHead")
  /\ \/ head = idx[t] /\ head' = After(head) /\ Goto(t, "spin") /\ UNCHANGED idx
     \/ Use(t, head) /\ Goto(t, "dequeue") /\ UNCHANGED head
  /\ UNCHANGED <<list, queue, tail, next, enqueues, outside>>

\* The cell is watched until it is filled; then Dequeue returns true.
Spin(t) ==
  /\ At(t, "spin") /\ queue[idx[t]] # 0
  /\ Return(t)
  /\ UNCHANGED <<list, ends, outside>>

-----------------------------------------------------------------------------
Init ==
  /\ \E c \in Clients : allocators = c.allocators /\ freers = c.freers
  /\ unused = [i \in Cells |-> 0] /\ unusedHead = 0 /\ storageHead = 1
  /\ queue = [c \in Cells |-> 0] /\ tail = 0 /\ head = 0
  /\ pc = [t \in Threads |-> "idle"] /\ idx = [t \in Threads |-> 0]
  /\ next = [t \in Threads |-> 0] /\ enqueues = [t \in Threads |-> FALSE]
  /\ held = {} /\ lost = {}

Begin(t) == Allocate(t) \/ Free(t) \/ Dequeue(t)

Continue(t) == \/ ReadNext(t) \/ Pop(t) \/ PopFails(t) \/ Bump(t) \/ Exhausted(t)
               \/ Link(t) \/ Push(t) \/ Construct(t) \/ Throw(t)
               \/ ClaimTail(t) \/ StoreIndex(t)
               \/ LoadTail(t) \/ ClaimHead(t) \/ Spin(t)

Next == \E t \in Threads : Begin(t) \/ Continue(t)

Spec == Init /\ [][Next]_vars

\* No thread stops inside a call.
FairSpec == Spec /\ \A t \in Threads : WF_vars(Continue(t))

-----------------------------------------------------------------------------
(* Correctness.                                                            *)

\* TypeOK: every variable stays within its range.
TypeOK ==
  /\ allocators \subseteq Threads /\ freers \subseteq Threads
  /\ unused \in [Cells -> Cells] /\ unusedHead \in Cells /\ storageHead \in 1 .. Size
  /\ queue \in [Cells -> Cells] /\ tail \in Cells /\ head \in Cells
  /\ pc \in [Threads -> Places]
  /\ idx \in [Threads -> Cells] /\ next \in [Threads -> Cells]
  /\ enqueues \in [Threads -> BOOLEAN]
  /\ held \subseteq Indices /\ lost \subseteq Indices

\* s is the list of the n unused indices, from the first to the 0 at its end.
List(s, n) == /\ s \in [0 .. n -> Cells] /\ s[0] = unusedHead /\ s[n] = 0
              /\ \A k \in 0 .. n - 1 : s[k] # 0 /\ s[k + 1] = unused[s[k]]

\* Who has index i: a place in the list, a thread, a cell, the caller, nobody.
Owners(i, s, n) ==
  {<<"list", k>> : k \in {k \in 0 .. n - 1 : s[k] = i}}
  \cup {<<"thread", t>> : t \in {t \in Threads : pc[t] \in Owning /\ idx[t] = i}}
  \cup {<<"cell", c>> : c \in {c \in Cells : queue[c] = i}}
  \cup {<<"held", c>> : c \in held \cap {i}} \cup {<<"lost", c>> : c \in lost \cap {i}}

\* What OneOwner, ServedOnce and RunsOut ask of the clients: that one thread at
\* most allocates, whoever frees, or that nobody frees.  With two threads that
\* allocate, one can read the successor of the head, the other pop that head and
\* its successor and free the head, and the first then makes the successor,
\* which is in use, the head of the list.
SoundClients == \A c \in Clients : c.freers = {} \/ Cardinality(c.allocators) <= 1

\* OneOwner: an index that was handed out has one owner at any time, and one
\* that was not has none: none is handed out twice and none drops out of the
\* list.  It holds for SoundClients; for others the swap in allocate breaks it.
OneOwner ==
  /\ TypeOK
  /\ \E n \in 0 .. Size - 1 : \E s \in [0 .. n -> Cells] :
       /\ List(s, n)
       /\ \A i \in Indices :
            Cardinality(Owners(i, s, n)) = IF i < storageHead THEN 1 ELSE 0

\* ServedOnce: the cell a thread waits for is no other thread's, and was claimed
\* by an Enqueue that fills it or has filled it: nobody waits for nothing.
ServedOnce ==
  \A t \in Threads : At(t, "spin") =>
    /\ idx[t] < head
    /\ \A u \in Threads \ {t} : At(u, "spin") => idx[u] # idx[t]
    /\ queue[idx[t]] # 0 \/ \E u \in Threads : At(u, "store") /\ next[u] = idx[t]

\* RunsOut: no index in a cell is ever given back, so Enqueue succeeds Size - 1
\* times at most: the ends never start over and a cell is filled once.
RunsOut == [][/\ head <= tail /\ tail <= tail'
              /\ \A c \in Cells : queue[c] # 0 => queue'[c] = queue[c]]_vars

\* SpinEnds: a Dequeue that has claimed its cell returns.
SpinEnds == \A t \in Threads : At(t, "spin") ~> ~At(t, "spin")
=============================================================================
