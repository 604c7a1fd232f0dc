-------------------------- MODULE MpmcQueueProofs --------------------------
(***************************************************************************)
(* Theorems about MpmcQueue, for every size and any finite number of       *)
(* threads.                                                                *)
(***************************************************************************)
EXTENDS MpmcQueue, FiniteSetTheorems, TLAPS

-----------------------------------------------------------------------------
(* The invariant.                                                          *)

\* Where an index can be: not yet handed out, in the list of unused ones, at
\* work in a thread, in a cell, with the caller of allocate, or nowhere.
Kinds == {"fresh", "list", "thread", "cell", "held", "lost"}

Owns(t, i) == pc[t] \in Owning /\ idx[t] = i

\* Index i is there, and nowhere else; s is the list, of length n.
IsAt(place, i, s, n) ==
  /\ place = "fresh" <=> i >= storageHead
  /\ place = "list" <=> \E k \in 0 .. n - 1 : s[k] = i
  /\ place = "thread" <=> \E t \in Threads : Owns(t, i)
  /\ place = "cell" <=> \E c \in Cells : queue[c] = i
  /\ place = "held" <=> i \in held
  /\ place = "lost" <=> i \in lost
Located(kind, s, n) == \A i \in Indices : IsAt(kind[i], i, s, n)

\* It is there once.
Once(s, n) ==
  /\ \A j, k \in 0 .. n : s[j] = s[k] => j = k
  /\ \A t, u \in Threads : \A i \in Cells : Owns(t, i) /\ Owns(u, i) => t = u
  /\ \A c, d \in Cells : queue[c] = queue[d] /\ queue[c] # 0 => c = d
  /\ \A t \in Threads : ~Owns(t, 0)

\* The list does not change behind a thread that pops: nobody else pops, and
\* what is pushed is an index the list does not have.
Alone == Cardinality(allocators) <= 1
Linked(kind, n) ==
  /\ \A t \in Threads :
       /\ pc[t] \in {"look", "pop"} => /\ t \in allocators
                                       /\ idx[t] # 0 => kind[idx[t]] = "list"
       /\ pc[t] = "pop" => idx[t] # 0
       /\ pc[t] \in {"pop", "push"} => next[t] = unused[idx[t]]
       /\ pc[t] \in {"link", "push"} => Alone
  /\ ~Alone => n = 0

Ownership(kind, s, n) ==
  /\ kind \in [Indices -> Kinds] /\ n \in Nat /\ List(s, n)
  /\ Located(kind, s, n) /\ Once(s, n) /\ Linked(kind, n)

\* The cells before the tail are filled or about to be, each by one thread.
Stores(t, c) == pc[t] = "store" /\ next[t] = c
Filling ==
  /\ \A c \in Cells : IF c < tail THEN queue[c] # 0 \/ \E t \in Threads : Stores(t, c)
                                  ELSE queue[c] = 0
  /\ \A t \in Threads : \A c \in Cells : Stores(t, c) => c < tail /\ queue[c] = 0
  /\ \A t, u \in Threads : \A c \in Cells : Stores(t, c) /\ Stores(u, c) => t = u

\* The head follows the tail; a thread that spins has moved it.
Taking ==
  /\ head <= tail
  /\ \A t \in Threads :
       /\ pc[t] \in {"dequeue", "claimHead"} => idx[t] <= head
       /\ pc[t] = "claimHead" => idx[t] < tail
       /\ pc[t] = "spin" => idx[t] < head
  /\ \A t, u \in Threads : pc[t] = "spin" /\ pc[u] = "spin" /\ idx[t] = idx[u] => t = u

Owned == \E kind, s, n : Ownership(kind, s, n)

\* Nobody frees where several allocate.
FreeingAlone == freers # {} => Alone

Invariant == TypeOK /\ FreeingAlone /\ Owned /\ Filling /\ Taking

-----------------------------------------------------------------------------
(* What a step of one thread leaves alone.                                 *)

Others(t) == \A u \in Threads : u # t => /\ pc'[u] = pc[u] /\ idx'[u] = idx[u]
                                         /\ next'[u] = next[u]

\* Every step is a step of one thread, and stays in range.
LEMMA StepBasics ==
  ASSUME TypeOK, NEW t \in Threads, Begin(t) \/ Continue(t)
  PROVE  Others(t) /\ allocators' = allocators /\ freers' = freers
<1>1. /\ pc \in [Threads -> Places] /\ idx \in [Threads -> Cells]
      /\ next \in [Threads -> Cells]
  BY DEF TypeOK
<1>2. CASE Begin(t)
  BY <1>1, <1>2 DEF Begin, Allocate, Free, Dequeue, Goto, Use, Others, outside
<1>3. CASE ReadNext(t) \/ Pop(t) \/ PopFails(t) \/ Bump(t) \/ Exhausted(t)
  BY <1>1, <1>3 DEF ReadNext, Pop, PopFails, Bump, Exhausted, Obtain, Return, Goto,
                    Use, Others, outside
<1>4. CASE Link(t) \/ Push(t) \/ Construct(t) \/ Throw(t)
  BY <1>1, <1>4 DEF Link, Push, Construct, Throw, Return, Goto, Use, Others, outside
<1>5. CASE ClaimTail(t) \/ StoreIndex(t) \/ LoadTail(t) \/ ClaimHead(t) \/ Spin(t)
  BY <1>1, <1>5 DEF ClaimTail, StoreIndex, LoadTail, ClaimHead, Spin, Return, Goto,
                    Use, Others, outside
<1> QED BY <1>2, <1>3, <1>4, <1>5 DEF Continue

\* A step that hands no index on and touches neither list nor cells.
LEMMA OwnershipKept ==
  ASSUME NEW kind, NEW s, NEW n, Ownership(kind, s, n), NEW t \in Threads, Others(t),
         UNCHANGED <<list, queue, held, lost, allocators>>,
         pc'[t] \in Owning <=> pc[t] \in Owning,
         pc[t] \in Owning => idx'[t] = idx[t],
         pc'[t] \in {"look", "pop"} => /\ t \in allocators
                                       /\ idx'[t] # 0 => kind[idx'[t]] = "list",
         pc'[t] = "pop" => idx'[t] # 0,
         pc'[t] \in {"pop", "push"} => next'[t] = unused[idx'[t]],
         pc'[t] \in {"link", "push"} => Alone
  PROVE  Ownership(kind, s, n)'
<1>1. \A u \in Threads : \A i \in Cells : Owns(u, i)' <=> Owns(u, i)
  BY DEF Others, Owns
<1>2. List(s, n)'
  BY DEF Ownership, List, list
<1>i. Indices \subseteq Cells /\ 0 \in Cells
  BY SizeAssumption DEF Indices, Cells
<1>3. Located(kind, s, n)'
  <2> SUFFICES ASSUME NEW i \in Indices
               PROVE  IsAt(kind[i], i, s, n)'
    BY DEF Located
  <2>1. IsAt(kind[i], i, s, n)
    BY DEF Ownership, Located
  <2> QED BY <1>1, <1>i, <2>1 DEF IsAt, list
<1>4. Once(s, n)'
  BY <1>1, <1>i DEF Ownership, Once
<1>5. Linked(kind, n)'
  BY DEF Ownership, Linked, Others, Alone, list
<1> QED BY <1>2, <1>3, <1>4, <1>5 DEF Ownership

LEMMA FillingKept ==
  ASSUME Filling, NEW t \in Threads, Others(t), UNCHANGED <<queue, tail>>,
         pc[t] # "store", pc'[t] # "store"
  PROVE  Filling'
<1>1. \A u \in Threads : \A c \in Cells : Stores(u, c)' <=> Stores(u, c)
  BY DEF Others, Stores
<1> QED BY <1>1 DEF Filling

LEMMA TakingKept ==
  ASSUME Taking, NEW t \in Threads, Others(t), UNCHANGED <<tail, head>>,
         pc'[t] \notin {"dequeue", "claimHead", "spin"}
  PROVE  Taking'
BY DEF Taking, Others

\* A step that only moves one thread on.
LEMMA PlaceStep ==
  ASSUME Invariant, NEW t \in Threads,
         \/ Allocate(t) \/ ReadNext(t) \/ PopFails(t) \/ Exhausted(t) \/ Construct(t)
         \/ ClaimTail(t) \/ Dequeue(t) \/ LoadTail(t) \/ ClaimHead(t) \/ Spin(t)
  PROVE  Owned'
<1>1. PICK kind, s, n : Ownership(kind, s, n)
  BY DEF Invariant, Owned
<1>o. Others(t)
  BY StepBasics DEF Invariant, Begin, Continue
<1>t. /\ pc \in [Threads -> Places] /\ idx \in [Threads -> Cells]
      /\ next \in [Threads -> Cells] /\ unusedHead \in Cells
  BY DEF Invariant, TypeOK
<1>h. unusedHead # 0 => unusedHead \in Indices /\ kind[unusedHead] = "list"
  <2> SUFFICES ASSUME unusedHead # 0
               PROVE  unusedHead \in Indices /\ kind[unusedHead] = "list"
    OBVIOUS
  <2>1. unusedHead \in Indices
    BY <1>t DEF Cells, Indices
  <2>2. s[0] = unusedHead /\ s[n] = 0 /\ n \in Nat
    BY <1>1 DEF Ownership, List
  <2>3. 0 \in 0 .. n - 1
    BY <2>2
  <2> QED BY <1>1, <2>1, <2>2, <2>3 DEF Ownership, Located, IsAt
<1>k. UNCHANGED <<list, queue, held, lost, allocators>>
  BY DEF Allocate, ReadNext, PopFails, Exhausted, Construct, ClaimTail, Dequeue,
         LoadTail, ClaimHead, Spin, ends, outside, Return, Goto, Use
<1>l. /\ pc[t] \in {"look", "pop"} => /\ t \in allocators
                                      /\ idx[t] # 0 => kind[idx[t]] = "list"
      /\ pc[t] = "pop" => idx[t] # 0
  BY <1>1 DEF Ownership, Linked
<1>2. CASE Allocate(t)
  <2>1. pc[t] = "idle" /\ pc'[t] = "look" /\ t \in allocators /\ idx'[t] = unusedHead
    BY <1>2, <1>t DEF Allocate, At, Goto, Use
  <2>2. Ownership(kind, s, n)'
    BY <1>1, <1>o, <1>k, <2>1, <1>h, OwnershipKept DEF Owning
  <2> QED BY <2>2 DEF Owned
<1>3. CASE ReadNext(t)
  <2>1. /\ pc[t] = "look" /\ pc'[t] = "pop" /\ idx' = idx /\ idx[t] # 0
        /\ next'[t] = unused[idx[t]]
    BY <1>3, <1>t DEF ReadNext, At, Goto
  <2>2. /\ pc'[t] \in {"look", "pop"} => /\ t \in allocators
                                         /\ idx'[t] # 0 => kind[idx'[t]] = "list"
        /\ pc'[t] = "pop" => idx'[t] # 0
        /\ pc'[t] \in {"pop", "push"} => next'[t] = unused[idx'[t]]
        /\ pc'[t] \in {"link", "push"} => Alone
        /\ pc'[t] \in Owning <=> pc[t] \in Owning
        /\ pc[t] \in Owning => idx'[t] = idx[t]
    BY <2>1, <1>l DEF Owning
  <2>3. Ownership(kind, s, n)'
    BY <1>1, <1>o, <1>k, <2>2, OwnershipKept
  <2> QED BY <2>3 DEF Owned
<1>4. CASE PopFails(t)
  <2>1. pc[t] = "pop" /\ pc'[t] = "look" /\ idx'[t] = unusedHead
    BY <1>4, <1>t DEF PopFails, At, Goto, Use
  <2>2. /\ pc'[t] \in {"look", "pop"} => /\ t \in allocators
                                         /\ idx'[t] # 0 => kind[idx'[t]] = "list"
        /\ pc'[t] = "pop" => idx'[t] # 0
        /\ pc'[t] \in {"pop", "push"} => next'[t] = unused[idx'[t]]
        /\ pc'[t] \in {"link", "push"} => Alone
        /\ pc'[t] \in Owning <=> pc[t] \in Owning
        /\ pc[t] \in Owning => idx'[t] = idx[t]
    BY <2>1, <1>h, <1>l DEF Owning
  <2>3. Ownership(kind, s, n)'
    BY <1>1, <1>o, <1>k, <2>2, OwnershipKept
  <2> QED BY <2>3 DEF Owned
<1>5. CASE Construct(t) \/ ClaimTail(t)
  <2>1. pc[t] \in {"construct", "claim"} /\ pc'[t] \in {"claim", "store"} /\ idx' = idx
    BY <1>5, <1>t DEF Construct, ClaimTail, At, Goto
  <2>2. Ownership(kind, s, n)'
    BY <1>1, <1>o, <1>k, <2>1, OwnershipKept DEF Owning
  <2> QED BY <2>2 DEF Owned
<1>6. CASE Exhausted(t) \/ Dequeue(t) \/ LoadTail(t) \/ ClaimHead(t) \/ Spin(t)
  <2>1. /\ pc[t] \in {"look", "idle", "dequeue", "claimHead", "spin"}
        /\ pc'[t] \in {"idle", "dequeue", "claimHead", "spin"}
    BY <1>6, <1>t DEF Exhausted, Dequeue, LoadTail, ClaimHead, Spin, At, Goto, Return
  <2>2. Ownership(kind, s, n)'
    BY <1>1, <1>o, <1>k, <2>1, OwnershipKept DEF Owning
  <2> QED BY <2>2 DEF Owned
<1> QED BY <1>2, <1>3, <1>4, <1>5, <1>6

-----------------------------------------------------------------------------
(* Types.                                                                  *)

\* The index a thread has is one; so is the one it is about to pop.
LEMMA OwnIndex ==
  ASSUME Invariant, NEW t \in Threads, pc[t] \in Owning \/ pc[t] = "pop"
  PROVE  idx[t] \in Indices
<1>1. PICK kind, s, n : Ownership(kind, s, n)
  BY DEF Invariant, Owned
<1>2. idx[t] \in Cells
  BY DEF Invariant, TypeOK
<1>3. idx[t] # 0
  BY <1>1 DEF Ownership, Once, Owns, Linked
<1> QED BY <1>2, <1>3, SizeAssumption DEF Cells, Indices

LEMMA TypeStep ==
  ASSUME Invariant, NEW t \in Threads, Begin(t) \/ Continue(t)
  PROVE  TypeOK'
<1>t. TypeOK
  BY DEF Invariant
<1>i. Indices \subseteq Cells /\ 0 \in Cells /\ 1 .. Size - 1 = Indices
  BY SizeAssumption DEF Indices, Cells
<1>a. \A c \in Cells : After(c) \in Cells
  BY SizeAssumption DEF After, Cells
<1>1. CASE Allocate(t)
  BY <1>t, <1>1 DEF TypeOK, Allocate, Goto, Use, Places, list, ends, outside
<1>2. CASE ReadNext(t) \/ PopFails(t) \/ Exhausted(t)
  BY <1>t, <1>i, <1>2 DEF TypeOK, ReadNext, PopFails, Exhausted, Goto, Use, Return, Places,
                    list, ends, outside
<1>o. ASSUME NEW i \in Indices, Obtain(t, i)
      PROVE  /\ pc' \in [Threads -> Places] /\ idx' \in [Threads -> Cells]
             /\ next' \in [Threads -> Cells] /\ enqueues' \in [Threads -> BOOLEAN]
             /\ held' \subseteq Indices /\ UNCHANGED <<ends, allocators, freers, lost>>
  BY <1>t, <1>i, <1>o DEF TypeOK, Obtain, Goto, Use, Return, Places, Owning
<1>3. CASE Pop(t)
  <2>1. idx[t] \in Indices
    BY <1>3, OwnIndex DEF Pop, At
  <2>2. Obtain(t, idx[t])
    BY <1>3 DEF Pop
  <2> QED BY <1>t, <1>3, <1>o, <2>1, <2>2 DEF TypeOK, Pop, ends
<1>4. CASE Bump(t)
  <2>1. storageHead \in Indices /\ storageHead + 1 \in 1 .. Size
    BY <1>t, <1>4, SizeAssumption DEF TypeOK, Bump, Indices
  <2>2. Obtain(t, storageHead)
    BY <1>4 DEF Bump
  <2> QED BY <1>t, <1>4, <1>o, <2>1, <2>2 DEF TypeOK, Bump, ends
<1>5. CASE Free(t)
  BY <1>t, <1>i, <1>5 DEF TypeOK, Free, Goto, Use, Places, Owning, list, ends
<1>r. ASSUME Return(t)
      PROVE  /\ pc' \in [Threads -> Places] /\ idx' \in [Threads -> Cells]
             /\ next' \in [Threads -> Cells] /\ enqueues' \in [Threads -> BOOLEAN]
  BY <1>t, <1>i, <1>r DEF TypeOK, Return, Goto, Use, Places
<1>g. \A p \in Places : Goto(t, p) => pc' \in [Threads -> Places]
  BY <1>t DEF TypeOK, Goto
<1>p. Owning \subseteq Places /\ {"idle", "look", "pop", "dequeue", "claimHead", "spin"} \subseteq Places
  BY DEF Places
<1>6. CASE Link(t)
  BY <1>t, <1>6, <1>g, <1>p DEF TypeOK, Link, Owning, ends, outside
<1>10. CASE Push(t)
  <2>1. \/ Return(t) /\ unusedHead' = idx[t]
        \/ Goto(t, "link") /\ UNCHANGED <<unusedHead, idx, next, enqueues>>
    BY <1>10 DEF Push
  <2>2. UNCHANGED <<unused, storageHead, ends, outside>>
    BY <1>10 DEF Push
  <2>3. CASE Return(t) /\ unusedHead' = idx[t]
    BY <1>t, <1>r, <2>2, <2>3 DEF TypeOK, ends, outside
  <2>4. CASE Goto(t, "link") /\ UNCHANGED <<unusedHead, idx, next, enqueues>>
    BY <1>t, <1>g, <1>p, <2>2, <2>4 DEF TypeOK, ends, outside, Owning
  <2> QED BY <2>1, <2>3, <2>4
<1>7. CASE Construct(t)
  BY <1>t, <1>7, <1>g, <1>p DEF TypeOK, Construct, Owning, list, ends, outside
<1>11. CASE ClaimTail(t)
  BY <1>t, <1>11, <1>a, <1>g, <1>p DEF TypeOK, ClaimTail, Owning, list, outside
<1>12. CASE StoreIndex(t)
  <2>1. queue' \in [Cells -> Cells]
    BY <1>t, <1>12 DEF TypeOK, StoreIndex
  <2> QED BY <1>t, <1>12, <1>r, <2>1 DEF TypeOK, StoreIndex, list, outside
<1>8. CASE Throw(t)
  <2>1. idx[t] \in Indices
    BY <1>8, OwnIndex DEF Throw, At, Owning
  <2> QED BY <1>t, <1>i, <1>8, <2>1 DEF TypeOK, Throw, Goto, Use, Return, Places, list, ends
<1>9. CASE Dequeue(t)
  BY <1>t, <1>9, <1>g, <1>p DEF TypeOK, Dequeue, Use, list, ends, outside
<1>13. CASE LoadTail(t)
  BY <1>t, <1>13, <1>g, <1>r, <1>p DEF TypeOK, LoadTail, list, ends, outside
<1>14. CASE ClaimHead(t)
  BY <1>t, <1>a, <1>14, <1>g, <1>p DEF TypeOK, ClaimHead, Use, list, outside
<1>15. CASE Spin(t)
  BY <1>t, <1>15, <1>r DEF TypeOK, Spin, list, ends, outside
<1> QED BY <1>1, <1>2, <1>3, <1>4, <1>5, <1>6, <1>7, <1>8, <1>9, <1>10, <1>11, <1>12,
           <1>13, <1>14, <1>15 DEF Begin, Continue

-----------------------------------------------------------------------------
(* The head.                                                               *)

LEMMA DequeueSteps ==
  ASSUME Invariant, NEW t \in Threads,
         Dequeue(t) \/ LoadTail(t) \/ ClaimHead(t) \/ Spin(t)
  PROVE  Filling' /\ Taking'
<1>o. Others(t)
  BY StepBasics DEF Invariant, Begin, Continue
<1>t. /\ pc \in [Threads -> Places] /\ idx \in [Threads -> Cells]
      /\ tail \in Nat /\ head \in Nat /\ tail <= Size - 1
  BY SizeAssumption DEF Invariant, TypeOK, Cells
<1>c. \A c \in Cells : c \in Nat
  BY SizeAssumption DEF Cells
<1>1. Filling'
  <2>1. UNCHANGED <<queue, tail>>
    BY DEF Dequeue, LoadTail, ClaimHead, Spin, ends
  <2>2. pc[t] # "store" /\ pc'[t] # "store"
    BY <1>t DEF Dequeue, LoadTail, ClaimHead, Spin, At, Goto, Return
  <2> QED BY <1>o, <2>1, <2>2, FillingKept DEF Invariant
<1>k. Taking
  BY DEF Invariant
<1>2. CASE Dequeue(t)
  <2>1. idx'[t] = head /\ pc'[t] = "dequeue" /\ UNCHANGED <<tail, head>>
    BY <1>2, <1>t DEF Dequeue, Goto, Use, ends
  <2>2. Taking'
    BY <1>k, <1>o, <1>t, <2>1 DEF Taking, Others
  <2> QED BY <1>1, <2>2
<1>3. CASE LoadTail(t)
  <2>1. UNCHANGED <<tail, head>> /\ pc[t] = "dequeue"
    BY <1>3 DEF LoadTail, ends, At
  <2>2. CASE idx[t] = tail
    <3>1. pc'[t] = "idle"
      BY <1>3, <1>t, <2>2 DEF LoadTail, Return, Goto
    <3>2. Taking'
      BY <1>k, <1>o, <2>1, <3>1, TakingKept
    <3> QED BY <1>1, <3>2
  <2>3. CASE idx[t] # tail
    <3>1. pc'[t] = "claimHead" /\ idx' = idx
      BY <1>3, <1>t, <2>3 DEF LoadTail, Goto
    <3>2. idx[t] <= head /\ idx[t] \in Nat /\ head <= tail
      BY <1>k, <1>t, <1>c, <2>1 DEF Taking
    <3>3. idx[t] < tail
      BY <1>t, <2>3, <3>2
    <3>4. Taking'
      BY <1>k, <1>o, <2>1, <3>1, <3>2, <3>3 DEF Taking, Others
    <3> QED BY <1>1, <3>4
  <2> QED BY <2>2, <2>3
<1>4. CASE ClaimHead(t)
  <2>1. tail' = tail /\ pc[t] = "claimHead"
    BY <1>4 DEF ClaimHead, At
  <2>2. CASE head = idx[t] /\ head' = After(head) /\ Goto(t, "spin") /\ UNCHANGED idx
    <3>1. pc'[t] = "spin" /\ idx' = idx
      BY <1>t, <2>2 DEF Goto
    <3>2. head < tail
      BY <1>k, <2>1, <2>2 DEF Taking
    <3>3. head' = head + 1
      BY <1>t, <2>2, <3>2, SizeAssumption DEF After
    <3>4. \A u \in Threads : /\ idx[u] \in Nat
                             /\ pc[u] \in {"dequeue", "claimHead"} => idx[u] <= head
                             /\ pc[u] = "spin" => idx[u] < head
      BY <1>k, <1>t, <1>c DEF Taking
    <3>5. \A u \in Threads : /\ pc'[u] \in {"dequeue", "claimHead"} => idx'[u] <= head'
                             /\ pc'[u] = "claimHead" => idx'[u] < tail'
                             /\ pc'[u] = "spin" => idx'[u] < head'
      <4> SUFFICES ASSUME NEW u \in Threads
                   PROVE  /\ pc'[u] \in {"dequeue", "claimHead"} => idx'[u] <= head'
                          /\ pc'[u] = "claimHead" => idx'[u] < tail'
                          /\ pc'[u] = "spin" => idx'[u] < head'
        OBVIOUS
      <4>1. CASE u = t
        BY <1>t, <2>2, <3>1, <3>3, <4>1
      <4>2. CASE u # t
        BY <1>o, <1>t, <1>k, <2>1, <3>3, <3>4, <4>2 DEF Others, Taking
      <4> QED BY <4>1, <4>2
    <3>6. \A u \in Threads : u # t /\ pc'[u] = "spin" => idx'[u] # idx'[t]
      BY <1>o, <1>t, <2>2, <3>1, <3>4 DEF Others
    <3>7. \A u, v \in Threads : pc'[u] = "spin" /\ pc'[v] = "spin" /\ idx'[u] = idx'[v]
                                  => u = v
      BY <1>o, <1>k, <3>6 DEF Others, Taking
    <3>8. head' <= tail'
      BY <1>t, <2>1, <3>2, <3>3
    <3>9. Taking'
      BY <3>5, <3>7, <3>8 DEF Taking
    <3> QED BY <1>1, <3>9
  <2>3. CASE Use(t, head) /\ Goto(t, "dequeue") /\ UNCHANGED head
    <3>1. pc'[t] = "dequeue" /\ idx'[t] = head
      BY <1>t, <2>3 DEF Goto, Use
    <3>2. Taking'
      BY <1>k, <1>o, <1>t, <2>1, <2>3, <3>1 DEF Taking, Others
    <3> QED BY <1>1, <3>2
  <2> QED BY <1>4, <2>2, <2>3 DEF ClaimHead
<1>5. CASE Spin(t)
  <2>1. UNCHANGED <<tail, head>> /\ pc'[t] = "idle"
    BY <1>5, <1>t DEF Spin, ends, Return, Goto
  <2>2. Taking'
    BY <1>k, <1>o, <2>1, TakingKept
  <2> QED BY <1>1, <2>2
<1> QED BY <1>2, <1>3, <1>4, <1>5

-----------------------------------------------------------------------------
(* Indices that change hands.                                              *)

\* One index goes somewhere else, the others stay where they are.
LEMMA Relocated ==
  ASSUME NEW kind \in [Indices -> Kinds], NEW s, NEW n, Located(kind, s, n),
         NEW i \in Indices, NEW b \in Kinds, NEW r, NEW m, IsAt(b, i, r, m)',
         \A j \in Indices : \A a \in Kinds :
           j # i /\ IsAt(a, j, s, n) => IsAt(a, j, r, m)'
  PROVE  /\ [kind EXCEPT ![i] = b] \in [Indices -> Kinds]
         /\ Located([kind EXCEPT ![i] = b], r, m)'
<1> DEFINE new == [kind EXCEPT ![i] = b]
<1>1. /\ new \in [Indices -> Kinds] /\ new[i] = b
      /\ \A j \in Indices : j # i => new[j] = kind[j]
  OBVIOUS
<1> HIDE DEF new
<1>2. ASSUME NEW j \in Indices
      PROVE  IsAt(new[j], j, r, m)'
  <2>1. CASE j = i
    BY <1>1, <2>1
  <2>2. CASE j # i
    <3>1. new[j] = kind[j] /\ kind[j] \in Kinds
      BY <1>1, <2>2
    <3>2. IsAt(kind[j], j, s, n)
      BY DEF Located
    <3>3. IsAt(kind[j], j, r, m)'
      BY <2>2, <3>1, <3>2
    <3> QED BY <3>1, <3>3
  <2> QED BY <2>1, <2>2
<1>3. Located(new, r, m)'
  BY <1>2 DEF Located
<1> QED BY <1>1, <1>3 DEF new

\* Where a single thread allocates there are no two.
LEMMA AloneMeans ==
  ASSUME TypeOK, Alone, NEW t \in allocators, NEW u \in allocators
  PROVE  t = u
<1>1. IsFiniteSet(allocators)
  BY ThreadsAssumption, FS_Subset DEF TypeOK
<1>2. SUFFICES ASSUME t # u PROVE FALSE
  OBVIOUS
<1>3. IsFiniteSet({t}) /\ Cardinality({t}) = 1
  BY FS_Singleton
<1>4. Cardinality({t} \cup {u}) = 2
  BY <1>2, <1>3, FS_AddElement
<1>5. Cardinality({t} \cup {u}) <= Cardinality(allocators)
  <2>1. {t} \cup {u} \in SUBSET allocators
    OBVIOUS
  <2> QED BY <1>1, <2>1, FS_Subset
<1>6. Cardinality(allocators) \in Nat
  BY <1>1, FS_CardinalityType
<1> QED BY <1>4, <1>5, <1>6 DEF Alone

\* Who obtains an index has it alone.
LEMMA ObtainFacts ==
  ASSUME TypeOK, NEW t \in Threads, NEW i \in Indices, Obtain(t, i)
  PROVE  /\ \/ pc'[t] = "construct" /\ idx'[t] = i /\ held' = held
            \/ pc'[t] = "idle" /\ held' = held \cup {i}
         /\ UNCHANGED <<queue, tail, head, allocators, lost>>
BY DEF TypeOK, Obtain, Goto, Use, Return, ends

\* An index that nobody had, from the list or new, is its new owner's alone.
LEMMA ObtainOwned ==
  ASSUME TypeOK, NEW kind, NEW s, NEW n, Ownership(kind, s, n),
         NEW t \in Threads, pc[t] \in {"look", "pop"}, Others(t),
         NEW i \in Indices, Obtain(t, i), kind[i] \in {"list", "fresh"},
         storageHead' \in Nat, i < storageHead',
         \A j \in Indices : j # i => (j >= storageHead' <=> j >= storageHead),
         NEW r, NEW m \in Nat, List(r, m)', \A j, k \in 0 .. m : r[j] = r[k] => j = k,
         \A j \in Indices : (\E k \in 0 .. m - 1 : r[k] = j)
                              <=> j # i /\ \E k \in 0 .. n - 1 : s[k] = j,
         unused' = unused,
         \A u \in Threads : u # t /\ pc[u] \in {"look", "pop"} /\ idx[u] # 0 => idx[u] # i,
         ~Alone => m = 0
  PROVE  Owned'
<1>l. Located(kind, s, n) /\ Once(s, n) /\ Linked(kind, n) /\ kind \in [Indices -> Kinds]
  BY DEF Ownership
<1>f. /\ \/ pc'[t] = "construct" /\ idx'[t] = i /\ held' = held
         \/ pc'[t] = "idle" /\ held' = held \cup {i}
      /\ UNCHANGED <<queue, allocators, lost>>
  BY ObtainFacts
<1>n. /\ ~\E u \in Threads : Owns(u, i)
      /\ ~\E c \in Cells : queue[c] = i
      /\ i \notin held /\ i \notin lost
  BY <1>l DEF Located, IsAt
<1>c. \A j \in Indices : j \in Cells /\ j # 0
  BY SizeAssumption DEF Indices, Cells
<1>p. PICK b \in Kinds : b = IF pc'[t] = "construct" THEN "thread" ELSE "held"
  BY DEF Kinds
<1> DEFINE new == [kind EXCEPT ![i] = b]
<1>b. b \in Kinds /\ (b = "thread" <=> pc'[t] = "construct") /\ (b = "held" <=> pc'[t] # "construct")
      /\ b # "fresh" /\ b # "list" /\ b # "cell" /\ b # "lost"
  BY <1>p
<1>o. /\ \A u \in Threads : u # t => \A j \in Cells : Owns(u, j)' <=> Owns(u, j)
      /\ \A j \in Cells : ~Owns(t, j)
      /\ \A j \in Cells : Owns(t, j)' <=> pc'[t] = "construct" /\ j = i
  BY <1>f DEF Others, Owns, Owning
<1>1. new \in [Indices -> Kinds] /\ Located(new, r, m)'
  <2>1. ASSUME NEW j \in Indices, NEW a \in Kinds, j # i, IsAt(a, j, s, n)
        PROVE  IsAt(a, j, r, m)'
    <3>1. (\E u \in Threads : Owns(u, j)') <=> (\E u \in Threads : Owns(u, j))
      BY <1>c, <1>o, <2>1
    <3>2. j \in held' <=> j \in held
      BY <1>f, <2>1
    <3> QED BY <1>f, <2>1, <3>1, <3>2 DEF IsAt
  <2>2. IsAt(b, i, r, m)'
    <3>1. b = "fresh" <=> i >= storageHead'
      <4>1. i \in Nat
        BY SizeAssumption DEF Indices
      <4> QED BY <1>b, <4>1
    <3>2. b = "list" <=> \E k \in 0 .. m - 1 : r[k] = i
      BY <1>b
    <3>3. b = "thread" <=> \E u \in Threads : Owns(u, i)'
      BY <1>b, <1>o, <1>n, <1>c
    <3>4. /\ b = "cell" <=> \E c \in Cells : queue'[c] = i
          /\ b = "held" <=> i \in held'
          /\ b = "lost" <=> i \in lost'
      BY <1>b, <1>f, <1>n
    <3> QED BY <3>1, <3>2, <3>3, <3>4 DEF IsAt
  <2>3. Located(kind, s, n) /\ kind \in [Indices -> Kinds] /\ b \in Kinds
    BY <1>l, <1>b
  <2> HIDE DEF new
  <2>4. /\ [kind EXCEPT ![i] = b] \in [Indices -> Kinds]
        /\ Located([kind EXCEPT ![i] = b], r, m)'
    BY <2>1, <2>2, <2>3, Relocated
  <2> QED BY <2>4 DEF new
<1>2. Once(r, m)'
  <2>1. \A u, v \in Threads : \A j \in Cells : Owns(u, j)' /\ Owns(v, j)' => u = v
    BY <1>l, <1>o, <1>n DEF Once
  <2>2. \A u \in Threads : ~Owns(u, 0)'
    <3>1. 0 \in Cells
      BY SizeAssumption DEF Cells
    <3> QED BY <1>l, <1>o, <1>c, <3>1 DEF Once
  <2> QED BY <1>l, <1>f, <2>1, <2>2 DEF Once
<1>3. Linked(new, m)'
  <2>1. \A u \in Threads : u # t /\ pc[u] \in {"look", "pop"} /\ idx[u] # 0 =>
          new[idx[u]] = kind[idx[u]]
    <3> SUFFICES ASSUME NEW u \in Threads, u # t, pc[u] \in {"look", "pop"}, idx[u] # 0
                 PROVE  new[idx[u]] = kind[idx[u]]
      OBVIOUS
    <3>0. idx[u] \in Cells
      BY DEF TypeOK
    <3>1. idx[u] \in Indices /\ idx[u] # i
      BY <3>0, SizeAssumption DEF Cells, Indices
    <3> QED BY <1>l, <3>1
  <2>2. pc'[t] \notin {"look", "pop", "link", "push"}
    BY <1>f
  <2> HIDE DEF new
  <2>3. \A u \in Threads :
       /\ pc'[u] \in {"look", "pop"} => /\ u \in allocators
                                        /\ idx'[u] # 0 => new[idx'[u]] = "list"
       /\ pc'[u] = "pop" => idx'[u] # 0
       /\ pc'[u] \in {"pop", "push"} => next'[u] = unused'[idx'[u]]
       /\ pc'[u] \in {"link", "push"} => Alone
    <3> SUFFICES ASSUME NEW u \in Threads
                 PROVE
       /\ pc'[u] \in {"look", "pop"} => /\ u \in allocators
                                        /\ idx'[u] # 0 => new[idx'[u]] = "list"
       /\ pc'[u] = "pop" => idx'[u] # 0
       /\ pc'[u] \in {"pop", "push"} => next'[u] = unused'[idx'[u]]
       /\ pc'[u] \in {"link", "push"} => Alone
      OBVIOUS
    <3>1. CASE u = t
      BY <2>2, <3>1
    <3>2. CASE u # t
      BY <1>l, <2>1, <3>2 DEF Linked, Others
    <3> QED BY <3>1, <3>2
  <2> QED BY <1>f, <2>3 DEF Linked, Alone
<1>4. Ownership(new, r, m)'
  BY <1>1, <1>2, <1>3 DEF Ownership
<1> QED BY <1>4 DEF Owned

\* A thread gives its index up, to the list, a cell, or nobody.
LEMMA GivenUp ==
  ASSUME TypeOK, NEW kind, NEW s, NEW n, Ownership(kind, s, n),
         NEW t \in Threads, pc[t] \in Owning, pc'[t] = "idle", Others(t),
         NEW b \in Kinds, b \notin {"fresh", "thread", "held"},
         NEW r, NEW m \in Nat, List(r, m)',
         \A j, k \in 0 .. m : r[j] = r[k] => j = k,
         UNCHANGED <<unused, storageHead, held, allocators>>,
         \A j \in Indices : /\ (\E k \in 0 .. m - 1 : r[k] = j)
                                 <=> \/ \E k \in 0 .. n - 1 : s[k] = j
                                     \/ (j = idx[t] /\ b = "list")
                            /\ (\E c \in Cells : queue'[c] = j)
                                 <=> \/ \E c \in Cells : queue[c] = j
                                     \/ (j = idx[t] /\ b = "cell")
                            /\ j \in lost' <=> j \in lost \/ (j = idx[t] /\ b = "lost"),
         \A c, d \in Cells : queue'[c] = queue'[d] /\ queue'[c] # 0 => c = d,
         ~Alone => m = 0
  PROVE  Owned'
<1>l. Located(kind, s, n) /\ Once(s, n) /\ Linked(kind, n) /\ kind \in [Indices -> Kinds]
  BY DEF Ownership
<1>c. \A j \in Indices : j \in Cells /\ j # 0
  BY SizeAssumption DEF Indices, Cells
<1>i. PICK i \in Indices : idx[t] = i
  <2>1. idx[t] \in Cells /\ idx[t] # 0
    BY <1>l DEF TypeOK, Once, Owns
  <2> QED BY <2>1, SizeAssumption DEF Indices, Cells
<1>k. kind[i] = "thread"
  BY <1>l, <1>i DEF Located, IsAt, Owns
<1>n. /\ i < storageHead /\ i \notin held /\ i \notin lost
      /\ ~\E k \in 0 .. n - 1 : s[k] = i
      /\ ~\E c \in Cells : queue[c] = i
  <2>1. IsAt(kind[i], i, s, n)
    BY <1>l DEF Located
  <2>2. i \in Nat /\ storageHead \in Nat
    BY SizeAssumption DEF Indices, TypeOK
  <2> QED BY <1>k, <2>1, <2>2 DEF IsAt
<1>o. /\ \A u \in Threads : u # t => \A j \in Cells : Owns(u, j)' <=> Owns(u, j)
      /\ \A j \in Cells : ~Owns(t, j)'
      /\ \A j \in Cells : Owns(t, j) <=> j = i
  BY <1>i DEF Others, Owns, Owning
<1>u. \A u \in Threads : Owns(u, i) => u = t
  BY <1>l, <1>c, <1>o DEF Once
<1> DEFINE new == [kind EXCEPT ![i] = b]
<1>1. new \in [Indices -> Kinds] /\ Located(new, r, m)'
  <2>1. ASSUME NEW j \in Indices, NEW a \in Kinds, j # i, IsAt(a, j, s, n)
        PROVE  IsAt(a, j, r, m)'
    <3>1. (\E u \in Threads : Owns(u, j)') <=> (\E u \in Threads : Owns(u, j))
      BY <1>c, <1>o, <2>1
    <3>2. /\ (\E k \in 0 .. m - 1 : r[k] = j) <=> (\E k \in 0 .. n - 1 : s[k] = j)
          /\ (\E c \in Cells : queue'[c] = j) <=> (\E c \in Cells : queue[c] = j)
          /\ j \in lost' <=> j \in lost
      <4>1. j # idx[t]
        BY <1>i, <2>1
      <4> QED BY <4>1
    <3> QED BY <2>1, <3>1, <3>2 DEF IsAt
  <2>2. IsAt(b, i, r, m)'
    <3>1. ~\E u \in Threads : Owns(u, i)'
      BY <1>c, <1>o, <1>u
    <3>2. ~(i >= storageHead')
      <4>1. i \in Nat /\ storageHead \in Nat
        BY SizeAssumption DEF Indices, TypeOK
      <4> QED BY <1>n, <4>1
    <3>3. b \notin {"fresh", "thread", "held"}
      OBVIOUS
    <3>4. /\ b = "list" <=> \E k \in 0 .. m - 1 : r[k] = i
          /\ b = "cell" <=> \E c \in Cells : queue'[c] = i
          /\ b = "lost" <=> i \in lost'
          /\ i \notin held'
      BY <1>i, <1>n
    <3> QED BY <3>1, <3>2, <3>3, <3>4 DEF IsAt
  <2>3. /\ new \in [Indices -> Kinds] /\ new[i] = b
        /\ \A j \in Indices : j # i => new[j] = kind[j]
    BY <1>l
  <2> HIDE DEF new
  <2>4. ASSUME NEW j \in Indices
        PROVE  IsAt(new[j], j, r, m)'
    <3>1. CASE j = i
      BY <2>2, <2>3, <3>1
    <3>2. CASE j # i
      <4>1. new[j] = kind[j] /\ kind[j] \in Kinds
        BY <1>l, <2>3, <3>2
      <4>2. IsAt(kind[j], j, s, n)
        BY <1>l DEF Located
      <4>3. IsAt(kind[j], j, r, m)'
        BY <2>1, <3>2, <4>1, <4>2
      <4> QED BY <4>1, <4>3
    <3> QED BY <3>1, <3>2
  <2>5. Located(new, r, m)'
    BY <2>4 DEF Located
  <2> QED BY <2>3, <2>5
<1>2. Once(r, m)'
  <2>1. \A u, v \in Threads : \A j \in Cells : Owns(u, j)' /\ Owns(v, j)' => u = v
    BY <1>l, <1>o DEF Once
  <2>2. \A u \in Threads : ~Owns(u, 0)'
    <3>1. 0 \in Cells
      BY SizeAssumption DEF Cells
    <3> QED BY <1>l, <1>o, <3>1 DEF Once
  <2> QED BY <2>1, <2>2 DEF Once
<1>3. Linked(new, m)'
  <2>1. \A u \in Threads : u # t /\ pc[u] \in {"look", "pop"} /\ idx[u] # 0 =>
          new[idx[u]] = kind[idx[u]]
    <3> SUFFICES ASSUME NEW u \in Threads, u # t, pc[u] \in {"look", "pop"}, idx[u] # 0
                 PROVE  new[idx[u]] = kind[idx[u]]
      OBVIOUS
    <3>1. idx[u] \in Cells /\ kind[idx[u]] = "list"
      BY <1>l DEF TypeOK, Linked
    <3>2. idx[u] \in Indices /\ idx[u] # i
      BY <1>k, <3>1, SizeAssumption DEF Cells, Indices
    <3> QED BY <1>l, <3>2
  <2> HIDE DEF new
  <2>2. \A u \in Threads :
       /\ pc'[u] \in {"look", "pop"} => /\ u \in allocators
                                        /\ idx'[u] # 0 => new[idx'[u]] = "list"
       /\ pc'[u] = "pop" => idx'[u] # 0
       /\ pc'[u] \in {"pop", "push"} => next'[u] = unused'[idx'[u]]
       /\ pc'[u] \in {"link", "push"} => Alone
    <3> SUFFICES ASSUME NEW u \in Threads
                 PROVE
       /\ pc'[u] \in {"look", "pop"} => /\ u \in allocators
                                        /\ idx'[u] # 0 => new[idx'[u]] = "list"
       /\ pc'[u] = "pop" => idx'[u] # 0
       /\ pc'[u] \in {"pop", "push"} => next'[u] = unused'[idx'[u]]
       /\ pc'[u] \in {"link", "push"} => Alone
      OBVIOUS
    <3>1. CASE u = t
      BY <3>1
    <3>2. CASE u # t
      BY <1>l, <2>1, <3>2 DEF Linked, Others
    <3> QED BY <3>1, <3>2
  <2> QED BY <2>2 DEF Linked, Alone
<1>4. Ownership(new, r, m)'
  BY <1>1, <1>2, <1>3 DEF Ownership
<1> QED BY <1>4 DEF Owned

\* Pop takes the first of the list: while the thread looked, no other popped.
LEMMA PopOwned ==
  ASSUME Invariant, NEW t \in Threads, Pop(t)
  PROVE  Owned'
<1>1. PICK kind, s, n : Ownership(kind, s, n)
  BY DEF Invariant, Owned
<1>y. TypeOK
  BY DEF Invariant
<1>o. Others(t) /\ allocators' = allocators
  BY StepBasics DEF Invariant, Continue
<1>2. /\ pc[t] = "pop" /\ unusedHead = idx[t] /\ unusedHead' = next[t]
      /\ UNCHANGED <<unused, storageHead>> /\ Obtain(t, idx[t])
  BY DEF Pop, At
<1>i. PICK i \in Indices : idx[t] = i
  BY <1>2, OwnIndex
<1>l. Located(kind, s, n) /\ Once(s, n) /\ Linked(kind, n) /\ List(s, n) /\ n \in Nat
  BY <1>1 DEF Ownership
<1>3. kind[i] = "list" /\ t \in allocators /\ next[t] = unused[i]
  <2>1. i # 0
    BY DEF Indices
  <2> QED BY <1>2, <1>i, <1>l, <2>1 DEF Linked
<1>4. s[0] = i /\ s[n] = 0 /\ n > 0 /\ i # 0
  BY <1>2, <1>i, <1>l DEF List, Indices
<1>5. s[1] = unused[i] /\ n - 1 \in Nat
  <2>1. 0 \in 0 .. n - 1 /\ 0 + 1 = 1
    BY <1>l, <1>4
  <2> QED BY <1>l, <1>4, <2>1 DEF List
<1>6. Alone
  BY <1>l, <1>4 DEF Linked
<1> DEFINE r == [k \in 0 .. n - 1 |-> s[k + 1]]
<1>7. \A k \in 0 .. n - 1 : k + 1 \in 0 .. n /\ r[k] = s[k + 1]
  BY <1>l
<1>8. r \in [0 .. n - 1 -> Cells]
  BY <1>l, <1>7 DEF List
<1> HIDE DEF r
<1>9. List(r, n - 1)'
  <2>1. r[0] = unusedHead'
    <3>1. 0 \in 0 .. n - 1 /\ 0 + 1 = 1
      BY <1>5
    <3> QED BY <1>2, <1>3, <1>5, <1>7, <3>1
  <2>2. r[n - 1] = 0
    <3>1. n - 1 \in 0 .. n - 1 /\ (n - 1) + 1 = n
      BY <1>5, <1>l
    <3> QED BY <1>4, <1>7, <3>1
  <2>3. \A k \in 0 .. (n - 1) - 1 : r[k] # 0 /\ r[k + 1] = unused[r[k]]
    <3> SUFFICES ASSUME NEW k \in 0 .. (n - 1) - 1
                 PROVE  r[k] # 0 /\ r[k + 1] = unused[r[k]]
      OBVIOUS
    <3>1. k \in 0 .. n - 1 /\ k + 1 \in 0 .. n - 1
      BY <1>5
    <3>2. r[k] = s[k + 1] /\ r[k + 1] = s[(k + 1) + 1]
      BY <1>7, <3>1
    <3> QED BY <1>l, <3>1, <3>2 DEF List
  <2> QED BY <1>2, <1>8, <2>1, <2>2, <2>3 DEF List
<1>10. \A j, k \in 0 .. n - 1 : r[j] = r[k] => j = k
  <2> SUFFICES ASSUME NEW j \in 0 .. n - 1, NEW k \in 0 .. n - 1, r[j] = r[k]
               PROVE  j = k
    OBVIOUS
  <2>1. s[j + 1] = s[k + 1] /\ j + 1 \in 0 .. n /\ k + 1 \in 0 .. n
    BY <1>7
  <2>2. j + 1 = k + 1
    BY <1>l, <2>1 DEF Once
  <2> QED BY <1>l, <2>2
<1>11. \A j \in Indices : (\E k \in 0 .. (n - 1) - 1 : r[k] = j)
                            <=> j # i /\ \E k \in 0 .. n - 1 : s[k] = j
  <2> SUFFICES ASSUME NEW j \in Indices
               PROVE  (\E k \in 0 .. (n - 1) - 1 : r[k] = j)
                        <=> j # i /\ \E k \in 0 .. n - 1 : s[k] = j
    OBVIOUS
  <2>1. ASSUME NEW k \in 0 .. (n - 1) - 1, r[k] = j
        PROVE  j # i /\ \E h \in 0 .. n - 1 : s[h] = j
    <3>1. k \in 0 .. n - 1 /\ k + 1 \in 0 .. n - 1 /\ 0 \in 0 .. n /\ k + 1 \in 0 .. n
          /\ k + 1 # 0
      BY <1>5, <1>l
    <3>2. s[k + 1] = j
      BY <1>7, <2>1, <3>1
    <3>3. j # i
      BY <1>l, <1>4, <3>1, <3>2 DEF Once
    <3> QED BY <3>1, <3>2, <3>3
  <2>2. ASSUME j # i, NEW k \in 0 .. n - 1, s[k] = j
        PROVE  \E h \in 0 .. (n - 1) - 1 : r[h] = j
    <3>1. k # 0
      BY <1>4, <2>2
    <3>2. k - 1 \in 0 .. (n - 1) - 1 /\ k - 1 \in 0 .. n - 1 /\ (k - 1) + 1 = k
      BY <1>5, <3>1
    <3>3. r[k - 1] = j
      BY <1>7, <2>2, <3>2
    <3> QED BY <3>2, <3>3
  <2> QED BY <2>1, <2>2
<1>12. \A u \in Threads : u # t /\ pc[u] \in {"look", "pop"} /\ idx[u] # 0 => idx[u] # i
  <2>1. \A u \in Threads : pc[u] \in {"look", "pop"} => u = t
    BY <1>y, <1>l, <1>3, <1>6, AloneMeans DEF Linked
  <2> QED BY <2>1
<1>13. i < storageHead' /\ storageHead' \in Nat
  <2>1. storageHead \in Nat /\ i \in Nat
    BY <1>y, SizeAssumption DEF TypeOK, Indices
  <2>2. ~(i >= storageHead)
    BY <1>l, <1>3 DEF Located, IsAt
  <2> QED BY <1>2, <2>1, <2>2
<1> QED BY <1>y, <1>1, <1>2, <1>i, <1>o, <1>3, <1>5, <1>6, <1>9, <1>10, <1>11, <1>12,
           <1>13, ObtainOwned

\* Bump takes an index nobody had yet.
LEMMA BumpOwned ==
  ASSUME Invariant, NEW t \in Threads, Bump(t)
  PROVE  Owned'
<1>1. PICK kind, s, n : Ownership(kind, s, n)
  BY DEF Invariant, Owned
<1>y. TypeOK
  BY DEF Invariant
<1>o. Others(t) /\ allocators' = allocators
  BY StepBasics DEF Invariant, Continue
<1>2. /\ pc[t] = "look" /\ storageHead < Size /\ storageHead' = storageHead + 1
      /\ UNCHANGED <<unused, unusedHead>> /\ Obtain(t, storageHead)
  BY DEF Bump, At
<1>3. storageHead \in Nat /\ storageHead \in Indices
  BY <1>y, <1>2, SizeAssumption DEF TypeOK, Indices
<1>i. PICK i \in Indices : storageHead = i
  BY <1>3
<1>l. Located(kind, s, n) /\ Once(s, n) /\ Linked(kind, n) /\ List(s, n) /\ n \in Nat
  BY <1>1 DEF Ownership
<1>4. IsAt(kind[i], i, s, n) /\ i >= storageHead
  BY <1>i, <1>l, <1>3 DEF Located
<1>5. kind[i] = "fresh"
  BY <1>4 DEF IsAt
<1>6. \A u \in Threads : pc[u] \in {"look", "pop"} /\ idx[u] # 0 => idx[u] # i
  <2> SUFFICES ASSUME NEW u \in Threads, pc[u] \in {"look", "pop"}, idx[u] # 0, idx[u] = i
               PROVE  FALSE
    OBVIOUS
  <2>1. kind[idx[u]] = "list"
    BY <1>l DEF Linked
  <2> QED BY <1>5, <2>1
<1>7. \A j \in Indices : j # i => (j >= storageHead' <=> j >= storageHead)
  <2>1. \A j \in Indices : j \in Nat
    BY SizeAssumption DEF Indices
  <2> QED BY <1>2, <1>3, <1>i, <2>1
<1>8. List(s, n)'
  BY <1>2, <1>l DEF List
<1>9. \A j \in Indices : (\E k \in 0 .. n - 1 : s[k] = j)
                           <=> j # i /\ \E k \in 0 .. n - 1 : s[k] = j
  BY <1>4, <1>5 DEF IsAt
<1>10. \A j, k \in 0 .. n : s[j] = s[k] => j = k
  BY <1>l DEF Once
<1>11. /\ storageHead' \in Nat /\ i < storageHead' /\ unused' = unused
       /\ Obtain(t, i) /\ kind[i] \in {"list", "fresh"} /\ pc[t] \in {"look", "pop"}
  BY <1>2, <1>3, <1>i, <1>5
<1>12. ~Alone => n = 0
  BY <1>l DEF Linked
<1> QED BY <1>y, <1>1, <1>o, <1>l, <1>6, <1>7, <1>8, <1>9, <1>10, <1>11, <1>12, ObtainOwned

\* free takes an index from the caller, and has it from then on.
LEMMA FreeOwned ==
  ASSUME Invariant, NEW t \in Threads, Free(t)
  PROVE  Owned'
<1>1. PICK kind, s, n : Ownership(kind, s, n)
  BY DEF Invariant, Owned
<1>y. TypeOK
  BY DEF Invariant
<1>o. Others(t) /\ allocators' = allocators
  BY StepBasics DEF Invariant, Begin
<1>2. PICK i \in held : Use(t, i) /\ held' = held \ {i}
  BY DEF Free
<1>3. /\ pc[t] = "idle" /\ pc'[t] = "link" /\ idx'[t] = i /\ Alone
      /\ UNCHANGED <<unused, unusedHead, storageHead, queue, lost>>
  <2>1. Alone
    BY DEF Invariant, FreeingAlone, Free
  <2> QED BY <1>y, <1>2, <2>1 DEF TypeOK, Free, At, Goto, Use, list, ends
<1>i. i \in Indices
  BY <1>y DEF TypeOK
<1>l. /\ Located(kind, s, n) /\ Once(s, n) /\ Linked(kind, n) /\ List(s, n) /\ n \in Nat
      /\ kind \in [Indices -> Kinds]
  BY <1>1 DEF Ownership
<1>c. \A j \in Indices : j \in Cells /\ j # 0
  BY SizeAssumption DEF Indices, Cells
<1>4. IsAt(kind[i], i, s, n)
  BY <1>i, <1>l DEF Located
<1>5. kind[i] = "held"
  BY <1>4 DEF IsAt
<1>6. /\ ~(i >= storageHead) /\ ~\E k \in 0 .. n - 1 : s[k] = i
      /\ ~\E u \in Threads : Owns(u, i)
      /\ ~\E c \in Cells : queue[c] = i
      /\ i \notin lost
  BY <1>4, <1>5 DEF IsAt
<1>p. /\ \A u \in Threads : u # t => \A j \in Cells : Owns(u, j)' <=> Owns(u, j)
      /\ \A j \in Cells : ~Owns(t, j)
      /\ \A j \in Cells : Owns(t, j)' <=> j = i
  BY <1>o, <1>3 DEF Others, Owns, Owning
<1> DEFINE new == [kind EXCEPT ![i] = "thread"]
<1>n. /\ new \in [Indices -> Kinds] /\ new[i] = "thread"
      /\ \A j \in Indices : j # i => new[j] = kind[j]
  BY <1>l, <1>i DEF Kinds
<1> HIDE DEF new
<1>7. Located(new, s, n)'
  <2>1. ASSUME NEW j \in Indices
        PROVE  IsAt(new[j], j, s, n)'
    <3>1. CASE j = i
      <4>1. \E u \in Threads : Owns(u, i)'
        BY <1>p, <1>i, <1>c
      <4>2. i \notin held'
        BY <1>2
      <4> QED BY <1>n, <1>3, <1>6, <3>1, <4>1, <4>2 DEF IsAt
    <3>2. CASE j # i
      <4>1. new[j] = kind[j] /\ IsAt(kind[j], j, s, n)
        BY <1>n, <1>l, <3>2 DEF Located
      <4>2. (\E u \in Threads : Owns(u, j)') <=> (\E u \in Threads : Owns(u, j))
        BY <1>p, <1>c, <3>2
      <4>3. j \in held' <=> j \in held
        BY <1>2, <3>2
      <4> QED BY <1>3, <4>1, <4>2, <4>3 DEF IsAt
    <3> QED BY <3>1, <3>2
  <2> QED BY <2>1 DEF Located
<1>8. Once(s, n)'
  <2>1. \A u, v \in Threads : \A j \in Cells : Owns(u, j)' /\ Owns(v, j)' => u = v
    BY <1>l, <1>p, <1>6, <1>c, <1>i DEF Once
  <2>2. \A u \in Threads : ~Owns(u, 0)'
    <3>1. 0 \in Cells /\ i # 0
      BY <1>i, <1>c, SizeAssumption DEF Cells
    <3> QED BY <1>l, <1>p, <3>1 DEF Once
  <2> QED BY <1>l, <1>3, <2>1, <2>2 DEF Once
<1>9. Linked(new, n)'
  <2>1. \A u \in Threads : u # t /\ pc[u] \in {"look", "pop"} /\ idx[u] # 0 =>
          new[idx[u]] = kind[idx[u]]
    <3> SUFFICES ASSUME NEW u \in Threads, u # t, pc[u] \in {"look", "pop"}, idx[u] # 0
                 PROVE  new[idx[u]] = kind[idx[u]]
      OBVIOUS
    <3>1. idx[u] \in Cells /\ kind[idx[u]] = "list"
      BY <1>y, <1>l DEF TypeOK, Linked
    <3>2. idx[u] \in Indices /\ idx[u] # i
      BY <1>5, <3>1, SizeAssumption DEF Cells, Indices
    <3> QED BY <1>n, <3>2
  <2>2. \A u \in Threads :
       /\ pc'[u] \in {"look", "pop"} => /\ u \in allocators
                                        /\ idx'[u] # 0 => new[idx'[u]] = "list"
       /\ pc'[u] = "pop" => idx'[u] # 0
       /\ pc'[u] \in {"pop", "push"} => next'[u] = unused[idx'[u]]
       /\ pc'[u] \in {"link", "push"} => Alone
    <3> SUFFICES ASSUME NEW u \in Threads
                 PROVE
       /\ pc'[u] \in {"look", "pop"} => /\ u \in allocators
                                        /\ idx'[u] # 0 => new[idx'[u]] = "list"
       /\ pc'[u] = "pop" => idx'[u] # 0
       /\ pc'[u] \in {"pop", "push"} => next'[u] = unused[idx'[u]]
       /\ pc'[u] \in {"link", "push"} => Alone
      OBVIOUS
    <3>1. CASE u = t
      BY <1>3, <3>1
    <3>2. CASE u # t
      BY <1>l, <1>o, <2>1, <3>2 DEF Linked, Others
    <3> QED BY <3>1, <3>2
  <2>3. ~Alone' => n = 0
    BY <1>o, <1>3 DEF Alone
  <2> QED BY <1>o, <1>3, <2>2, <2>3 DEF Linked, Alone
<1>10. List(s, n)'
  BY <1>l, <1>3 DEF List
<1>11. Ownership(new, s, n)'
  BY <1>n, <1>l, <1>7, <1>8, <1>9, <1>10 DEF Ownership
<1> QED BY <1>11 DEF Owned

\* Link writes behind an index that is in nobody's list.
LEMMA LinkOwned ==
  ASSUME Invariant, NEW t \in Threads, Link(t)
  PROVE  Owned'
<1>1. PICK kind, s, n : Ownership(kind, s, n)
  BY DEF Invariant, Owned
<1>y. TypeOK
  BY DEF Invariant
<1>o. Others(t) /\ allocators' = allocators
  BY StepBasics DEF Invariant, Continue
<1>2. /\ pc[t] = "link" /\ pc'[t] = "push" /\ idx' = idx /\ next'[t] = unusedHead
      /\ UNCHANGED <<unusedHead, storageHead, queue, held, lost>>
  BY <1>y DEF TypeOK, Link, At, Goto, ends, outside
<1>i. PICK i \in Indices : idx[t] = i
  BY <1>2, OwnIndex DEF Owning
<1>c. \A j \in Indices : j \in Cells /\ j # 0
  BY SizeAssumption DEF Indices, Cells
<1>3. /\ unused'[i] = unusedHead
      /\ \A c \in Cells : c # i => unused'[c] = unused[c]
  <2>1. unused' = [unused EXCEPT ![i] = unusedHead]
    BY <1>i DEF Link
  <2> QED BY <1>y, <1>c, <2>1 DEF TypeOK
<1>l. /\ Located(kind, s, n) /\ Once(s, n) /\ Linked(kind, n) /\ List(s, n) /\ n \in Nat
      /\ kind \in [Indices -> Kinds]
  BY <1>1 DEF Ownership
<1>4. Owns(t, i) /\ kind[i] = "thread"
  <2>1. Owns(t, i)
    BY <1>2, <1>i DEF Owns, Owning
  <2> QED BY <1>l, <2>1 DEF Located, IsAt
<1>5. \A k \in 0 .. n - 1 : s[k] \in Cells /\ s[k] # i
  <2> SUFFICES ASSUME NEW k \in 0 .. n - 1
               PROVE  s[k] \in Cells /\ s[k] # i
    OBVIOUS
  <2>1. s[k] \in Cells
    BY <1>l DEF List
  <2>2. ~\E h \in 0 .. n - 1 : s[h] = i
    BY <1>l, <1>4 DEF Located, IsAt
  <2> QED BY <2>1, <2>2
<1>6. List(s, n)'
  BY <1>2, <1>3, <1>5, <1>l DEF List
<1>7. \A u \in Threads : \A j \in Cells : Owns(u, j)' <=> Owns(u, j)
  BY <1>o, <1>2 DEF Owns, Others, Owning
<1>8. Located(kind, s, n)'
  <2> SUFFICES ASSUME NEW j \in Indices
               PROVE  IsAt(kind[j], j, s, n)'
    BY DEF Located
  <2>1. IsAt(kind[j], j, s, n)
    BY <1>l DEF Located
  <2> QED BY <1>2, <1>7, <1>c, <2>1 DEF IsAt
<1>9. Once(s, n)'
  <2>1. 0 \in Cells
    BY SizeAssumption DEF Cells
  <2> QED BY <1>l, <1>2, <1>7, <2>1 DEF Once
<1>10. Linked(kind, n)'
  <2>1. ASSUME NEW u \in Threads, u # t, pc[u] \in {"pop", "push"}
        PROVE  next[u] = unused'[idx[u]]
    <3>1. idx[u] \in Cells
      BY <1>y DEF TypeOK
    <3>2. CASE pc[u] = "pop"
      <4>1. kind[idx[u]] = "list"
        BY <1>l, <3>2 DEF Linked
      <4>2. idx[u] # i
        BY <1>4, <4>1
      <4> QED BY <1>l, <1>3, <2>1, <3>1, <4>2 DEF Linked
    <3>3. CASE pc[u] = "push"
      <4>1. Owns(u, idx[u])
        BY <3>3 DEF Owns, Owning
      <4>2. idx[u] # i
        BY <1>l, <1>4, <2>1, <3>1, <4>1 DEF Once
      <4> QED BY <1>l, <1>3, <2>1, <3>1, <4>2 DEF Linked
    <3> QED BY <2>1, <3>2, <3>3
  <2>2. \A u \in Threads :
       /\ pc'[u] \in {"look", "pop"} => /\ u \in allocators
                                        /\ idx'[u] # 0 => kind[idx'[u]] = "list"
       /\ pc'[u] = "pop" => idx'[u] # 0
       /\ pc'[u] \in {"pop", "push"} => next'[u] = unused'[idx'[u]]
       /\ pc'[u] \in {"link", "push"} => Alone
    <3> SUFFICES ASSUME NEW u \in Threads
                 PROVE
       /\ pc'[u] \in {"look", "pop"} => /\ u \in allocators
                                        /\ idx'[u] # 0 => kind[idx'[u]] = "list"
       /\ pc'[u] = "pop" => idx'[u] # 0
       /\ pc'[u] \in {"pop", "push"} => next'[u] = unused'[idx'[u]]
       /\ pc'[u] \in {"link", "push"} => Alone
      OBVIOUS
    <3>1. CASE u = t
      <4>1. Alone
        BY <1>l, <1>2 DEF Linked
      <4> QED BY <1>2, <1>3, <1>i, <3>1, <4>1
    <3>2. CASE u # t
      <4>1. pc'[u] = pc[u] /\ idx'[u] = idx[u] /\ next'[u] = next[u]
        BY <1>o, <3>2 DEF Others
      <4>2. pc[u] \in {"pop", "push"} => next[u] = unused'[idx[u]]
        BY <2>1, <3>2
      <4> QED BY <1>l, <4>1, <4>2 DEF Linked
    <3> QED BY <3>1, <3>2
  <2> QED BY <1>l, <1>o, <2>2 DEF Linked, Alone
<1>11. Ownership(kind, s, n)'
  BY <1>l, <1>6, <1>8, <1>9, <1>10 DEF Ownership
<1> QED BY <1>11 DEF Owned

\* A constructor that throws: the index is nobody's.
LEMMA ThrowOwned ==
  ASSUME Invariant, NEW t \in Threads, Throw(t)
  PROVE  Owned'
<1>1. PICK kind, s, n : Ownership(kind, s, n)
  BY DEF Invariant, Owned
<1>y. TypeOK
  BY DEF Invariant
<1>o. Others(t) /\ allocators' = allocators
  BY StepBasics DEF Invariant, Continue
<1>2. /\ pc[t] \in Owning /\ pc'[t] = "idle" /\ lost' = lost \cup {idx[t]}
      /\ UNCHANGED <<unused, unusedHead, storageHead, queue, held, allocators>>
  BY <1>y DEF TypeOK, Throw, At, Goto, Return, ends, list, Owning
<1>l. Once(s, n) /\ Linked(kind, n) /\ List(s, n) /\ n \in Nat
  BY <1>1 DEF Ownership
<1>3. List(s, n)' /\ \A j, k \in 0 .. n : s[j] = s[k] => j = k
  BY <1>l, <1>2 DEF List, Once
<1>4. /\ \A c, d \in Cells : queue'[c] = queue'[d] /\ queue'[c] # 0 => c = d
      /\ ~Alone => n = 0
  BY <1>l, <1>2 DEF Linked, Once
<1>p. PICK b \in Kinds : b = "lost"
  BY DEF Kinds
<1>5. \A j \in Indices : /\ (\E k \in 0 .. n - 1 : s[k] = j)
                              <=> \/ \E k \in 0 .. n - 1 : s[k] = j
                                  \/ (j = idx[t] /\ b = "list")
                         /\ (\E c \in Cells : queue'[c] = j)
                              <=> \/ \E c \in Cells : queue[c] = j
                                  \/ (j = idx[t] /\ b = "cell")
                         /\ j \in lost' <=> j \in lost \/ (j = idx[t] /\ b = "lost")
  BY <1>2, <1>p
<1> QED BY <1>y, <1>1, <1>o, <1>2, <1>l, <1>p, <1>3, <1>4, <1>5, GivenUp

\* Enqueue leaves the index in its cell, which was empty.
LEMMA StoreOwned ==
  ASSUME Invariant, NEW t \in Threads, StoreIndex(t)
  PROVE  Owned'
<1>1. PICK kind, s, n : Ownership(kind, s, n)
  BY DEF Invariant, Owned
<1>y. TypeOK
  BY DEF Invariant
<1>o. Others(t) /\ allocators' = allocators
  BY StepBasics DEF Invariant, Continue
<1>2. /\ pc[t] = "store" /\ pc[t] \in Owning /\ pc'[t] = "idle"
      /\ UNCHANGED <<unused, unusedHead, storageHead, held, lost, allocators>>
  BY <1>y DEF TypeOK, StoreIndex, At, Goto, Return, outside, list, Owning
<1>i. PICK i \in Indices : idx[t] = i
  BY <1>2, OwnIndex
<1>f. PICK f \in Cells : next[t] = f
  BY <1>y DEF TypeOK
<1>l. Located(kind, s, n) /\ Once(s, n) /\ Linked(kind, n) /\ List(s, n) /\ n \in Nat
  BY <1>1 DEF Ownership
<1>q. /\ queue'[f] = i
      /\ \A c \in Cells : c # f => queue'[c] = queue[c]
  BY <1>y, <1>i, <1>f DEF TypeOK, StoreIndex
<1>e. queue[f] = 0
  BY <1>2, <1>f DEF Invariant, Filling, Stores
<1>n. ~\E c \in Cells : queue[c] = i
  <2>1. Owns(t, i)
    BY <1>2, <1>i DEF Owns
  <2> QED BY <1>l, <2>1 DEF Located, IsAt
<1>3. List(s, n)' /\ \A j, k \in 0 .. n : s[j] = s[k] => j = k
  BY <1>l, <1>2 DEF List, Once
<1>4. \A c, d \in Cells : queue'[c] = queue'[d] /\ queue'[c] # 0 => c = d
  BY <1>l, <1>q, <1>n DEF Once
<1>p. PICK b \in Kinds : b = "cell"
  BY DEF Kinds
<1>5. \A j \in Indices : /\ (\E k \in 0 .. n - 1 : s[k] = j)
                              <=> \/ \E k \in 0 .. n - 1 : s[k] = j
                                  \/ (j = idx[t] /\ b = "list")
                         /\ (\E c \in Cells : queue'[c] = j)
                              <=> \/ \E c \in Cells : queue[c] = j
                                  \/ (j = idx[t] /\ b = "cell")
                         /\ j \in lost' <=> j \in lost \/ (j = idx[t] /\ b = "lost")
  <2>1. \A j \in Indices : (\E c \in Cells : queue'[c] = j)
                              <=> (\E c \in Cells : queue[c] = j) \/ j = i
    <3>1. \A j \in Indices : j # 0
      BY DEF Indices
    <3> QED BY <1>q, <1>e, <3>1
  <2> QED BY <1>2, <1>i, <1>p, <2>1
<1>6. ~Alone => n = 0
  BY <1>l DEF Linked
<1> QED BY <1>y, <1>1, <1>o, <1>2, <1>l, <1>p, <1>3, <1>4, <1>5, <1>6, GivenUp

\* A push that fails goes back to the link; one that succeeds puts the index
\* before the list, whose head is what was linked behind it.
LEMMA PushOwned ==
  ASSUME Invariant, NEW t \in Threads, Push(t)
  PROVE  Owned'
<1>1. PICK kind, s, n : Ownership(kind, s, n)
  BY DEF Invariant, Owned
<1>y. TypeOK
  BY DEF Invariant
<1>o. Others(t) /\ allocators' = allocators
  BY StepBasics DEF Invariant, Continue
<1>2. /\ pc[t] = "push" /\ pc[t] \in Owning
      /\ UNCHANGED <<unused, storageHead, queue, held, lost, allocators>>
  BY DEF Push, At, ends, outside, Owning
<1>l. Located(kind, s, n) /\ Once(s, n) /\ Linked(kind, n) /\ List(s, n) /\ n \in Nat
  BY <1>1 DEF Ownership
<1>a. Alone /\ next[t] = unused[idx[t]]
  BY <1>l, <1>2 DEF Linked
<1>3. CASE Goto(t, "link") /\ UNCHANGED <<unusedHead, idx, next, enqueues>>
  <2>1. pc'[t] = "link" /\ idx'[t] = idx[t]
    BY <1>y, <1>3 DEF TypeOK, Goto
  <2>2. UNCHANGED <<list, queue, held, lost, allocators>>
    BY <1>2, <1>3 DEF list
  <2>3. Ownership(kind, s, n)'
    BY <1>1, <1>o, <1>2, <1>a, <2>1, <2>2, OwnershipKept DEF Owning
  <2> QED BY <2>3 DEF Owned
<1>4. CASE unusedHead = next[t] /\ unusedHead' = idx[t] /\ Return(t)
  <2>i. PICK i \in Indices : idx[t] = i
    BY <1>2, OwnIndex
  <2>0. pc'[t] = "idle" /\ i \in Cells /\ i # 0
    BY <1>y, <1>4, SizeAssumption DEF TypeOK, Return, Goto, Indices, Cells
  <2>n. \A k \in 0 .. n - 1 : s[k] # i
    <3>1. Owns(t, i)
      BY <1>2, <2>i DEF Owns
    <3> QED BY <1>l, <3>1 DEF Located, IsAt
  <2>z. s[n] = 0 /\ s[0] = unusedHead /\ s \in [0 .. n -> Cells]
    BY <1>l DEF List
  <2>s. \A k \in 0 .. n : s[k] \in Cells /\ s[k] # i
    <3> SUFFICES ASSUME NEW k \in 0 .. n
                 PROVE  s[k] \in Cells /\ s[k] # i
      OBVIOUS
    <3>1. k = n \/ k \in 0 .. n - 1
      BY <1>l
    <3> QED BY <2>0, <2>n, <2>z, <3>1
  <2> DEFINE r == [k \in 0 .. n + 1 |-> IF k = 0 THEN i ELSE s[k - 1]]
  <2>1. /\ r[0] = i
        /\ \A k \in 1 .. n + 1 : k - 1 \in 0 .. n /\ r[k] = s[k - 1]
    BY <1>l
  <2>2. r \in [0 .. n + 1 -> Cells]
    <3>1. \A k \in 0 .. n + 1 : k # 0 => k - 1 \in 0 .. n
      BY <1>l
    <3> QED BY <2>0, <2>s, <3>1
  <2> HIDE DEF r
  <2>3. List(r, n + 1)'
    <3>1. r[n + 1] = 0
      <4>1. n + 1 \in 1 .. n + 1 /\ (n + 1) - 1 = n
        BY <1>l
      <4> QED BY <2>1, <2>z, <4>1
    <3>2. \A k \in 0 .. (n + 1) - 1 : r[k] # 0 /\ r[k + 1] = unused[r[k]]
      <4> SUFFICES ASSUME NEW k \in 0 .. (n + 1) - 1
                   PROVE  r[k] # 0 /\ r[k + 1] = unused[r[k]]
        OBVIOUS
      <4>1. CASE k = 0
        <5>1. 1 \in 1 .. n + 1 /\ 1 - 1 = 0 /\ k + 1 = 1
          BY <1>l, <4>1
        <5>2. r[k + 1] = unusedHead /\ r[k] = i
          BY <2>1, <2>z, <4>1, <5>1
        <5> QED BY <1>4, <1>a, <2>0, <2>i, <5>2
      <4>2. CASE k # 0
        <5>1. /\ k \in 1 .. n + 1 /\ k + 1 \in 1 .. n + 1 /\ (k + 1) - 1 = k
              /\ k - 1 \in 0 .. n - 1 /\ (k - 1) + 1 = k
          BY <1>l, <4>2
        <5>2. r[k] = s[k - 1] /\ r[k + 1] = s[k]
          BY <2>1, <5>1
        <5>3. s[k - 1] # 0 /\ s[(k - 1) + 1] = unused[s[k - 1]]
          BY <1>l, <5>1 DEF List
        <5> QED BY <5>1, <5>2, <5>3
      <4> QED BY <4>1, <4>2
    <3> QED BY <1>2, <1>4, <2>1, <2>2, <2>i, <3>1, <3>2 DEF List
  <2>4. \A j, k \in 0 .. n + 1 : r[j] = r[k] => j = k
    <3> SUFFICES ASSUME NEW j \in 0 .. n + 1, NEW k \in 0 .. n + 1, r[j] = r[k]
                 PROVE  j = k
      OBVIOUS
    <3>1. \A h \in 0 .. n + 1 : h = 0 \/ h \in 1 .. n + 1
      BY <1>l
    <3>2. \A h \in 1 .. n + 1 : r[h] # i
      BY <2>1, <2>s
    <3>3. CASE j = 0 \/ k = 0
      BY <2>1, <3>1, <3>2, <3>3
    <3>4. CASE j \in 1 .. n + 1 /\ k \in 1 .. n + 1
      <4>1. s[j - 1] = s[k - 1] /\ j - 1 \in 0 .. n /\ k - 1 \in 0 .. n
        BY <2>1, <3>4
      <4>2. j - 1 = k - 1
        BY <1>l, <4>1 DEF Once
      <4> QED BY <4>2
    <3> QED BY <3>1, <3>3, <3>4
  <2>5. \A j \in Indices : (\E k \in 0 .. (n + 1) - 1 : r[k] = j)
                             <=> (\E k \in 0 .. n - 1 : s[k] = j) \/ j = i
    <3> SUFFICES ASSUME NEW j \in Indices
                 PROVE  (\E k \in 0 .. (n + 1) - 1 : r[k] = j)
                             <=> (\E k \in 0 .. n - 1 : s[k] = j) \/ j = i
      OBVIOUS
    <3>1. ASSUME NEW k \in 0 .. (n + 1) - 1, r[k] = j, j # i
          PROVE  \E h \in 0 .. n - 1 : s[h] = j
      <4>1. k # 0
        BY <2>1, <3>1
      <4>2. k \in 1 .. n + 1 /\ k - 1 \in 0 .. n - 1
        BY <1>l, <4>1
      <4> QED BY <2>1, <3>1, <4>2
    <3>2. ASSUME NEW k \in 0 .. n - 1, s[k] = j
          PROVE  \E h \in 0 .. (n + 1) - 1 : r[h] = j
      <4>1. k + 1 \in 1 .. n + 1 /\ k + 1 \in 0 .. (n + 1) - 1 /\ (k + 1) - 1 = k
        BY <1>l
      <4>2. r[k + 1] = j
        BY <2>1, <3>2, <4>1
      <4> QED BY <4>1, <4>2
    <3>3. 0 \in 0 .. (n + 1) - 1
      BY <1>l
    <3> QED BY <2>1, <3>1, <3>2, <3>3
  <2>p. PICK b \in Kinds : b = "list"
    BY DEF Kinds
  <2>6. \A j \in Indices : /\ (\E k \in 0 .. (n + 1) - 1 : r[k] = j)
                                <=> \/ \E k \in 0 .. n - 1 : s[k] = j
                                    \/ (j = idx[t] /\ b = "list")
                           /\ (\E c \in Cells : queue'[c] = j)
                                <=> \/ \E c \in Cells : queue[c] = j
                                    \/ (j = idx[t] /\ b = "cell")
                           /\ j \in lost' <=> j \in lost \/ (j = idx[t] /\ b = "lost")
    BY <1>2, <2>i, <2>p, <2>5
  <2>7. n + 1 \in Nat /\ (~Alone => n + 1 = 0)
    BY <1>a, <1>l
  <2>8. \A c, d \in Cells : queue'[c] = queue'[d] /\ queue'[c] # 0 => c = d
    BY <1>l, <1>2 DEF Once
  <2>9. PICK q, m : q = r /\ m = n + 1
    OBVIOUS
  <2>10. /\ List(q, m)' /\ m \in Nat /\ \A j, k \in 0 .. m : q[j] = q[k] => j = k
         /\ ~Alone => m = 0
    BY <2>3, <2>4, <2>7, <2>9
  <2>11. \A j \in Indices : /\ (\E k \in 0 .. m - 1 : q[k] = j)
                                 <=> \/ \E k \in 0 .. n - 1 : s[k] = j
                                     \/ (j = idx[t] /\ b = "list")
                            /\ (\E c \in Cells : queue'[c] = j)
                                 <=> \/ \E c \in Cells : queue[c] = j
                                     \/ (j = idx[t] /\ b = "cell")
                            /\ j \in lost' <=> j \in lost \/ (j = idx[t] /\ b = "lost")
    BY <2>6, <2>9
  <2>12. b \notin {"fresh", "thread", "held"}
    BY <2>p
  <2> QED BY <1>y, <1>1, <1>o, <1>2, <2>0, <2>8, <2>10, <2>11, <2>12, GivenUp
<1> QED BY <1>3, <1>4 DEF Push

-----------------------------------------------------------------------------
(* The tail.                                                               *)

\* There are Size - 1 indices.
LEMMA FewIndices ==
  ASSUME NEW m \in Nat, NEW f \in [0 .. m -> Indices],
         \A j, k \in 0 .. m : f[j] = f[k] => j = k
  PROVE  m + 1 <= Size - 1
<1>1. /\ IsFiniteSet(0 .. m) /\ Cardinality(0 .. m) = m + 1
  <2>1. 0 \in Int /\ m \in Int /\ ~(0 > m) /\ m - 0 + 1 = m + 1
    OBVIOUS
  <2> QED BY <2>1, FS_Interval
<1>2. /\ IsFiniteSet(Indices) /\ Cardinality(Indices) = Size - 1
  <2>1. 1 \in Int /\ Size - 1 \in Int /\ ~(1 > Size - 1) /\ (Size - 1) - 1 + 1 = Size - 1
    BY SizeAssumption
  <2> QED BY <2>1, FS_Interval DEF Indices
<1>3. ~(Cardinality(Indices) < Cardinality(0 .. m))
  BY <1>1, <1>2, FS_PigeonHole
<1> QED BY <1>1, <1>2, <1>3, SizeAssumption

\* The cells claimed hold indices, all of them different, and a thread that
\* claims one more has another: the last cell is never claimed, and the ends
\* do not start over.
LEMMA TailMoves ==
  ASSUME Invariant, NEW t \in Threads, ClaimTail(t)
  PROVE  tail' = tail + 1 /\ tail \in Nat /\ tail + 1 \in Cells
<1>1. PICK kind, s, n : Ownership(kind, s, n)
  BY DEF Invariant, Owned
<1>y. TypeOK /\ tail \in Nat /\ tail < Size /\ pc[t] = "claim"
  <2>1. TypeOK
    BY DEF Invariant
  <2>2. tail \in Cells /\ pc[t] = "claim"
    BY <2>1 DEF TypeOK, ClaimTail, At
  <2> QED BY <2>1, <2>2, SizeAssumption DEF Cells
<1>l. Located(kind, s, n) /\ Once(s, n)
  BY <1>1 DEF Ownership
<1>c. \A j \in Indices : j \in Cells /\ j # 0
  BY SizeAssumption DEF Indices, Cells
<1> DEFINE Has(c, i) == \/ c < tail /\ queue[c] = i
                        \/ c < tail /\ \E u \in Threads : Stores(u, c) /\ Owns(u, i)
                        \/ c = tail /\ Owns(t, i)
<1>2. \A c \in 0 .. tail : \E i \in Indices : Has(c, i)
  <2> SUFFICES ASSUME NEW c \in 0 .. tail
               PROVE  \E i \in Indices : Has(c, i)
    OBVIOUS
  <2>1. CASE c = tail
    <3>1. idx[t] \in Indices /\ Owns(t, idx[t])
      BY <1>y, OwnIndex DEF Owns, Owning
    <3> QED BY <2>1, <3>1
  <2>2. CASE c # tail /\ \E u \in Threads : Stores(u, c)
    <3>1. PICK u \in Threads : Stores(u, c)
      BY <2>2
    <3>2. idx[u] \in Indices /\ Owns(u, idx[u])
      BY <3>1, OwnIndex DEF Owns, Owning, Stores
    <3>3. c < tail
      BY <1>y, <2>2
    <3> QED BY <3>1, <3>2, <3>3
  <2>3. CASE c # tail /\ ~\E u \in Threads : Stores(u, c)
    <3>1. c < tail /\ c \in Cells
      BY <1>y, <2>3, SizeAssumption DEF Cells
    <3>2. queue[c] # 0 /\ queue[c] \in Cells
      BY <1>y, <2>3, <3>1 DEF Invariant, Filling, TypeOK
    <3>3. queue[c] \in Indices
      BY <3>2, SizeAssumption DEF Cells, Indices
    <3> QED BY <3>1, <3>3
  <2> QED BY <2>1, <2>2, <2>3
<1>3. \A c, d \in 0 .. tail : \A i \in Indices : Has(c, i) /\ Has(d, i) => c = d
  <2> SUFFICES ASSUME NEW c \in 0 .. tail, NEW d \in 0 .. tail, NEW i \in Indices,
                      Has(c, i), Has(d, i)
               PROVE  c = d
    OBVIOUS
  <2>1. c \in Cells /\ d \in Cells /\ i # 0 /\ i \in Cells
    BY <1>y, <1>c, SizeAssumption DEF Cells
  <2>2. ~(queue[c] = i /\ \E u \in Threads : Owns(u, i))
    BY <1>l, <2>1 DEF Located, IsAt
  <2>3. ~(queue[d] = i /\ \E u \in Threads : Owns(u, i))
    BY <1>l, <2>1 DEF Located, IsAt
  <2>4. \A u, v \in Threads : Owns(u, i) /\ Owns(v, i) => u = v
    BY <1>l, <2>1 DEF Once
  <2>5. \A u \in Threads : Stores(u, c) => u # t
    BY <1>y DEF Stores
  <2>6. \A u \in Threads : Stores(u, d) => u # t
    BY <1>y DEF Stores
  <2>7. \A u \in Threads : Stores(u, c) /\ Stores(u, d) => c = d
    BY DEF Stores
  <2>8. queue[c] = i /\ queue[d] = i => c = d
    BY <1>l, <2>1 DEF Once
  <2>9. CASE c < tail /\ queue[c] = i
    BY <2>2, <2>8, <2>9
  <2>10. CASE c < tail /\ \E u \in Threads : Stores(u, c) /\ Owns(u, i)
    BY <2>3, <2>4, <2>5, <2>7, <2>10
  <2>11. CASE c = tail /\ Owns(t, i)
    BY <2>3, <2>4, <2>6, <2>11
  <2> QED BY <2>9, <2>10, <2>11
<1> DEFINE f == [c \in 0 .. tail |-> CHOOSE i \in Indices : Has(c, i)]
<1> HIDE DEF Has
<1>4. \A c \in 0 .. tail : f[c] \in Indices /\ Has(c, f[c])
  BY <1>2
<1>5. f \in [0 .. tail -> Indices]
  BY <1>4
<1> HIDE DEF f
<1>6. \A c, d \in 0 .. tail : f[c] = f[d] => c = d
  BY <1>3, <1>4
<1>7. tail + 1 <= Size - 1
  <2>1. PICK g, m : g = f /\ m = tail
    OBVIOUS
  <2>2. m \in Nat /\ g \in [0 .. m -> Indices] /\ \A c, d \in 0 .. m : g[c] = g[d] => c = d
    BY <1>y, <1>5, <1>6, <2>1
  <2>3. m + 1 <= Size - 1
    BY <2>2, FewIndices
  <2> QED BY <2>1, <2>3
<1>8. tail' = tail + 1
  BY <1>y, <1>7, SizeAssumption DEF ClaimTail, After
<1> QED BY <1>y, <1>7, <1>8, SizeAssumption DEF Cells

LEMMA ClaimTailSteps ==
  ASSUME Invariant, NEW t \in Threads, ClaimTail(t)
  PROVE  Filling' /\ Taking'
<1>y. TypeOK /\ Filling /\ Taking
  BY DEF Invariant
<1>o. Others(t)
  BY StepBasics DEF Invariant, Continue
<1>1. tail' = tail + 1 /\ tail \in Nat /\ tail + 1 \in Cells
  BY TailMoves
<1>2. /\ pc[t] = "claim" /\ pc'[t] = "store" /\ next'[t] = tail
      /\ UNCHANGED <<queue, head>>
  BY <1>y DEF TypeOK, ClaimTail, At, Goto
<1>c. \A c \in Cells : c \in Nat
  BY SizeAssumption DEF Cells
<1>s. \A u \in Threads : \A c \in Cells :
        Stores(u, c)' <=> Stores(u, c) \/ (u = t /\ c = tail)
  <2> SUFFICES ASSUME NEW u \in Threads, NEW c \in Cells
               PROVE  Stores(u, c)' <=> Stores(u, c) \/ (u = t /\ c = tail)
    OBVIOUS
  <2>1. CASE u = t
    BY <1>2, <2>1 DEF Stores
  <2>2. CASE u # t
    BY <1>o, <2>2 DEF Stores, Others
  <2> QED BY <2>1, <2>2
<1>3. \A u \in Threads : \A c \in Cells : Stores(u, c) => c < tail /\ queue[c] = 0
  BY <1>y DEF Filling
<1>4. \A c \in Cells : IF c < tail' THEN queue'[c] # 0 \/ \E u \in Threads : Stores(u, c)'
                                    ELSE queue'[c] = 0
  <2> SUFFICES ASSUME NEW c \in Cells
               PROVE  IF c < tail' THEN queue'[c] # 0 \/ \E u \in Threads : Stores(u, c)'
                                   ELSE queue'[c] = 0
    OBVIOUS
  <2>0. c \in Nat /\ (c < tail' <=> c < tail \/ c = tail)
    BY <1>1, <1>c
  <2>1. CASE c = tail
    BY <1>s, <2>0, <2>1
  <2>2. CASE c < tail
    BY <1>y, <1>2, <1>s, <2>0, <2>2 DEF Filling
  <2>3. CASE ~(c < tail) /\ c # tail
    BY <1>y, <1>2, <2>0, <2>3 DEF Filling
  <2> QED BY <2>1, <2>2, <2>3
<1>5. \A u \in Threads : \A c \in Cells : Stores(u, c)' => c < tail' /\ queue'[c] = 0
  <2> SUFFICES ASSUME NEW u \in Threads, NEW c \in Cells, Stores(u, c)'
               PROVE  c < tail' /\ queue'[c] = 0
    OBVIOUS
  <2>1. CASE Stores(u, c)
    BY <1>1, <1>2, <1>3, <1>c, <2>1
  <2>2. CASE u = t /\ c = tail
    <3>1. ~(c < tail)
      BY <1>1, <2>2
    <3>2. queue[c] = 0
      BY <1>y, <3>1 DEF Filling
    <3> QED BY <1>1, <1>2, <2>2, <3>2
  <2> QED BY <1>s, <2>1, <2>2
<1>6. \A u, v \in Threads : \A c \in Cells : Stores(u, c)' /\ Stores(v, c)' => u = v
  <2>1. \A u \in Threads : ~Stores(u, tail)
    BY <1>1, <1>c, <1>3 DEF Stores, Invariant, TypeOK
  <2> QED BY <1>y, <1>s, <2>1 DEF Filling
<1>7. Taking'
  <2>1. \A u \in Threads : pc'[u] = "claimHead" => idx'[u] < tail'
    <3> SUFFICES ASSUME NEW u \in Threads, pc'[u] = "claimHead"
                 PROVE  idx'[u] < tail'
      OBVIOUS
    <3>1. u # t
      BY <1>2
    <3>2. idx[u] < tail /\ idx[u] \in Nat /\ idx'[u] = idx[u]
      BY <1>y, <1>o, <1>c, <3>1 DEF Taking, Others, TypeOK
    <3> QED BY <1>1, <3>2
  <2>2. head' <= tail'
    BY <1>y, <1>1, <1>2, <1>c DEF Taking, TypeOK
  <2> QED BY <1>y, <1>o, <1>2, <2>1, <2>2 DEF Taking, Others
<1> QED BY <1>4, <1>5, <1>6, <1>7 DEF Filling

LEMMA StoreSteps ==
  ASSUME Invariant, NEW t \in Threads, StoreIndex(t)
  PROVE  Filling' /\ Taking'
<1>y. TypeOK /\ Filling /\ Taking
  BY DEF Invariant
<1>o. Others(t)
  BY StepBasics DEF Invariant, Continue
<1>2. pc[t] = "store" /\ pc'[t] = "idle" /\ UNCHANGED <<tail, head>>
  BY <1>y DEF TypeOK, StoreIndex, At, Goto, Return
<1>i. idx[t] \in Indices /\ idx[t] # 0
  BY <1>2, OwnIndex DEF Owning, Indices
<1>f. PICK f \in Cells : next[t] = f
  BY <1>y DEF TypeOK
<1>q. queue'[f] = idx[t] /\ \A c \in Cells : c # f => queue'[c] = queue[c]
  BY <1>y, <1>f DEF TypeOK, StoreIndex
<1>3. f < tail /\ \A u \in Threads : Stores(u, f) => u = t
  BY <1>y, <1>2, <1>f DEF Filling, Stores
<1>s. \A u \in Threads : \A c \in Cells : Stores(u, c)' <=> Stores(u, c) /\ c # f
  <2> SUFFICES ASSUME NEW u \in Threads, NEW c \in Cells
               PROVE  Stores(u, c)' <=> Stores(u, c) /\ c # f
    OBVIOUS
  <2>1. CASE u = t
    BY <1>2, <1>f, <2>1 DEF Stores
  <2>2. CASE u # t
    BY <1>o, <1>3, <2>2 DEF Stores, Others
  <2> QED BY <2>1, <2>2
<1>4. Filling'
  <2>1. \A c \in Cells : IF c < tail' THEN queue'[c] # 0 \/ \E u \in Threads : Stores(u, c)'
                                      ELSE queue'[c] = 0
    BY <1>y, <1>2, <1>i, <1>q, <1>3, <1>s DEF Filling
  <2>2. \A u \in Threads : \A c \in Cells : Stores(u, c)' => c < tail' /\ queue'[c] = 0
    BY <1>y, <1>2, <1>q, <1>s DEF Filling
  <2>3. \A u, v \in Threads : \A c \in Cells : Stores(u, c)' /\ Stores(v, c)' => u = v
    BY <1>y, <1>s DEF Filling
  <2> QED BY <2>1, <2>2, <2>3 DEF Filling
<1>5. Taking'
  BY <1>y, <1>o, <1>2, TakingKept
<1> QED BY <1>4, <1>5

\* What allocate and free do concerns neither.
LEMMA ListSteps ==
  ASSUME Invariant, NEW t \in Threads,
         \/ Allocate(t) \/ ReadNext(t) \/ Pop(t) \/ PopFails(t) \/ Bump(t) \/ Exhausted(t)
         \/ Free(t) \/ Link(t) \/ Push(t) \/ Construct(t) \/ Throw(t)
  PROVE  Filling' /\ Taking'
<1>y. TypeOK /\ Filling /\ Taking
  BY DEF Invariant
<1>o. Others(t)
  BY StepBasics DEF Invariant, Begin, Continue
<1>1. /\ pc[t] # "store" /\ pc'[t] \in {"idle", "look", "pop", "construct", "claim", "link", "push"}
      /\ UNCHANGED <<queue, tail, head>>
  <2>1. CASE Allocate(t) \/ ReadNext(t) \/ PopFails(t) \/ Exhausted(t)
    BY <1>y, <2>1 DEF TypeOK, Allocate, ReadNext, PopFails, Exhausted, At, Goto, Return, ends
  <2>2. CASE Pop(t) \/ Bump(t)
    BY <1>y, <2>2 DEF TypeOK, Pop, Bump, Obtain, At, Goto, Return, ends
  <2>3. CASE Free(t) \/ Link(t) \/ Push(t) \/ Construct(t) \/ Throw(t)
    BY <1>y, <2>3 DEF TypeOK, Free, Link, Push, Construct, Throw, At, Goto, Return, ends
  <2> QED BY <2>1, <2>2, <2>3
<1> QED BY <1>y, <1>o, <1>1, FillingKept, TakingKept

-----------------------------------------------------------------------------
(* The invariant holds.                                                    *)

LEMMA InitInvariant ==
  ASSUME SoundClients, Init
  PROVE  Invariant
<1>c. 0 \in Cells /\ (\A c \in Cells : c \in Nat) /\ 1 \in 1 .. Size
  BY SizeAssumption DEF Cells
<1>0. PICK c \in Clients : allocators = c.allocators /\ freers = c.freers
  BY DEF Init
<1>1. TypeOK
  BY <1>c, <1>0, ClientsAssumption DEF Init, TypeOK, Places
<1>a. FreeingAlone
  BY <1>0 DEF SoundClients, FreeingAlone, Alone
<1>2. Filling /\ Taking
  BY <1>c DEF Init, Filling, Taking, Stores
<1> DEFINE kind == [i \in Indices |-> "fresh"]
           s == [k \in 0 .. 0 |-> 0]
<1>3. kind \in [Indices -> Kinds] /\ \A i \in Indices : kind[i] = "fresh"
  BY DEF Kinds
<1>4. s \in [0 .. 0 -> Cells] /\ s[0] = 0 /\ (\A j, k \in 0 .. 0 : j = k)
      /\ 0 .. 0 - 1 = {}
  BY <1>c
<1> HIDE DEF kind, s
<1>5. List(s, 0)
  BY <1>4 DEF Init, List
<1>6. \A t \in Threads : \A i \in Cells : ~Owns(t, i)
  BY DEF Init, Owns, Owning
<1>7. Located(kind, s, 0)
  <2> SUFFICES ASSUME NEW i \in Indices
               PROVE  IsAt(kind[i], i, s, 0)
    BY DEF Located
  <2>1. i \in Nat /\ i >= 1 /\ i # 0 /\ i \in Cells
    BY SizeAssumption DEF Indices, Cells
  <2> QED BY <1>3, <1>4, <1>6, <2>1 DEF IsAt, Init
<1>8. Once(s, 0)
  BY <1>c, <1>4, <1>6 DEF Once, Init
<1>9. Linked(kind, 0)
  BY DEF Linked, Init
<1>10. Ownership(kind, s, 0)
  BY <1>3, <1>5, <1>7, <1>8, <1>9 DEF Ownership
<1>11. Owned
  BY <1>10 DEF Owned
<1> QED BY <1>1, <1>a, <1>2, <1>11 DEF Invariant

LEMMA StepInvariant ==
  ASSUME Invariant, NEW t \in Threads, Begin(t) \/ Continue(t)
  PROVE  Invariant'
<1>1. TypeOK'
  BY TypeStep
<1>a. FreeingAlone'
  BY StepBasics DEF Invariant, FreeingAlone, Alone
<1>2. CASE \/ Allocate(t) \/ ReadNext(t) \/ PopFails(t) \/ Exhausted(t) \/ Construct(t)
  BY <1>1, <1>a, <1>2, PlaceStep, ListSteps DEF Invariant
<1>3. CASE Dequeue(t) \/ LoadTail(t) \/ ClaimHead(t) \/ Spin(t)
  BY <1>1, <1>a, <1>3, PlaceStep, DequeueSteps DEF Invariant
<1>4. CASE ClaimTail(t)
  BY <1>1, <1>a, <1>4, PlaceStep, ClaimTailSteps DEF Invariant
<1>5. CASE StoreIndex(t)
  BY <1>1, <1>a, <1>5, StoreOwned, StoreSteps DEF Invariant
<1>6. CASE Pop(t)
  BY <1>1, <1>a, <1>6, PopOwned, ListSteps DEF Invariant
<1>7. CASE Bump(t)
  BY <1>1, <1>a, <1>7, BumpOwned, ListSteps DEF Invariant
<1>8. CASE Free(t)
  BY <1>1, <1>a, <1>8, FreeOwned, ListSteps DEF Invariant
<1>9. CASE Link(t)
  BY <1>1, <1>a, <1>9, LinkOwned, ListSteps DEF Invariant
<1>10. CASE Push(t)
  BY <1>1, <1>a, <1>10, PushOwned, ListSteps DEF Invariant
<1>11. CASE Throw(t)
  BY <1>1, <1>a, <1>11, ThrowOwned, ListSteps DEF Invariant
<1> QED BY <1>2, <1>3, <1>4, <1>5, <1>6, <1>7, <1>8, <1>9, <1>10, <1>11
        DEF Begin, Continue

LEMMA NextInvariant == Invariant /\ [Next]_vars => Invariant'
<1> SUFFICES ASSUME Invariant, [Next]_vars PROVE Invariant'
  OBVIOUS
<1>1. CASE Next
  BY <1>1, StepInvariant DEF Next
<1>2. CASE UNCHANGED vars
  <2>1. \A t, i : Owns(t, i)' <=> Owns(t, i)
    BY <1>2 DEF vars, Owns
  <2>2. \A t, c : Stores(t, c)' <=> Stores(t, c)
    BY <1>2 DEF vars, Stores
  <2>3. TypeOK' /\ FreeingAlone' /\ Filling' /\ Taking'
    BY <1>2, <2>2 DEF vars, Invariant, TypeOK, FreeingAlone, Alone, Filling, Taking
  <2>4. PICK kind, s, n : Ownership(kind, s, n)
    BY DEF Invariant, Owned
  <2>5. List(s, n)' /\ Once(s, n)' /\ Linked(kind, n)'
    BY <1>2, <2>1, <2>4 DEF vars, Ownership, List, Once, Linked, Alone
  <2>6. Located(kind, s, n)'
    BY <1>2, <2>1, <2>4 DEF vars, Ownership, Located, IsAt
  <2>7. Ownership(kind, s, n)'
    BY <2>4, <2>5, <2>6 DEF Ownership
  <2>8. Owned'
    BY <2>7 DEF Owned
  <2> QED BY <2>3, <2>8 DEF Invariant
<1> QED BY <1>1, <1>2

LEMMA AlwaysInvariant ==
  ASSUME SoundClients
  PROVE  Spec => []Invariant
<1>1. Init => Invariant
  BY InitInvariant
<1> QED BY <1>1, NextInvariant, PTL DEF Spec

-----------------------------------------------------------------------------
(* One owner.                                                              *)

\* An index is counted in the place it is in, once.
LEMMA OwnersCounted ==
  ASSUME TypeOK, NEW kind, NEW s, NEW n, Ownership(kind, s, n), NEW i \in Indices
  PROVE  Cardinality(Owners(i, s, n)) = IF i < storageHead THEN 1 ELSE 0
<1>1. IsAt(kind[i], i, s, n) /\ kind[i] \in Kinds /\ Once(s, n) /\ n \in Nat
  BY DEF Ownership, Located
<1>c. i \in Cells /\ i # 0 /\ i \in Nat /\ storageHead \in Nat
  BY SizeAssumption DEF Indices, Cells, TypeOK
<1> DEFINE W == Owners(i, s, n)
<1>2. \A x : x \in W <=> \/ \E k \in 0 .. n - 1 : s[k] = i /\ x = <<"list", k>>
                         \/ \E t \in Threads : Owns(t, i) /\ x = <<"thread", t>>
                         \/ \E c \in Cells : queue[c] = i /\ x = <<"cell", c>>
                         \/ i \in held /\ x = <<"held", i>>
                         \/ i \in lost /\ x = <<"lost", i>>
  BY DEF Owners, Owns
<1> HIDE DEF W
<1>3. ASSUME NEW x, W = {x}, i < storageHead
      PROVE  Cardinality(W) = IF i < storageHead THEN 1 ELSE 0
  BY <1>3, FS_Singleton
<1>4. kind[i] # "fresh" => i < storageHead
  BY <1>1, <1>c DEF IsAt
<1>5. CASE kind[i] = "fresh"
  <2>1. W = {}
    BY <1>1, <1>2, <1>5 DEF IsAt
  <2>2. ~(i < storageHead)
    BY <1>1, <1>5, <1>c DEF IsAt
  <2> QED BY <2>1, <2>2, FS_EmptySet DEF W
<1>6. CASE kind[i] = "list"
  <2>1. PICK k \in 0 .. n - 1 : s[k] = i
    BY <1>1, <1>6 DEF IsAt
  <2>2. \A j \in 0 .. n - 1 : s[j] = i => j = k
    <3>1. 0 .. n - 1 \subseteq 0 .. n
      BY <1>1
    <3> QED BY <1>1, <2>1, <3>1 DEF Once
  <2>3. W = {<<"list", k>>}
    BY <1>1, <1>2, <1>6, <2>1, <2>2 DEF IsAt
  <2> QED BY <1>3, <1>4, <1>6, <2>3 DEF W
<1>7. CASE kind[i] = "thread"
  <2>1. PICK t \in Threads : Owns(t, i)
    BY <1>1, <1>7 DEF IsAt
  <2>2. \A u \in Threads : Owns(u, i) => u = t
    BY <1>1, <1>c, <2>1 DEF Once
  <2>3. W = {<<"thread", t>>}
    BY <1>1, <1>2, <1>7, <2>1, <2>2 DEF IsAt
  <2> QED BY <1>3, <1>4, <1>7, <2>3 DEF W
<1>8. CASE kind[i] = "cell"
  <2>1. PICK c \in Cells : queue[c] = i
    BY <1>1, <1>8 DEF IsAt
  <2>2. \A d \in Cells : queue[d] = i => d = c
    BY <1>1, <1>c, <2>1 DEF Once
  <2>3. W = {<<"cell", c>>}
    BY <1>1, <1>2, <1>8, <2>1, <2>2 DEF IsAt
  <2> QED BY <1>3, <1>4, <1>8, <2>3 DEF W
<1>9. CASE kind[i] = "held"
  <2>1. W = {<<"held", i>>}
    BY <1>1, <1>2, <1>9 DEF IsAt
  <2> QED BY <1>3, <1>4, <1>9, <2>1 DEF W
<1>10. CASE kind[i] = "lost"
  <2>1. W = {<<"lost", i>>}
    BY <1>1, <1>2, <1>10 DEF IsAt
  <2> QED BY <1>3, <1>4, <1>10, <2>1 DEF W
<1> QED BY <1>1, <1>5, <1>6, <1>7, <1>8, <1>9, <1>10 DEF Kinds

LEMMA OneOwnerFollows == Invariant => OneOwner
<1> SUFFICES ASSUME Invariant PROVE OneOwner
  OBVIOUS
<1>1. PICK kind, s, n : Ownership(kind, s, n)
  BY DEF Invariant, Owned
<1>y. TypeOK
  BY DEF Invariant
<1>l. Once(s, n) /\ List(s, n) /\ n \in Nat
  BY <1>1 DEF Ownership
<1>2. n \in 0 .. Size - 1
  <2>1. CASE n = 0
    BY <2>1, SizeAssumption
  <2>2. CASE n # 0
    <3>1. n - 1 \in Nat /\ 0 .. n - 1 \subseteq 0 .. n
      BY <1>l, <2>2
    <3>2. \A k \in 0 .. n - 1 : s[k] \in Cells /\ s[k] # 0
      BY <1>l, <3>1 DEF List
    <3>3. \A k \in 0 .. n - 1 : s[k] \in Indices
      BY <3>2, SizeAssumption DEF Cells, Indices
    <3> DEFINE f == [k \in 0 .. n - 1 |-> s[k]]
    <3>4. f \in [0 .. n - 1 -> Indices]
      BY <3>3
    <3>5. \A j, k \in 0 .. n - 1 : f[j] = f[k] => j = k
      BY <1>l, <3>1 DEF Once
    <3> HIDE DEF f
    <3>6. (n - 1) + 1 <= Size - 1
      BY <3>1, <3>4, <3>5, FewIndices
    <3> QED BY <1>l, <3>6, SizeAssumption
  <2> QED BY <2>1, <2>2
<1>3. \A i \in Indices : Cardinality(Owners(i, s, n)) = IF i < storageHead THEN 1 ELSE 0
  BY <1>1, <1>y, OwnersCounted
<1>4. s \in [0 .. n -> Cells]
  BY <1>l DEF List
<1> QED BY <1>y, <1>l, <1>2, <1>3, <1>4 DEF OneOwner

\* Where one thread at most allocates, or nobody frees, every index that was
\* handed out has one owner at any time, and every other has none: none is
\* handed out twice, and none drops out of the list that allocate and free keep.
\* For other clients the compare-and-swap of allocate makes this false.
THEOREM OneOwnerAlways ==
  ASSUME SoundClients
  PROVE  Spec => []OneOwner
BY AlwaysInvariant, OneOwnerFollows, PTL

-----------------------------------------------------------------------------
(* Cells.                                                                  *)

\* Where one thread at most allocates, or nobody frees, no two Dequeues watch
\* the same cell, and each watches one that an Enqueue fills or has filled.
THEOREM ServedOnceAlways ==
  ASSUME SoundClients
  PROVE  Spec => []ServedOnce
<1>1. Invariant => ServedOnce
  <2> SUFFICES ASSUME Invariant, NEW t \in Threads, At(t, "spin")
               PROVE  /\ idx[t] < head
                      /\ \A u \in Threads \ {t} : At(u, "spin") => idx[u] # idx[t]
                      /\ queue[idx[t]] # 0
                         \/ \E u \in Threads : At(u, "store") /\ next[u] = idx[t]
    BY DEF ServedOnce
  <2>1. idx[t] < head /\ head <= tail /\ idx[t] \in Cells /\ head \in Cells /\ tail \in Cells
    BY DEF Invariant, Taking, TypeOK, At
  <2>2. idx[t] < tail
    BY <2>1, SizeAssumption DEF Cells
  <2>3. queue[idx[t]] # 0 \/ \E u \in Threads : Stores(u, idx[t])
    BY <2>1, <2>2 DEF Invariant, Filling
  <2>4. \A u \in Threads \ {t} : At(u, "spin") => idx[u] # idx[t]
    BY DEF Invariant, Taking, At
  <2> QED BY <2>1, <2>3, <2>4 DEF Stores, At
<1> QED BY <1>1, AlwaysInvariant, PTL

\* With the same clients the ends only go up, the head behind the tail, and no
\* cell is written over.
THEOREM EndsOnlyGrow ==
  ASSUME SoundClients
  PROVE  Spec => RunsOut
<1>1. Invariant /\ [Next]_vars =>
        [/\ head <= tail /\ tail <= tail'
         /\ \A c \in Cells : queue[c] # 0 => queue'[c] = queue[c]]_vars
  <2> SUFFICES ASSUME Invariant, Next
               PROVE  /\ head <= tail /\ tail <= tail'
                      /\ \A c \in Cells : queue[c] # 0 => queue'[c] = queue[c]
    OBVIOUS
  <2>1. PICK t \in Threads : Begin(t) \/ Continue(t)
    BY DEF Next
  <2>2. head <= tail /\ tail \in Nat
    BY SizeAssumption DEF Invariant, Taking, TypeOK, Cells
  <2>3. CASE ClaimTail(t)
    <3>1. tail' = tail + 1 /\ queue' = queue
      BY <2>3, TailMoves DEF ClaimTail
    <3> QED BY <2>2, <3>1
  <2>4. CASE StoreIndex(t)
    <3>1. next[t] \in Cells /\ pc[t] = "store"
      BY <2>4 DEF Invariant, TypeOK, StoreIndex, At
    <3>2. queue[next[t]] = 0
      BY <3>1 DEF Invariant, Filling, Stores
    <3>3. \A c \in Cells : c # next[t] => queue'[c] = queue[c]
      BY <2>4, <3>1 DEF Invariant, TypeOK, StoreIndex
    <3> QED BY <2>2, <2>4, <3>2, <3>3 DEF StoreIndex
  <2>5. CASE ~ClaimTail(t) /\ ~StoreIndex(t)
    <3>1. UNCHANGED <<queue, tail>>
      BY <2>1, <2>5 DEF Begin, Continue, Allocate, ReadNext, Pop, PopFails, Bump, Exhausted,
         Free, Link, Push, Construct, Throw, Dequeue, LoadTail, ClaimHead, Spin, Obtain, ends
    <3> QED BY <2>2, <3>1
  <2> QED BY <2>3, <2>4, <2>5
<1> QED BY <1>1, AlwaysInvariant, PTL DEF Spec, RunsOut
=============================================================================
