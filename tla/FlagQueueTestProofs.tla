------------------------ MODULE FlagQueueTestProofs ------------------------
(***************************************************************************)
(* Theorems about the flag queues under the benchmark's threads, for every *)
(* class, every queue size and every number of elements and repetitions.   *)
(***************************************************************************)
EXTENDS FlagQueueTest, RingProofs, FiniteSetTheorems, SequenceTheorems

-----------------------------------------------------------------------------
(* Facts every step uses.                                                  *)

\* However a class wraps its indices, it is the same.
LEMMA AfterIsNext1 ==
  ASSUME NEW i \in Slots
  PROVE  After(i) = Next1(i)
BY NextByModulo DEF After, Next1

\* A store is seen at once or not yet.
LEMMA SeenByOtherIsOneOf ==
  ASSUME NEW s \in [Slots -> BOOLEAN], NEW i \in Slots, NEW v \in BOOLEAN
  PROVE  /\ SeenByOther(s, i, v) \in [Slots -> BOOLEAN]
         /\ SeenByOther(s, i, v) \in {s, [s EXCEPT ![i] = v]}
BY DEF SeenByOther

-----------------------------------------------------------------------------
(* The producer's steps.                                                   *)

\* Enqueue finds a clear flag, which is clear in truth.
LEMMA EnqueueStep ==
  ASSUME QueueTypeOK, Flags, Enqueue
  PROVE  QueueTypeOK' /\ Flags'
BY DEF QueueTypeOK, Flags, Enqueue, choice, consumer

LEMMA ConstructStep ==
  ASSUME QueueTypeOK, Flags, Construct
  PROVE  QueueTypeOK' /\ Flags'
<1> USE DEF Construct, choice, consumer
<1>e. PICK e \in Elem : buffer' = [buffer EXCEPT ![tail] = e]
  OBVIOUS
<1>1. QueueTypeOK'
  BY <1>e DEF QueueTypeOK, Value
<1>2. e # Raw
  BY ElemAssumption
<1>3. class.slot # "pointer" /\ ~occupied[tail] /\ tail \in Slots
  BY DEF Flags, QueueTypeOK
<1>4. \A i \in Slots : buffer'[i] = IF i = tail THEN e ELSE buffer[i]
  BY <1>e DEF QueueTypeOK
<1>5. Flags'
  BY <1>2, <1>3, <1>4 DEF Flags
<1> QED BY <1>1, <1>5

LEMMA ThrowStep ==
  ASSUME QueueTypeOK, Flags, Throw
  PROVE  QueueTypeOK' /\ Flags'
BY DEF QueueTypeOK, Flags, Throw, choice, consumer

\* The flag is set over an object, or together with the pointer.
LEMMA SetFlagStep ==
  ASSUME QueueTypeOK, Flags, SetFlag
  PROVE  QueueTypeOK' /\ Flags'
<1> USE DEF SetFlag, choice, consumer
<1>t. /\ tail \in Slots /\ head \in Slots /\ ~occupied[tail]
      /\ occupied \in [Slots -> BOOLEAN] /\ pSeen \in [Slots -> BOOLEAN]
      /\ cSeen \in [Slots -> BOOLEAN] /\ buffer \in [Slots -> Value]
  BY DEF QueueTypeOK, Flags
<1>s. cSeen' \in [Slots -> BOOLEAN] /\ cSeen' \in {cSeen, [cSeen EXCEPT ![tail] = TRUE]}
  BY <1>t, SeenByOtherIsOneOf
<1>b. /\ buffer' \in [Slots -> Value]
      /\ \A i \in Slots : i # tail => buffer'[i] = buffer[i]
      /\ class.slot = "pointer" => buffer'[tail] # Raw
      /\ class.slot # "pointer" => buffer' = buffer
  <2>1. CASE class.slot = "pointer"
    <3>1. PICK e \in Elem : buffer' = [buffer EXCEPT ![tail] = e]
      BY <2>1
    <3> QED BY <1>t, <2>1, <3>1, ElemAssumption DEF Value
  <2>2. CASE class.slot # "pointer"
    BY <1>t, <2>2
  <2> QED BY <2>1, <2>2
<1>1. QueueTypeOK'
  BY <1>t, <1>s, <1>b DEF QueueTypeOK
<1>2. \A i \in Slots : /\ occupied'[i] = (occupied[i] \/ i = tail)
                       /\ pSeen'[i] = (pSeen[i] \/ i = tail)
                       /\ cSeen'[i] => cSeen[i] \/ i = tail
  BY <1>t, <1>s
<1>3. class' = class /\ head' = head /\ tail' = tail /\ cPc' = cPc /\ pPc' = "advance"
  OBVIOUS
<1>4. \A i \in Slots : (occupied'[i] => pSeen'[i]) /\ (cSeen'[i] => occupied'[i])
  BY <1>2 DEF Flags
<1>5. cPc \in {"take", "clear"} => occupied[head] /\ occupied'[head] /\ head # tail
  BY <1>t, <1>2 DEF Flags
<1>6. ASSUME NEW i \in Slots
      PROVE  buffer'[i] # Raw <=>
               IF class.slot = "pointer" THEN occupied'[i]
               ELSE \/ occupied'[i] /\ ~(cPc = "clear" /\ i = head)
                    \/ pPc' = "set" /\ i = tail
  <2>1. CASE i = tail
    BY <1>t, <1>b, <1>2, <1>5, <2>1 DEF Flags
  <2>2. CASE i # tail
    BY <1>t, <1>b, <1>2, <2>2 DEF Flags
  <2> QED BY <2>1, <2>2
<1>7. Flags'
  BY <1>3, <1>4, <1>5, <1>6 DEF Flags
<1> QED BY <1>1, <1>7

LEMMA AdvanceTailStep ==
  ASSUME QueueTypeOK, Flags, AdvanceTail
  PROVE  QueueTypeOK' /\ Flags'
<1> USE DEF AdvanceTail, choice, consumer
<1>1. After(tail) \in Slots
  BY AfterIsNext1, NextBasics DEF QueueTypeOK
<1> QED BY <1>1 DEF QueueTypeOK, Flags

-----------------------------------------------------------------------------
(* The consumer's steps.                                                   *)

\* Dequeue finds a set flag, which is set in truth.
LEMMA DequeueStep ==
  ASSUME QueueTypeOK, Flags, Dequeue
  PROVE  QueueTypeOK' /\ Flags'
BY DEF QueueTypeOK, Flags, Dequeue, choice, producer

LEMMA TakeStep ==
  ASSUME QueueTypeOK, Flags, Take
  PROVE  QueueTypeOK' /\ Flags'
<1> USE DEF Take, choice, producer
<1>t. head \in Slots /\ buffer \in [Slots -> Value] /\ occupied[head]
  BY DEF QueueTypeOK, Flags
<1>b. /\ buffer' \in [Slots -> Value]
      /\ \A i \in Slots : i # head => buffer'[i] = buffer[i]
      /\ class.slot = "pointer" => buffer' = buffer
      /\ class.slot # "pointer" => buffer'[head] = Raw
  BY <1>t DEF Value
<1>1. QueueTypeOK'
  BY <1>t, <1>b DEF QueueTypeOK
<1>2. pPc = "set" => tail # head
  BY <1>t DEF Flags
<1>3. ASSUME NEW i \in Slots
      PROVE  buffer'[i] # Raw <=>
               IF class.slot = "pointer" THEN occupied[i]
               ELSE \/ occupied[i] /\ ~(cPc' = "clear" /\ i = head)
                    \/ pPc = "set" /\ i = tail
  <2>1. CASE i = head
    BY <1>t, <1>b, <1>2, <2>1 DEF Flags
  <2>2. CASE i # head
    BY <1>b, <2>2 DEF Flags
  <2> QED BY <2>1, <2>2
<1>4. Flags'
  BY <1>t, <1>3 DEF Flags
<1> QED BY <1>1, <1>4

LEMMA DeclineStep ==
  ASSUME QueueTypeOK, Flags, Decline
  PROVE  QueueTypeOK' /\ Flags'
BY DEF QueueTypeOK, Flags, Decline, choice, producer

\* The flag is cleared over an empty slot, or together with the pointer.
LEMMA ClearFlagStep ==
  ASSUME QueueTypeOK, Flags, ClearFlag
  PROVE  QueueTypeOK' /\ Flags'
<1> USE DEF ClearFlag, choice, producer
<1>t. /\ tail \in Slots /\ head \in Slots /\ occupied[head]
      /\ occupied \in [Slots -> BOOLEAN] /\ pSeen \in [Slots -> BOOLEAN]
      /\ cSeen \in [Slots -> BOOLEAN] /\ buffer \in [Slots -> Value]
  BY DEF QueueTypeOK, Flags
<1>s. pSeen' \in [Slots -> BOOLEAN] /\ pSeen' \in {pSeen, [pSeen EXCEPT ![head] = FALSE]}
  BY <1>t, SeenByOtherIsOneOf
<1>b. /\ buffer' \in [Slots -> Value]
      /\ \A i \in Slots : buffer'[i] = IF i = head THEN Raw ELSE buffer[i]
  BY <1>t DEF Value
<1>1. QueueTypeOK'
  BY <1>t, <1>s, <1>b DEF QueueTypeOK
<1>2. \A i \in Slots : /\ occupied'[i] = (occupied[i] /\ i # head)
                       /\ cSeen'[i] = (cSeen[i] /\ i # head)
                       /\ pSeen[i] /\ i # head => pSeen'[i]
  BY <1>t, <1>s
<1>3. class' = class /\ head' = head /\ tail' = tail /\ pPc' = pPc /\ cPc' = "advance"
  OBVIOUS
<1>4. \A i \in Slots : (occupied'[i] => pSeen'[i]) /\ (cSeen'[i] => occupied'[i])
  BY <1>2 DEF Flags
<1>5. pPc \in {"fill", "set"} => ~occupied'[tail] /\ tail # head
  BY <1>t, <1>2 DEF Flags
<1>6. ASSUME NEW i \in Slots
      PROVE  buffer'[i] # Raw <=>
               IF class.slot = "pointer" THEN occupied'[i]
               ELSE \/ occupied'[i] /\ ~(cPc' = "clear" /\ i = head)
                    \/ pPc = "set" /\ i = tail
  <2>1. CASE i = head
    BY <1>t, <1>b, <1>2, <1>5, <2>1 DEF Flags
  <2>2. CASE i # head
    BY <1>b, <1>2, <2>2 DEF Flags
  <2> QED BY <2>1, <2>2
<1>7. Flags'
  BY <1>3, <1>4, <1>5, <1>6 DEF Flags
<1> QED BY <1>1, <1>7

LEMMA AdvanceHeadStep ==
  ASSUME QueueTypeOK, Flags, AdvanceHead
  PROVE  QueueTypeOK' /\ Flags'
<1> USE DEF AdvanceHead, choice, producer
<1>1. After(head) \in Slots
  BY AfterIsNext1, NextBasics DEF QueueTypeOK
<1> QED BY <1>1 DEF QueueTypeOK, Flags

-----------------------------------------------------------------------------
(* A new queue, and flags on their way.                                    *)

\* A late flag is made true, for either thread.
LEMMA PropagateStep ==
  ASSUME QueueTypeOK, Flags, NEW i \in Slots, Propagate(i)
  PROVE  QueueTypeOK' /\ Flags'
BY DEF QueueTypeOK, Flags, Propagate, choice, producer, consumer

LEMMA FreshStep ==
  ASSUME QueueTypeOK, Fresh, pPc = "idle", cPc = "idle",
         UNCHANGED <<choice, pPc, cPc, out>>
  PROVE  QueueTypeOK' /\ Flags'
<1>1. 0 \in Slots
  BY SizeAssumption DEF Slots
<1> QED BY <1>1 DEF QueueTypeOK, Flags, Fresh, Value, choice

-----------------------------------------------------------------------------
(* The threads.                                                            *)

LEMMA ProducerSteps ==
  ASSUME QueueTypeOK, Flags, ProducerStep
  PROVE  QueueTypeOK' /\ Flags' /\ cPc' = cPc
<1>1. QueueTypeOK' /\ Flags'
  BY EnqueueStep, ConstructStep, ThrowStep, SetFlagStep, AdvanceTailStep
  DEF ProducerStep
<1> QED BY <1>1 DEF ProducerStep, Enqueue, Construct, Throw, SetFlag,
                    AdvanceTail, consumer

LEMMA ConsumerSteps ==
  ASSUME QueueTypeOK, Flags, ConsumerStep
  PROVE  QueueTypeOK' /\ Flags' /\ pPc' = pPc
<1>1. QueueTypeOK' /\ Flags'
  BY DequeueStep, TakeStep, DeclineStep, ClearFlagStep, AdvanceHeadStep
  DEF ConsumerStep
<1> QED BY <1>1 DEF ConsumerStep, Dequeue, Take, Decline, ClearFlag,
                    AdvanceHead, producer

\* The queue's half of the invariant stays as it is with the queue.
LEMMA QueueKept ==
  ASSUME QueueTypeOK, Flags, UNCHANGED queueVars
  PROVE  QueueTypeOK' /\ Flags' /\ pPc' = pPc /\ cPc' = cPc
BY DEF QueueTypeOK, Flags, queueVars

\* A call is begun only for an element that is still to be sent.
LEMMA SendStep ==
  ASSUME Invariant, Send
  PROVE  Invariant'
<1> USE DEF Invariant, TypeOK
<1>1. QueueTypeOK' /\ Flags' /\ cPc' = cPc
  BY ProducerSteps DEF Send
<1>2. sent < Total
  BY DEF Send, InCalls
<1>3. HarnessTypeOK' /\ Phases'
  BY <1>2, TotalAssumption DEF Send, HarnessTypeOK, Phases
<1>4. InCalls'
  <2>1. CASE pPc = "advance"
    <3>1. pPc' = "idle"
      BY <2>1 DEF Send, ProducerStep, Enqueue, Construct, Throw, SetFlag, AdvanceTail
    <3> QED BY <3>1, <1>1 DEF InCalls, Send
  <2>2. CASE pPc # "advance"
    BY <2>2, <1>1, <1>2 DEF InCalls, Send
  <2> QED BY <2>1, <2>2
<1> QED BY <1>1, <1>3, <1>4

LEMMA ReceiveStep ==
  ASSUME Invariant, Receive
  PROVE  Invariant'
<1> USE DEF Invariant, TypeOK
<1>1. QueueTypeOK' /\ Flags' /\ pPc' = pPc
  BY ConsumerSteps DEF Receive
<1>2. received < Total
  BY DEF Receive, InCalls
<1>3. HarnessTypeOK' /\ Phases'
  BY <1>2, TotalAssumption DEF Receive, HarnessTypeOK, Phases
<1>4. InCalls'
  <2>1. CASE cPc = "advance"
    <3>1. cPc' = "idle"
      BY <2>1 DEF Receive, ConsumerStep, Dequeue, Take, Decline, ClearFlag, AdvanceHead
    <3> QED BY <3>1, <1>1 DEF InCalls, Receive
  <2>2. CASE cPc # "advance"
    BY <2>2, <1>1, <1>2 DEF InCalls, Receive
  <2> QED BY <2>1, <2>2
<1> QED BY <1>1, <1>3, <1>4

\* The queue is created while nobody can be in a call.
LEMMA CreateStep ==
  ASSUME Invariant, Create
  PROVE  Invariant'
<1> USE DEF Invariant, TypeOK
<1>1. pPc = "idle" /\ cPc = "idle"
  BY DEF Create, CreateQueue, InCalls, Phases
<1>2. QueueTypeOK' /\ Flags'
  BY <1>1, FreshStep DEF Create
<1>3. HarnessTypeOK' /\ Phases' /\ InCalls'
  BY <1>1 DEF Create, CreateQueue, HarnessTypeOK, Phases, InCalls
<1> QED BY <1>2, <1>3

\* Between the calls: who waits for whom keeps the threads in phase.
LEMMA StageStep ==
  ASSUME Invariant, UNCHANGED queueVars,
         \/ ProducerDone \/ ConsumerDone \/ AwaitQueue \/ StartBarrier
         \/ FinishBarrier \/ CheckEmpty \/ DeleteQueue \/ ResetPointer \/ Repeat
  PROVE  Invariant'
<1> USE DEF Invariant, TypeOK, HarnessTypeOK, Phases, InCalls
<1>1. QueueTypeOK' /\ Flags' /\ pPc' = pPc /\ cPc' = cPc
  BY QueueKept
<1>2. CASE ProducerDone
  BY <1>1, <1>2 DEF ProducerDone
<1>3. CASE ConsumerDone
  BY <1>1, <1>3 DEF ConsumerDone
<1>4. CASE AwaitQueue
  BY <1>1, <1>4 DEF AwaitQueue
<1>5. CASE StartBarrier
  BY <1>1, <1>5 DEF StartBarrier
<1>6. CASE FinishBarrier
  BY <1>1, <1>6 DEF FinishBarrier
<1>7. CASE CheckEmpty
  BY <1>1, <1>7 DEF CheckEmpty
<1>8. CASE DeleteQueue
  BY <1>1, <1>8 DEF DeleteQueue
<1>9. CASE ResetPointer
  BY <1>1, <1>9 DEF ResetPointer
<1>10. CASE Repeat
  BY <1>1, <1>10, RepetitionsAssumption, TotalAssumption DEF Repeat
<1> QED BY <1>2, <1>3, <1>4, <1>5, <1>6, <1>7, <1>8, <1>9, <1>10

LEMMA VisibleStep ==
  ASSUME Invariant, Visible
  PROVE  Invariant'
<1>1. PICK i \in Slots : Propagate(i) /\ UNCHANGED harnessVars
  BY DEF Visible
<1>2. QueueTypeOK' /\ Flags'
  BY <1>1, PropagateStep DEF Invariant, TypeOK
<1>3. pPc' = pPc /\ cPc' = cPc
  BY <1>1 DEF Propagate, producer, consumer
<1> QED BY <1>1, <1>2, <1>3 DEF Invariant, TypeOK, HarnessTypeOK, Phases,
                                InCalls, harnessVars

-----------------------------------------------------------------------------
(* The invariant and what follows from it.                                 *)

LEMMA InitInvariant == Init => Invariant
<1> SUFFICES ASSUME Init PROVE Invariant
  OBVIOUS
<1>1. 0 \in Slots
  BY SizeAssumption DEF Slots
<1>2. QueueTypeOK /\ Flags
  BY <1>1 DEF Init, QueueInit, QueueTypeOK, Flags, Value
<1>3. HarnessTypeOK
  <2>1. 0 \in 0 .. Total /\ 1 \in 1 .. Repetitions
    BY TotalAssumption, RepetitionsAssumption
  <2> QED BY <2>1 DEF Init, HarnessInit, HarnessTypeOK
<1>4. Phases /\ InCalls
  BY DEF Init, QueueInit, HarnessInit, Phases, InCalls
<1> QED BY <1>2, <1>3, <1>4 DEF Invariant, TypeOK

LEMMA NextInvariant ==
  ASSUME Invariant, [Next]_vars
  PROVE  Invariant'
<1>1. CASE Thread0
  BY <1>1, CreateStep, SendStep, StageStep DEF Thread0
<1>2. CASE Thread1
  BY <1>2, ReceiveStep, StageStep DEF Thread1
<1>3. CASE Library
  BY <1>3, StageStep DEF Library
<1>4. CASE Visible
  BY <1>4, VisibleStep
<1>5. CASE UNCHANGED vars
  <2>1. UNCHANGED queueVars /\ UNCHANGED harnessVars
    BY <1>5 DEF vars
  <2>2. QueueTypeOK' /\ Flags' /\ pPc' = pPc /\ cPc' = cPc
    BY <2>1, QueueKept DEF Invariant, TypeOK
  <2> QED BY <2>1, <2>2 DEF Invariant, TypeOK, HarnessTypeOK, Phases,
                            InCalls, harnessVars
<1> QED BY <1>1, <1>2, <1>3, <1>4, <1>5 DEF Next

\* The inductive invariant holds throughout every run of the benchmark.
THEOREM InvariantHolds == Spec => []Invariant
<1>1. Init => Invariant
  BY InitInvariant
<1>2. Invariant /\ [Next]_vars => Invariant'
  BY NextInvariant
<1> QED BY <1>1, <1>2, PTL DEF Spec

\* No thread touches a queue that is not yet, or no longer, there.
THEOREM QueueOutlivesCalls == Spec => []NoUseAfterDelete
<1>1. Invariant => NoUseAfterDelete
  BY DEF Invariant, TypeOK, HarnessTypeOK, Phases, InCalls, NoUseAfterDelete
<1> QED BY <1>1, InvariantHolds, PTL

\* The plain accesses of the two threads never race, though neither looks at
\* the other's index.
THEOREM NoRace == Spec => []HandedOver
<1>1. ASSUME Invariant PROVE HandedOver
  <2>1. Flags /\ tail \in Slots /\ head \in Slots
    BY <1>1 DEF Invariant, TypeOK, QueueTypeOK
  <2> QED BY <2>1 DEF Flags, HandedOver
<1> QED BY <1>1, InvariantHolds, PTL

-----------------------------------------------------------------------------
(* Which flags are set.  No variable counts them: the two threads' private  *)
(* indices and the harness's counters do.                                   *)

\* The slot each thread puts the next element in, or takes it from.
PNext == IF pPc = "advance" THEN After(tail) ELSE tail
CNext == IF cPc = "advance" THEN After(head) ELSE head

\* The flags that were set, those of them that were cleared, and the rest.
Sent == IF pPc = "advance" THEN sent + 1 ELSE sent
Received == IF cPc = "advance" THEN received + 1 ELSE received
Count == Sent - Received

\* The set flags are the Count ones from CNext on, and end before PNext.
FlagSlots == {i \in Slots : occupied[i]}
Window ==
  /\ Count \in 0 .. Size
  /\ Dist(CNext, PNext) = IF Count = Size THEN 0 ELSE Count
  /\ \A i \in Slots : occupied[i] <=> Dist(CNext, i) < Count
  /\ IsFiniteSet(FlagSlots) /\ Cardinality(FlagSlots) = Count

\* What each thread has counted, by where it is.
Counted ==
  /\ pStage \in {"create", "start"} => sent = 0
  /\ cStage \in {"wait", "start"} => received = 0
  /\ pStage \in {"finish", "done"} => sent = Total
  /\ cStage \notin {"wait", "start", "loop"} => received = Total

\* The two invariants together.
Counting == Invariant /\ Window /\ Counted

LEMMA CountingRanges ==
  ASSUME Invariant
  PROVE  /\ tail \in Slots /\ head \in Slots
         /\ After(tail) = Next1(tail) /\ After(head) = Next1(head)
         /\ Next1(tail) \in Slots /\ Next1(head) \in Slots
         /\ PNext \in Slots /\ CNext \in Slots
         /\ sent \in Nat /\ received \in Nat /\ sent <= Total /\ received <= Total
         /\ Sent \in Nat /\ Received \in Nat
         /\ occupied \in [Slots -> BOOLEAN] /\ Total \in Nat
<1>1. tail \in Slots /\ head \in Slots /\ occupied \in [Slots -> BOOLEAN]
  BY DEF Invariant, TypeOK, QueueTypeOK
<1>2. After(tail) = Next1(tail) /\ After(head) = Next1(head)
  BY <1>1, AfterIsNext1
<1>3. Next1(tail) \in Slots /\ Next1(head) \in Slots
  BY <1>1, NextBasics
<1>4. /\ sent \in Nat /\ received \in Nat /\ sent <= Total /\ received <= Total
      /\ Total \in Nat
  BY TotalAssumption DEF Invariant, TypeOK, HarnessTypeOK
<1>5. PNext \in Slots /\ CNext \in Slots
  BY <1>1, <1>2, <1>3 DEF PNext, CNext
<1>6. Sent \in Nat /\ Received \in Nat
  BY <1>4 DEF Sent, Received
<1> QED BY <1>1, <1>2, <1>3, <1>4, <1>5, <1>6

\* A step that moves neither end and stores no flag.
LEMMA WindowKept ==
  ASSUME Window, PNext' = PNext, CNext' = CNext, Sent' = Sent, Received' = Received,
         occupied' = occupied
  PROVE  Window'
BY DEF Window, Count, FlagSlots

\* Setting the flag adds the slot at the end, where there was room.
LEMMA SetFlagWindow ==
  ASSUME Counting, Invariant', SetFlag, UNCHANGED <<sent, received>>
  PROVE  Window' /\ Count' = Count + 1 /\ Count < Size /\ Dist(CNext, tail) = Count
<1>r. /\ tail \in Slots /\ After(tail) = Next1(tail) /\ Next1(tail) \in Slots
      /\ CNext \in Slots /\ sent \in Nat /\ Received \in Nat
      /\ occupied \in [Slots -> BOOLEAN]
  BY CountingRanges DEF Counting
<1>w. Window /\ ~occupied[tail]
  BY DEF Counting, Invariant, Flags, SetFlag
<1>u. /\ tail' = tail /\ class' = class /\ head' = head /\ cPc' = cPc
      /\ pPc = "set" /\ pPc' = "advance"
      /\ occupied' = [occupied EXCEPT ![tail] = TRUE]
  BY DEF SetFlag, choice, consumer
<1>n. PNext = tail /\ PNext' = Next1(tail) /\ CNext' = CNext
  BY <1>u, <1>r DEF PNext, CNext, After
<1>c. Received' = Received /\ Sent' = Sent + 1 /\ Count' = Count + 1
  BY <1>u, <1>r DEF Count, Sent, Received
<1>z. Size \in Nat /\ Size >= 1 /\ Count \in Nat /\ Count <= Size
  BY <1>w, SizeAssumption DEF Window
<1>1. Count < Size
  <2>1. SUFFICES ASSUME Count = Size PROVE FALSE
    BY <1>z
  <2>2. Dist(CNext, tail) = 0
    BY <2>1, <1>w, <1>n DEF Window
  <2>3. occupied[tail]
    BY <2>1, <2>2, <1>w, <1>r, <1>z DEF Window
  <2> QED BY <2>3, <1>w
<1>2. Dist(CNext, tail) = Count
  BY <1>1, <1>w, <1>n DEF Window
<1>3. Dist(CNext, Next1(tail)) = IF Count + 1 = Size THEN 0 ELSE Count + 1
  <2>1. CASE Count + 1 = Size
    <3>1. Next1(tail) = CNext
      BY <2>1, <1>2, <1>r, <1>z, NextBasics
    <3> QED BY <2>1, <3>1, <1>r, DistBasics
  <2>2. CASE Count + 1 # Size
    <3>1. Dist(CNext, tail) < Size - 1
      BY <2>2, <1>1, <1>2, <1>z
    <3> QED BY <2>2, <3>1, <1>2, <1>r, NextBasics
  <2> QED BY <2>1, <2>2
<1>4. \A i \in Slots : occupied'[i] <=> Dist(CNext, i) < Count + 1
  <2> SUFFICES ASSUME NEW i \in Slots
               PROVE  occupied'[i] <=> Dist(CNext, i) < Count + 1
    OBVIOUS
  <2>1. Dist(CNext, i) \in Nat
    BY <1>r, DistBasics
  <2>2. Dist(CNext, i) = Dist(CNext, tail) <=> i = tail
    BY <1>r, DistBasics
  <2>3. occupied[i] <=> Dist(CNext, i) < Count
    BY <1>w DEF Window
  <2>4. occupied'[i] <=> (occupied[i] \/ i = tail)
    BY <1>u, <1>r
  <2> QED BY <2>1, <2>2, <2>3, <2>4, <1>2, <1>z
<1>5. IsFiniteSet(FlagSlots') /\ Cardinality(FlagSlots') = Count + 1
  <2>1. FlagSlots' = FlagSlots \cup {tail} /\ tail \notin FlagSlots
    BY <1>u, <1>r, <1>w DEF FlagSlots
  <2>2. IsFiniteSet(FlagSlots) /\ Cardinality(FlagSlots) = Count
    BY <1>w DEF Window
  <2>3. /\ IsFiniteSet(FlagSlots \cup {tail})
        /\ Cardinality(FlagSlots \cup {tail}) = Cardinality(FlagSlots) + 1
    BY <2>1, <2>2, FS_AddElement
  <2> QED BY <2>1, <2>2, <2>3
<1>6. Count' \in 0 .. Size
  BY <1>c, <1>1, <1>z
<1> QED BY <1>1, <1>2, <1>3, <1>4, <1>5, <1>6, <1>c, <1>n DEF Window

\* Clearing it removes the slot at the front.
LEMMA ClearFlagWindow ==
  ASSUME Counting, Invariant', ClearFlag, UNCHANGED <<sent, received>>
  PROVE  Window' /\ Count' = Count - 1 /\ Count > 0
<1>r. /\ head \in Slots /\ After(head) = Next1(head) /\ Next1(head) \in Slots
      /\ PNext \in Slots /\ Sent \in Nat /\ received \in Nat
      /\ occupied \in [Slots -> BOOLEAN]
  BY CountingRanges DEF Counting
<1>w. Window /\ occupied[head]
  BY DEF Counting, Invariant, Flags, ClearFlag
<1>u. /\ tail' = tail /\ class' = class /\ head' = head /\ pPc' = pPc
      /\ cPc = "clear" /\ cPc' = "advance"
      /\ occupied' = [occupied EXCEPT ![head] = FALSE]
  BY DEF ClearFlag, choice, producer
<1>n. CNext = head /\ CNext' = Next1(head) /\ PNext' = PNext
  BY <1>u, <1>r DEF PNext, CNext, After
<1>c. Sent' = Sent /\ Received' = Received + 1 /\ Count' = Count - 1
  BY <1>u, <1>r DEF Count, Sent, Received
<1>z. Size \in Nat /\ Size >= 1 /\ Count \in Nat /\ Count <= Size
  BY <1>w, SizeAssumption DEF Window
<1>0. Dist(head, head) = 0 /\ Dist(Next1(head), head) = Size - 1
  BY <1>r, DistBasics, StepAway
<1>1. Count > 0
  BY <1>0, <1>w, <1>n, <1>r DEF Window
<1>2. \A i \in Slots : i # head => /\ Dist(head, i) \in Nat /\ Dist(head, i) > 0
                                   /\ Dist(Next1(head), i) = Dist(head, i) - 1
  <2> SUFFICES ASSUME NEW i \in Slots, i # head
               PROVE  /\ Dist(head, i) \in Nat /\ Dist(head, i) > 0
                      /\ Dist(Next1(head), i) = Dist(head, i) - 1
    OBVIOUS
  <2>1. Dist(head, i) \in Nat /\ Dist(head, i) # Dist(head, head)
    BY <1>r, DistBasics
  <2>2. Dist(head, i) > 0
    BY <2>1, <1>0
  <2> QED BY <2>1, <2>2, <1>r, StepTowards
<1>3. Dist(Next1(head), PNext) = Count - 1
  <2>1. Dist(head, PNext) = IF Count = Size THEN 0 ELSE Count
    BY <1>w, <1>n DEF Window
  <2>2. CASE PNext = head
    <3>1. Count = Size
      BY <2>1, <2>2, <1>0, <1>1, <1>z
    <3> QED BY <2>2, <3>1, <1>0
  <2>3. CASE PNext # head
    BY <2>1, <2>3, <1>2, <1>r
  <2> QED BY <2>2, <2>3
<1>4. \A i \in Slots : occupied'[i] <=> Dist(Next1(head), i) < Count - 1
  <2> SUFFICES ASSUME NEW i \in Slots
               PROVE  occupied'[i] <=> Dist(Next1(head), i) < Count - 1
    OBVIOUS
  <2>1. occupied[i] <=> Dist(head, i) < Count
    BY <1>w, <1>n DEF Window
  <2>2. occupied'[i] <=> (occupied[i] /\ i # head)
    BY <1>u, <1>r
  <2>3. CASE i = head
    BY <2>2, <2>3, <1>0, <1>z
  <2>4. CASE i # head
    BY <2>1, <2>2, <2>4, <1>2, <1>z
  <2> QED BY <2>3, <2>4
<1>5. IsFiniteSet(FlagSlots') /\ Cardinality(FlagSlots') = Count - 1
  <2>1. FlagSlots' = FlagSlots \ {head} /\ head \in FlagSlots
    BY <1>u, <1>r, <1>w DEF FlagSlots
  <2>2. IsFiniteSet(FlagSlots) /\ Cardinality(FlagSlots) = Count
    BY <1>w DEF Window
  <2>3. /\ IsFiniteSet(FlagSlots \ {head})
        /\ Cardinality(FlagSlots \ {head}) = Cardinality(FlagSlots) - 1
    BY <2>1, <2>2, FS_RemoveElement
  <2> QED BY <2>1, <2>2, <2>3
<1>6. Count' \in 0 .. Size /\ Count' # Size
  BY <1>c, <1>1, <1>z
<1> QED BY <1>1, <1>3, <1>4, <1>5, <1>6, <1>c, <1>n DEF Window

\* The index follows the element; the counter goes with it.
LEMMA AdvanceKeeps ==
  ASSUME Counting
  PROVE  /\ AdvanceTail /\ sent' = sent + 1 /\ received' = received => Window'
         /\ AdvanceHead /\ received' = received + 1 /\ sent' = sent => Window'
<1>1. ASSUME AdvanceTail, sent' = sent + 1, received' = received PROVE Window'
  <2>1. PNext' = PNext /\ Sent' = Sent
    BY <1>1 DEF AdvanceTail, PNext, Sent
  <2>2. CNext' = CNext /\ Received' = Received /\ occupied' = occupied
    BY <1>1 DEF AdvanceTail, consumer, choice, CNext, Received, After
  <2> QED BY <2>1, <2>2, WindowKept DEF Counting
<1>2. ASSUME AdvanceHead, received' = received + 1, sent' = sent PROVE Window'
  <2>1. CNext' = CNext /\ Received' = Received
    BY <1>2 DEF AdvanceHead, CNext, Received
  <2>2. PNext' = PNext /\ Sent' = Sent /\ occupied' = occupied
    BY <1>2 DEF AdvanceHead, producer, choice, PNext, Sent, After
  <2> QED BY <2>1, <2>2, WindowKept DEF Counting
<1> QED BY <1>1, <1>2

\* Everything else leaves the window alone.
LEMMA OthersKeep ==
  ASSUME Counting, UNCHANGED <<class, tail, head, occupied, sent, received>>,
         pPc' = pPc \/ (pPc # "advance" /\ pPc' # "advance"),
         cPc' = cPc \/ (cPc # "advance" /\ cPc' # "advance")
  PROVE  Window'
<1>1. PNext' = PNext /\ Sent' = Sent
  BY DEF PNext, Sent, After
<1>2. CNext' = CNext /\ Received' = Received
  BY DEF CNext, Received, After
<1> QED BY <1>1, <1>2, WindowKept DEF Counting

LEMMA SendCounting ==
  ASSUME Counting, Invariant', Send
  PROVE  Window' /\ Counted'
<1>1. Counted'
  BY DEF Counting, Counted, Send
<1>2. Window'
  <2>1. received' = received
    BY DEF Send
  <2>2. CASE SetFlag
    <3>1. sent' = sent
      BY <2>2 DEF Send, SetFlag
    <3> QED BY <2>1, <2>2, <3>1, SetFlagWindow
  <2>3. CASE AdvanceTail
    <3>1. sent' = sent + 1
      BY <2>3 DEF Send, AdvanceTail
    <3> QED BY <2>1, <2>3, <3>1, AdvanceKeeps
  <2>4. CASE Enqueue \/ Construct \/ Throw
    <3>1. /\ UNCHANGED <<class, tail, head, occupied, sent>>
          /\ pPc # "advance" /\ pPc' # "advance" /\ cPc' = cPc
      BY <2>4 DEF Send, Enqueue, Construct, Throw, choice, consumer
    <3> QED BY <2>1, <3>1, OthersKeep
  <2> QED BY <2>2, <2>3, <2>4 DEF Send, ProducerStep
<1> QED BY <1>1, <1>2

LEMMA ReceiveCounting ==
  ASSUME Counting, Invariant', Receive
  PROVE  Window' /\ Counted'
<1>1. Counted'
  BY DEF Counting, Counted, Receive
<1>2. Window'
  <2>1. sent' = sent
    BY DEF Receive
  <2>2. CASE ClearFlag
    <3>1. received' = received
      BY <2>2 DEF Receive, ClearFlag
    <3> QED BY <2>1, <2>2, <3>1, ClearFlagWindow
  <2>3. CASE AdvanceHead
    <3>1. received' = received + 1
      BY <2>3 DEF Receive, AdvanceHead
    <3> QED BY <2>1, <2>3, <3>1, AdvanceKeeps
  <2>4. CASE Dequeue \/ Take \/ Decline
    <3>1. /\ UNCHANGED <<class, tail, head, occupied, received>>
          /\ cPc # "advance" /\ cPc' # "advance" /\ pPc' = pPc
      BY <2>4 DEF Receive, Dequeue, Take, Decline, choice, producer
    <3> QED BY <2>1, <3>1, OthersKeep
  <2> QED BY <2>2, <2>3, <2>4 DEF Receive, ConsumerStep
<1> QED BY <1>1, <1>2

\* Nothing is set in a new queue.
NewQueue == /\ tail = 0 /\ head = 0 /\ sent = 0 /\ received = 0
            /\ pPc = "idle" /\ cPc = "idle"
            /\ occupied = [i \in Slots |-> FALSE]

LEMMA EmptyWindow == NewQueue => Window
<1> SUFFICES ASSUME NewQueue PROVE Window
  OBVIOUS
<1> USE DEF NewQueue
<1>1. 0 \in Slots /\ Size \in Nat /\ Size >= 1
  BY SizeAssumption DEF Slots
<1>2. PNext = 0 /\ CNext = 0 /\ Count = 0
  BY DEF PNext, CNext, Count, Sent, Received
<1>3. FlagSlots = {}
  BY DEF FlagSlots
<1>4. Dist(0, 0) = 0
  BY <1>1, DistBasics
<1>5. \A i \in Slots : Dist(0, i) \in Nat
  BY <1>1, DistBasics
<1>6. IsFiniteSet({}) /\ Cardinality({}) = 0
  BY FS_EmptySet
<1> QED BY <1>1, <1>2, <1>3, <1>4, <1>5, <1>6 DEF Window

LEMMA CreateCounting ==
  ASSUME Counting, Create
  PROVE  Window' /\ Counted'
<1>1. /\ sent' = 0 /\ received' = 0 /\ pPc' = "idle" /\ cPc' = "idle"
      /\ pPc = "idle" /\ cPc = "idle"
  BY DEF Create, CreateQueue, Counting, Counted, Invariant, Phases, InCalls
<1>2. tail' = 0 /\ head' = 0 /\ occupied' = [i \in Slots |-> FALSE]
  BY DEF Create, Fresh
<1>3. Window'
  <2>1. NewQueue'
    BY <1>1, <1>2 DEF NewQueue
  <2> QED BY <2>1, EmptyWindow, PTL
<1>4. Counted'
  BY <1>1 DEF Create, CreateQueue, Counting, Counted, Invariant, Phases
<1> QED BY <1>3, <1>4

LEMMA StageCounting ==
  ASSUME Counting, UNCHANGED queueVars,
         \/ ProducerDone \/ ConsumerDone \/ AwaitQueue \/ StartBarrier
         \/ FinishBarrier \/ CheckEmpty \/ DeleteQueue \/ ResetPointer
  PROVE  Window' /\ Counted'
<1>1. UNCHANGED <<sent, received>>
  BY DEF ProducerDone, ConsumerDone, AwaitQueue, StartBarrier, FinishBarrier,
         CheckEmpty, DeleteQueue, ResetPointer
<1>2. Window'
  BY <1>1, OthersKeep DEF queueVars
<1>3. Counted'
  BY <1>1 DEF Counting, Counted, ProducerDone, ConsumerDone, AwaitQueue, StartBarrier,
              FinishBarrier, CheckEmpty, DeleteQueue, ResetPointer, Phases, Invariant
<1> QED BY <1>2, <1>3

\* Both counters start over, from the same number.
LEMMA RepeatCounting ==
  ASSUME Counting, Repeat, UNCHANGED queueVars
  PROVE  Window' /\ Counted'
<1>1. sent' = 0 /\ received' = 0 /\ pStage' = "create" /\ cStage' = "wait"
  BY DEF Repeat
<1>2. sent = Total /\ received = Total /\ pPc = "idle" /\ cPc = "idle"
  BY DEF Repeat, Counting, Counted, Invariant, InCalls
<1>3. pPc' = "idle" /\ cPc' = "idle"
  BY <1>2 DEF queueVars
<1>4. Count = 0 /\ Count' = 0
  BY <1>1, <1>2, <1>3, TotalAssumption DEF Count, Sent, Received
<1>5. PNext' = PNext /\ CNext' = CNext /\ occupied' = occupied /\ FlagSlots' = FlagSlots
  BY <1>2, <1>3 DEF queueVars, PNext, CNext, FlagSlots
<1>6. Window'
  BY <1>4, <1>5 DEF Counting, Window
<1> QED BY <1>1, <1>6 DEF Counted

LEMMA InitCounting == Init => Counting
<1> SUFFICES ASSUME Init PROVE Counting
  OBVIOUS
<1>1. Invariant
  BY InitInvariant
<1>2. Window
  BY EmptyWindow DEF Init, QueueInit, HarnessInit, NewQueue
<1>3. Counted
  BY DEF Init, HarnessInit, Counted
<1> QED BY <1>1, <1>2, <1>3 DEF Counting

LEMMA NextCounting ==
  ASSUME Counting, [Next]_vars
  PROVE  Counting'
<1>0. Invariant'
  BY NextInvariant DEF Counting
<1>1. CASE Thread0
  BY <1>0, <1>1, CreateCounting, SendCounting, StageCounting DEF Thread0, Counting
<1>2. CASE Thread1
  BY <1>0, <1>2, ReceiveCounting, StageCounting DEF Thread1, Counting
<1>3. CASE Library
  BY <1>0, <1>3, StageCounting, RepeatCounting DEF Library, Counting
<1>4. CASE Visible
  <2>1. /\ UNCHANGED <<class, tail, head, occupied, pPc, cPc>>
        /\ UNCHANGED <<pStage, cStage, sent, received>>
    BY <1>4 DEF Visible, Propagate, choice, producer, consumer, harnessVars
  <2>2. Window' /\ Counted'
    BY <2>1, OthersKeep DEF Counting, Counted
  <2> QED BY <1>0, <2>2 DEF Counting
<1>5. CASE UNCHANGED vars
  <2>1. /\ UNCHANGED <<class, tail, head, occupied, pPc, cPc>>
        /\ UNCHANGED <<pStage, cStage, sent, received>>
    BY <1>5 DEF vars, queueVars, harnessVars
  <2>2. Window' /\ Counted'
    BY <2>1, OthersKeep DEF Counting, Counted
  <2> QED BY <1>0, <2>2 DEF Counting
<1> QED BY <1>1, <1>2, <1>3, <1>4, <1>5 DEF Next

\* As many flags are set as elements were sent and not received, and where the
\* indices say.
THEOREM CountingHolds == Spec => []Counting
<1>1. Init => Counting
  BY InitCounting
<1>2. Counting /\ [Next]_vars => Counting'
  BY NextCounting
<1> QED BY <1>1, <1>2, PTL DEF Spec

\* When the benchmark looks, its queue is empty: no flag is set, seen or not,
\* and both threads counted the same elements.
THEOREM NothingLeftAfterTest == Spec => []EmptyAfterTest
<1>1. ASSUME Counting, cStage \in {"check", "delete"}
      PROVE  IsEmpty /\ Waiting = 0 /\ sent = received
  <2>1. pStage = "done" /\ pPc = "idle" /\ cPc = "idle"
    BY <1>1 DEF Counting, Invariant, TypeOK, HarnessTypeOK, Phases, InCalls
  <2>2. sent = Total /\ received = Total
    BY <1>1, <2>1 DEF Counting, Counted
  <2>3. Count = 0
    BY <2>1, <2>2, TotalAssumption DEF Count, Sent, Received
  <2>4. FlagSlots = {i \in Slots : occupied[i]} /\ Cardinality(FlagSlots) = 0
    BY <1>1, <2>3 DEF Counting, Window, FlagSlots
  <2>5. Waiting = 0
    BY <2>1, <2>4 DEF Waiting
  <2>6. FlagSlots = {}
    BY <1>1, <2>4, FS_EmptySet DEF Counting, Window
  <2>7. ~cSeen[head]
    BY <1>1, <2>6 DEF Counting, Invariant, TypeOK, QueueTypeOK, Flags, FlagSlots
  <2> QED BY <2>2, <2>5, <2>7 DEF IsEmpty
<1>2. Counting => EmptyAfterTest
  BY <1>1 DEF EmptyAfterTest
<1> QED BY <1>2, CountingHolds, PTL

-----------------------------------------------------------------------------
(* The queue is a first-in first-out queue: Content as a sequence.         *)

\* The slot of the element with number i.
SlotOf(i) == (First + (i - 1)) % Size

\* What waits are the set flags, but the one whose element was handed over.
Front ==
  /\ First \in Slots
  /\ Waiting \in Nat /\ Waiting <= Size
  /\ Waiting = Count - (IF cPc = "clear" THEN 1 ELSE 0)
  /\ \A i \in Slots : Dist(First, i) < Waiting =>
       occupied[i] /\ (cPc = "clear" => i # head)

LEMMA FrontHolds == Counting => Front
<1> SUFFICES ASSUME Counting PROVE Front
  OBVIOUS
<1>r. /\ head \in Slots /\ After(head) = Next1(head) /\ Next1(head) \in Slots
  BY CountingRanges DEF Counting
<1>w. /\ Count \in Nat /\ Count <= Size /\ Size \in Nat
      /\ \A i \in Slots : occupied[i] <=> Dist(CNext, i) < Count
  BY SizeAssumption DEF Counting, Window
<1>1. Waiting = Count - (IF cPc = "clear" THEN 1 ELSE 0)
  <2>1. FlagSlots = {i \in Slots : occupied[i]} /\ Cardinality(FlagSlots) = Count
    BY DEF Counting, Window, FlagSlots
  <2> QED BY <2>1 DEF Waiting
<1>2. CASE cPc = "clear"
  <2>1. First = Next1(head) /\ CNext = head /\ occupied[head]
    BY <1>2, <1>r DEF First, CNext, Counting, Invariant, Flags
  <2>2. Dist(head, head) = 0 /\ Dist(Next1(head), head) = Size - 1
    BY <1>r, DistBasics, StepAway
  <2>3. Count > 0
    BY <2>1, <2>2, <1>r, <1>w
  <2>4. Waiting = Count - 1
    BY <1>1, <1>2
  <2>5. ASSUME NEW i \in Slots, Dist(First, i) < Waiting
        PROVE  occupied[i] /\ i # head
    <3>1. i # head
      BY <2>1, <2>2, <2>4, <2>5, <1>w
    <3>2. Dist(head, i) \in Nat /\ Dist(head, i) # Dist(head, head)
      BY <3>1, <1>r, DistBasics
    <3>3. Dist(head, i) > 0
      BY <3>2, <2>2
    <3>4. Dist(First, i) = Dist(head, i) - 1
      BY <3>3, <2>1, <1>r, StepTowards
    <3>5. Dist(head, i) < Count
      BY <3>2, <3>4, <2>4, <2>5, <1>w
    <3> QED BY <3>1, <3>5, <2>1, <1>w
  <2> QED BY <1>1, <2>1, <2>3, <2>4, <2>5, <1>r, <1>w DEF Front
<1>3. CASE cPc # "clear"
  <2>1. First = CNext /\ First \in Slots
    BY <1>3, <1>r DEF First, CNext
  <2> QED BY <1>1, <1>3, <2>1, <1>w DEF Front
<1> QED BY <1>2, <1>3

\* Its slot holds what was put there.
LEMMA SlotOfFull ==
  ASSUME Counting, NEW i \in 1 .. Waiting
  PROVE  /\ SlotOf(i) \in Slots /\ Dist(First, SlotOf(i)) = i - 1
         /\ occupied[SlotOf(i)] /\ (cPc = "clear" => SlotOf(i) # head)
         /\ buffer[SlotOf(i)] \in Elem
<1>f. Front
  BY FrontHolds
<1>k. i - 1 \in Nat /\ i - 1 < Size /\ i - 1 < Waiting
  BY <1>f, SizeAssumption DEF Front
<1>1. SlotOf(i) \in Slots /\ Dist(First, SlotOf(i)) = i - 1
  BY <1>f, <1>k, StepsOn DEF Front, SlotOf
<1>2. occupied[SlotOf(i)] /\ (cPc = "clear" => SlotOf(i) # head)
  BY <1>f, <1>k, <1>1 DEF Front
<1>3. buffer[SlotOf(i)] # Raw
  BY <1>1, <1>2 DEF Counting, Invariant, Flags
<1>4. buffer[SlotOf(i)] \in Elem
  BY <1>1, <1>3 DEF Counting, Invariant, TypeOK, QueueTypeOK, Value
<1> QED BY <1>1, <1>2, <1>4

\* A sequence of elements, never longer than Size.
ContentFine ==
  /\ Content \in Seq(Elem)
  /\ Len(Content) = Waiting /\ Len(Content) \in Nat /\ Len(Content) <= Size
  /\ \A i \in 1 .. Len(Content) : Content[i] = buffer[SlotOf(i)]

LEMMA ContentIsSeq == Counting => ContentFine
<1> SUFFICES ASSUME Counting PROVE ContentFine
  OBVIOUS
<1>1. Content = [i \in 1 .. Waiting |-> buffer[SlotOf(i)]]
  BY DEF Content, SlotOf
<1>2. Content \in [1 .. Waiting -> Elem]
  BY <1>1, SlotOfFull
<1>3. Waiting \in Nat /\ Waiting <= Size
  BY FrontHolds DEF Front
<1>4. Content \in Seq(Elem) /\ Len(Content) = Waiting
  BY <1>2, <1>3
<1> QED BY <1>1, <1>3, <1>4 DEF ContentFine

\* A step that moves neither end and writes no slot between them.
LEMMA ContentStays ==
  ASSUME Counting, First' = First, Waiting' = Waiting,
         \A i \in 1 .. Waiting : buffer'[SlotOf(i)] = buffer[SlotOf(i)]
  PROVE  Content' = Content
<1>1. Content = [i \in 1 .. Waiting |-> buffer[SlotOf(i)]]
  BY DEF Content, SlotOf
<1>2. Content' = [i \in 1 .. Waiting |-> buffer'[SlotOf(i)]]
  BY DEF Content, SlotOf
<1> QED BY <1>1, <1>2

-----------------------------------------------------------------------------
(* The two steps that change it.                                           *)

\* The flag makes the element the last of those that wait.
LEMMA SetFlagEnqueues ==
  ASSUME Counting, Counting', SetFlag, UNCHANGED <<sent, received>>
  PROVE  Fifo!Enqueue
<1>c. ContentFine /\ ContentFine'
  BY ContentIsSeq, PTL
<1>f. Front /\ Front'
  BY FrontHolds, PTL
<1>u. /\ class' = class /\ head' = head /\ cPc' = cPc /\ out' = out
  BY DEF SetFlag, choice, consumer
<1>1. First' = First
  BY <1>u DEF First, After
<1>2. Count' = Count + 1
  BY SetFlagWindow DEF Counting
<1>3. Waiting' = Waiting + 1
  BY <1>2, <1>f, <1>u DEF Front, Counting, Window
<1>4. Len(Content') = Len(Content) + 1
  BY <1>3, <1>c DEF ContentFine
<1>5. \A i \in 1 .. Len(Content) : Content'[i] = Content[i]
  <2> SUFFICES ASSUME NEW i \in 1 .. Len(Content)
               PROVE  Content'[i] = Content[i]
    OBVIOUS
  <2>1. i \in 1 .. Waiting /\ i \in 1 .. Len(Content')
    BY <1>4, <1>c DEF ContentFine
  <2>2. Content'[i] = buffer'[SlotOf(i)'] /\ Content[i] = buffer[SlotOf(i)]
    BY <2>1, <1>c DEF ContentFine
  <2>3. SlotOf(i)' = SlotOf(i)
    BY <1>1 DEF SlotOf
  <2>4. SlotOf(i) \in Slots /\ SlotOf(i) # tail
    <3>1. SlotOf(i) \in Slots /\ occupied[SlotOf(i)]
      BY <2>1, SlotOfFull
    <3> QED BY <3>1 DEF SetFlag, Counting, Invariant, Flags
  <2>5. buffer'[SlotOf(i)] = buffer[SlotOf(i)]
    BY <2>4 DEF SetFlag, Counting, Invariant, TypeOK, QueueTypeOK
  <2> QED BY <2>2, <2>3, <2>5
<1>6. Content' \in Seq(Elem) /\ Content \in Seq(Elem) /\ Len(Content) \in Nat
  BY <1>c DEF ContentFine
<1>7. SubSeq(Content', 1, Len(Content)) = Content
  <2>1. \A i \in 1 .. Len(Content) : Content'[i] \in Elem
    BY <1>5, <1>6, ElementOfSeq
  <2>2. /\ SubSeq(Content', 1, Len(Content)) \in Seq(Elem)
        /\ Len(SubSeq(Content', 1, Len(Content))) = Len(Content)
        /\ \A i \in 1 .. Len(Content) :
             SubSeq(Content', 1, Len(Content))[i] = Content'[i]
    BY <1>6, <2>1, SubSeqProperties
  <2> QED BY <1>5, <1>6, <2>2, SeqEqual
<1>8. Len(Content') \in Len(Content) .. Size
  BY <1>4, <1>6, <1>c, SizeAssumption DEF ContentFine
<1> QED BY <1>6, <1>7, <1>8, <1>u DEF Fifo!Enqueue

\* The element that is handed over is the first, and waits no longer.
LEMMA TakeDequeues ==
  ASSUME Counting, Counting', Take, UNCHANGED <<sent, received>>
  PROVE  Fifo!Dequeue
<1>c. ContentFine /\ ContentFine'
  BY ContentIsSeq, PTL
<1>f. Front /\ Front'
  BY FrontHolds, PTL
<1>r. head \in Slots /\ After(head) = Next1(head) /\ occupied[head]
  BY CountingRanges DEF Counting, Invariant, Flags, Take
<1>u. /\ class' = class /\ head' = head /\ occupied' = occupied
      /\ cPc = "take" /\ cPc' = "clear" /\ out' = buffer[head]
      /\ pPc' = pPc /\ tail' = tail
  BY DEF Take, choice, producer
<1>1. First = head /\ First' = Next1(head)
  BY <1>u, <1>r DEF First, After
<1>2. Count' = Count /\ Count \in Nat /\ Count > 0
  <2>1. Count' = Count
    BY <1>u DEF Count, Sent, Received
  <2>2. CNext = head /\ Dist(head, head) = 0
    BY <1>u, <1>r, DistBasics DEF CNext
  <2>3. Count \in Nat /\ Count > 0
    BY <2>2, <1>r DEF Counting, Window
  <2> QED BY <2>1, <2>3
<1>3. Waiting' = Waiting - 1 /\ Waiting > 0
  BY <1>2, <1>f, <1>u DEF Front
<1>4. /\ Content \in Seq(Elem) /\ Content' \in Seq(Elem) /\ Content # <<>>
      /\ Len(Content) = Waiting /\ Len(Content') = Len(Content) - 1
      /\ Waiting \in Nat /\ Waiting <= Size
  BY <1>3, <1>c, EmptySeq DEF ContentFine
<1>5. out' = Head(Content)
  <2>1. 1 \in 1 .. Len(Content)
    BY <1>3, <1>4
  <2>2. SlotOf(1) = head
    BY <1>1, <1>r, ModBelow DEF SlotOf, Slots
  <2>3. Content[1] = buffer[head]
    BY <2>1, <2>2, <1>c DEF ContentFine
  <2> QED BY <1>4, <1>u, <2>3
<1>6. \A i \in 1 .. Len(Content) - 1 : Content'[i] = Content[i + 1]
  <2> SUFFICES ASSUME NEW i \in 1 .. Len(Content) - 1
               PROVE  Content'[i] = Content[i + 1]
    OBVIOUS
  <2>i. /\ i \in 1 .. Len(Content') /\ i + 1 \in 1 .. Waiting
        /\ i - 1 \in Nat /\ (i - 1) + 1 < Size /\ (i - 1) + 1 = i /\ i # 0
        /\ (i + 1) - 1 = i
    BY <1>4, SizeAssumption
  <2>1. Content'[i] = buffer'[SlotOf(i)']
    BY <2>i, <1>c DEF ContentFine
  <2>2. SlotOf(i)' = SlotOf(i + 1)
    <3>1. (Next1(head) + (i - 1)) % Size = (head + ((i - 1) + 1)) % Size
      BY <1>r, <2>i, StepsFromNext
    <3> QED BY <1>1, <3>1, <2>i, Zenon DEF SlotOf
  <2>3. SlotOf(i + 1) # head /\ SlotOf(i + 1) \in Slots
    <3>1. Dist(head, SlotOf(i + 1)) = i /\ SlotOf(i + 1) \in Slots
      BY <2>i, <1>1, SlotOfFull
    <3>2. Dist(head, head) = 0
      BY <1>r, DistBasics
    <3> QED BY <3>1, <3>2, <2>i
  <2>4. buffer'[SlotOf(i + 1)] = buffer[SlotOf(i + 1)]
    BY <2>3 DEF Take, Counting, Invariant, TypeOK, QueueTypeOK
  <2>5. Content[i + 1] = buffer[SlotOf(i + 1)]
    BY <2>i, <1>4, <1>c DEF ContentFine
  <2> QED BY <2>1, <2>2, <2>4, <2>5
<1>7. Content' = Tail(Content)
  <2>1. /\ Tail(Content) \in Seq(Elem) /\ Len(Tail(Content)) = Len(Content) - 1
        /\ \A i \in 1 .. Len(Tail(Content)) : Tail(Content)[i] = Content[i + 1]
    BY <1>4, HeadTailProperties
  <2> QED BY <1>4, <1>6, <2>1, SeqEqual
<1> QED BY <1>4, <1>5, <1>7 DEF Fifo!Dequeue

-----------------------------------------------------------------------------
(* The refinement.                                                         *)

\* The buffer may change where nothing waits, and an index move on behind the
\* element it gave up.
LEMMA ContentKept ==
  ASSUME Counting, Counting', out' = out, First' = First, Waiting' = Waiting,
         \A i \in Slots : occupied[i] /\ (cPc = "clear" => i # head)
                            => buffer'[i] = buffer[i]
  PROVE  UNCHANGED Fifo!vars
<1>1. \A i \in 1 .. Waiting : buffer'[SlotOf(i)] = buffer[SlotOf(i)]
  BY SlotOfFull
<1>2. Content' = Content
  BY <1>1, ContentStays
<1> QED BY <1>2 DEF Fifo!vars

LEMMA SendRefines ==
  ASSUME Counting, Counting', Send
  PROVE  [Fifo!Next]_Fifo!vars
<1>t. /\ tail \in Slots /\ buffer \in [Slots -> Value]
      /\ pPc \in {"fill", "set"} => ~occupied[tail]
  BY DEF Counting, Invariant, TypeOK, QueueTypeOK, Flags
<1>r. received' = received
  BY DEF Send
<1>1. CASE SetFlag
  <2>1. sent' = sent
    BY <1>1 DEF Send, SetFlag
  <2> QED BY <1>r, <1>1, <2>1, SetFlagEnqueues DEF Fifo!Next
<1>2. CASE Enqueue \/ Construct \/ Throw \/ AdvanceTail
  <2>1. UNCHANGED <<class, head, occupied, cPc, out>>
    BY <1>2 DEF Enqueue, Construct, Throw, AdvanceTail, choice, consumer
  <2>2. First' = First /\ Waiting' = Waiting
    BY <2>1 DEF First, Waiting, After
  <2>3. \A i \in Slots : occupied[i] => buffer'[i] = buffer[i]
    <3>1. CASE Construct
      <4>1. PICK e \in Elem : buffer' = [buffer EXCEPT ![tail] = e]
        BY <3>1 DEF Construct
      <4> QED BY <4>1, <3>1, <1>t DEF Construct
    <3>2. CASE Enqueue \/ Throw \/ AdvanceTail
      BY <3>2 DEF Enqueue, Throw, AdvanceTail
    <3> QED BY <1>2, <3>1, <3>2
  <2> QED BY <2>1, <2>2, <2>3, ContentKept
<1> QED BY <1>1, <1>2 DEF Send, ProducerStep

LEMMA ReceiveRefines ==
  ASSUME Counting, Counting', Receive
  PROVE  [Fifo!Next]_Fifo!vars
<1>t. head \in Slots /\ buffer \in [Slots -> Value]
  BY DEF Counting, Invariant, TypeOK, QueueTypeOK
<1>s. sent' = sent
  BY DEF Receive
<1>f. Front /\ Front'
  BY FrontHolds, PTL
<1>1. CASE Take
  <2>1. received' = received
    BY <1>1 DEF Receive, Take
  <2> QED BY <1>s, <1>1, <2>1, TakeDequeues DEF Fifo!Next
<1>2. CASE ClearFlag
  <2>1. received' = received
    BY <1>2 DEF Receive, ClearFlag
  <2>2. Count' = Count - 1
    BY <1>2, <1>s, <2>1, ClearFlagWindow DEF Counting
  <2>3. Waiting' = Waiting
    BY <1>2, <1>f, <2>2 DEF ClearFlag, Front
  <2>4. First' = First /\ out' = out
    BY <1>2 DEF ClearFlag, choice, First, After
  <2>5. \A i \in Slots : i # head => buffer'[i] = buffer[i]
    BY <1>2, <1>t DEF ClearFlag
  <2>6. cPc = "clear"
    BY <1>2 DEF ClearFlag
  <2> QED BY <2>3, <2>4, <2>5, <2>6, ContentKept
<1>3. CASE Dequeue \/ Decline \/ AdvanceHead
  <2>1. /\ UNCHANGED <<class, occupied, buffer, out>>
        /\ cPc # "clear" /\ cPc' # "clear"
    BY <1>3 DEF Dequeue, Decline, AdvanceHead, choice, producer
  <2>2. First' = First
    BY <1>3, <2>1 DEF Dequeue, Decline, AdvanceHead, First, After
  <2>3. Waiting' = Waiting
    BY <2>1 DEF Waiting
  <2> QED BY <2>1, <2>2, <2>3, ContentKept
<1> QED BY <1>1, <1>2, <1>3 DEF Receive, ConsumerStep

\* A new queue is as empty as the one before was in the end.
LEMMA CreateRefines ==
  ASSUME Counting, Counting', Create
  PROVE  UNCHANGED Fifo!vars
<1>1. Front /\ Front'
  BY FrontHolds, PTL
<1>2. sent = 0 /\ received = 0 /\ pPc = "idle" /\ cPc = "idle"
  BY DEF Create, CreateQueue, Counting, Counted, Invariant, Phases, InCalls
<1>3. UNCHANGED <<sent, received, pPc, cPc, out>>
  BY DEF Create, CreateQueue
<1>4. Waiting = 0 /\ Waiting' = 0
  <2>1. Count = 0 /\ Count' = 0
    BY <1>2, <1>3 DEF Count, Sent, Received
  <2> QED BY <2>1, <1>1, <1>2, <1>3 DEF Front
<1>5. Content' = Content
  BY <1>4 DEF Content
<1> QED BY <1>3, <1>5 DEF Fifo!vars

\* Every step is a step of the sequence, or leaves it alone.
LEMMA NextRefines ==
  ASSUME Counting, Counting', [Next]_vars
  PROVE  [Fifo!Next]_Fifo!vars
<1>1. CASE Create
  BY <1>1, CreateRefines
<1>2. CASE Send
  BY <1>2, SendRefines
<1>3. CASE Receive
  BY <1>3, ReceiveRefines
<1>4. CASE UNCHANGED <<class, head, cPc, out, occupied, buffer>>
  <2>1. First' = First /\ Waiting' = Waiting
    BY <1>4 DEF First, Waiting, After
  <2> QED BY <1>4, <2>1, ContentKept
<1>5. CASE Visible
  BY <1>4, <1>5 DEF Visible, Propagate, choice, consumer
<1>6. CASE UNCHANGED queueVars
  BY <1>4, <1>6 DEF queueVars
<1> QED BY <1>1, <1>2, <1>3, <1>5, <1>6
        DEF Next, Thread0, Thread1, Library, vars

\* Of every class and at every size, the queue passes its elements on as a
\* bounded first-in first-out sequence does, and uses every slot: none lost,
\* repeated or reordered, though no index is shared.
THEOREM ImplementsFifo == Spec => FifoSpec
<1>1. Init => Fifo!Init
  <2> SUFFICES ASSUME Init PROVE Fifo!Init
    OBVIOUS
  <2>1. ContentFine
    BY InitCounting, ContentIsSeq
  <2> QED BY <2>1 DEF ContentFine, Fifo!Init, Fifo!TypeOK
<1>2. Counting /\ Counting' /\ [Next]_vars => [Fifo!Next]_Fifo!vars
  BY NextRefines
<1> QED BY <1>1, <1>2, CountingHolds, PTL DEF Spec, FifoSpec, Fifo!Spec
=============================================================================
