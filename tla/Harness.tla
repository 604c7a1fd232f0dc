------------------------------- MODULE Harness -------------------------------
(***************************************************************************)
(* The benchmark function of LamportQueueTest.cpp, FastForwardTest.cpp,    *)
(* MCRingBufferTest.cpp, GFFQueueTest.cpp and ChunkedQueueTest.cpp, and    *)
(* QueuePushPop, QueueEmplacePop and QueueEmplaceConsume of                *)
(* RingBufferBenchmark.cpp: thread 0 creates a queue and puts Total        *)
(* elements in, thread 1 takes them out and deletes the queue; then the    *)
(* function is run again.  The library that runs it holds both threads at  *)
(* the start and at the end of the measured loop.                          *)
(***************************************************************************)
EXTENDS Integers

CONSTANTS
  Total,        \* elements each thread passes in a repetition
  Repetitions   \* how often the benchmark is run

ASSUME TotalAssumption == Total \in Nat \ {0}
ASSUME RepetitionsAssumption == Repetitions \in Nat \ {0}

VARIABLES
  repetition,      \* the current repetition
  queuePtr,        \* the static pointer to the queue is set
  object,          \* whether there is a queue, and whether it is still there
  pStage, cStage,  \* where thread 0 and thread 1 are
  sent, received   \* elements passed so far

harnessVars == <<repetition, queuePtr, object, pStage, cStage, sent, received>>

HarnessInit ==
  /\ repetition = 1 /\ queuePtr = FALSE /\ object = "none"
  /\ pStage = "create" /\ cStage = "wait" /\ sent = 0 /\ received = 0

\* queue = new type{}
CreateQueue ==
  /\ pStage = "create"
  /\ object' = "alive" /\ queuePtr' = TRUE
  /\ pStage' = "start"
  /\ UNCHANGED <<repetition, cStage, sent, received>>

\* while (queue.load() == nullptr) {}
AwaitQueue ==
  /\ cStage = "wait" /\ queuePtr
  /\ cStage' = "start"
  /\ UNCHANGED <<repetition, queuePtr, object, pStage, sent, received>>

\* for (auto _ : state) begins: the library lets both threads go together.
StartBarrier ==
  /\ pStage = "start" /\ cStage = "start"
  /\ pStage' = "loop" /\ cStage' = "loop"
  /\ UNCHANGED <<repetition, queuePtr, object, sent, received>>

\* A thread's counter has reached zero.
ProducerDone ==
  /\ pStage = "loop" /\ sent = Total
  /\ pStage' = "finish"
  /\ UNCHANGED <<repetition, queuePtr, object, cStage, sent, received>>

ConsumerDone ==
  /\ cStage = "loop" /\ received = Total
  /\ cStage' = "finish"
  /\ UNCHANGED <<repetition, queuePtr, object, pStage, sent, received>>

\* Slip: thread 1 does not wait for thread 0.
FinishBarrierAlone ==
  /\ cStage = "finish" /\ cStage' = "check"
  /\ pStage' = IF pStage = "finish" THEN "done" ELSE pStage
  /\ UNCHANGED <<repetition, queuePtr, object, sent, received>>

\* for (auto _ : state) ends: the library waits for both threads again.
FinishBarrier ==
  /\ pStage = "finish" /\ cStage = "finish"
  /\ pStage' = "done" /\ cStage' = "check"
  /\ UNCHANGED <<repetition, queuePtr, object, sent, received>>

\* The check for emptiness, where there is one; either answer goes on.
CheckEmpty ==
  /\ cStage = "check"
  /\ cStage' = "delete"
  /\ UNCHANGED <<repetition, queuePtr, object, pStage, sent, received>>

\* delete queue
DeleteQueue ==
  /\ cStage = "delete"
  /\ object' = "deleted"
  /\ cStage' = "reset"
  /\ UNCHANGED <<repetition, queuePtr, pStage, sent, received>>

\* Slip: the pointer is left as it is.
ResetPointerForgotten ==
  /\ cStage = "reset"
  /\ cStage' = "done"
  /\ UNCHANGED <<repetition, queuePtr, object, pStage, sent, received>>

\* queue = nullptr
ResetPointer ==
  /\ cStage = "reset"
  /\ queuePtr' = FALSE
  /\ cStage' = "done"
  /\ UNCHANGED <<repetition, object, pStage, sent, received>>

\* The library joins both threads and starts the next repetition.
Repeat ==
  /\ pStage = "done" /\ cStage = "done" /\ repetition < Repetitions
  /\ repetition' = repetition + 1
  /\ pStage' = "create" /\ cStage' = "wait" /\ sent' = 0 /\ received' = 0
  /\ UNCHANGED <<queuePtr, object>>

Finished == pStage = "done" /\ cStage = "done" /\ repetition = Repetitions

HarnessTypeOK ==
  /\ repetition \in 1 .. Repetitions /\ queuePtr \in BOOLEAN
  /\ object \in {"none", "alive", "deleted"}
  /\ pStage \in {"create", "start", "loop", "finish", "done"}
  /\ cStage \in {"wait", "start", "loop", "finish", "check", "delete", "reset", "done"}
  /\ sent \in 0 .. Total /\ received \in 0 .. Total
=============================================================================
