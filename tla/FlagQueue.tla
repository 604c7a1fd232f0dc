------------------------------ MODULE FlagQueue ------------------------------
(***************************************************************************)
(* The queues without shared indices: GFFQueue, ce_queue and ce_queue2     *)
(* keep a flag beside each slot, FastForward queues pointers and takes     *)
(* NULL for a free slot.  Each thread has an index of its own, which it    *)
(* moves on only after it has set or cleared the flag, when the other      *)
(* thread may already have answered.                                       *)
(*                                                                         *)
(* The module describes the calls; the threads that make them are those of *)
(* Harness, put together with it in FlagQueueTest.                         *)
(***************************************************************************)
EXTENDS Ring, Sequences, FiniteSets

CONSTANTS
  Elem,      \* what can be queued
  Raw,       \* a slot without a live object, or NULL
  Classes    \* the classes to consider

ASSUME ElemAssumption == Raw \notin Elem

-----------------------------------------------------------------------------
(* The classes: the memory order of the flags, how an index starts over,   *)
(* and what a slot is: a pointer that is its own flag, an object beside a  *)
(* flag, or an object the callback may decline.                            *)

ClassType == [order: {"seq_cst", "acq_rel"}, wrap: {"modulo", "compare"},
              slot: {"pointer", "object", "declinable"}]

ASSUME ClassesAssumption == Classes \subseteq ClassType

Class(order, wrap, slot) == [order |-> order, wrap |-> wrap, slot |-> slot]

FastForward1 == Class("seq_cst", "modulo",  "pointer")
FastForward2 == Class("seq_cst", "compare", "pointer")
FastForward3 == Class("seq_cst", "compare", "pointer")
\* FastForward4 stores NULL relaxed: nothing but the slot itself is handed back.
FastForward4 == Class("acq_rel", "compare", "pointer")
FastForward5 == Class("acq_rel", "compare", "pointer")
FastForward6 == Class("acq_rel", "compare", "pointer")
GFFQueue1 == Class("seq_cst", "modulo",  "object")
GFFQueue2 == Class("seq_cst", "compare", "object")
GFFQueue3 == Class("seq_cst", "compare", "object")
GFFQueue4 == Class("acq_rel", "compare", "object")
GFFQueue5 == Class("acq_rel", "compare", "object")
ce_queue  == Class("acq_rel", "compare", "declinable")
ce_queue2 == Class("acq_rel", "compare", "declinable")

-----------------------------------------------------------------------------
VARIABLES
  class,           \* the class in use
  steady,          \* constructors and callbacks never give up
  tail, head,      \* the producer's and the consumer's own index
  occupied,        \* the flags, each as it was stored last
  pSeen, cSeen,    \* the flags as the producer and the consumer load them
  buffer,          \* slot by slot
  pPc, cPc,        \* the threads' places in their calls
  out              \* the element the consumer was handed last

choice == <<class, steady>>
producer == <<tail, pPc>>
consumer == <<head, cPc, out>>
queueVars == <<class, steady, tail, head, occupied, pSeen, cSeen, buffer,
               pPc, cPc, out>>

Value == Elem \cup {Raw}

After(i) == IF class.wrap = "modulo" THEN (i + 1) % Size
            ELSE IF i + 1 = Size THEN 0 ELSE i + 1

\* A thread sees its own stores at once, the other's at once only if they are
\* sequentially consistent.
SeenByOther(seen, i, value) ==
  IF class.order = "seq_cst" THEN [seen EXCEPT ![i] = value] ELSE seen

\* new type{}: every flag clear, both indices at the first slot.
Fresh == /\ tail' = 0 /\ head' = 0
         /\ occupied' = [i \in Slots |-> FALSE]
         /\ pSeen' = [i \in Slots |-> FALSE] /\ cSeen' = [i \in Slots |-> FALSE]
         /\ buffer' = [i \in Slots |-> Raw]

-----------------------------------------------------------------------------
(* The producer: Enqueue, or emplace.                                      *)

\* Slip: the flag is not looked at.
EnqueueUnchecked ==
  /\ pPc = "idle"
  /\ pPc' = IF class.slot = "pointer" THEN "set" ELSE "fill"
  /\ UNCHANGED <<choice, tail, occupied, pSeen, cSeen, buffer, consumer>>

\* The flag is loaded; a call that finds it set returns and changes nothing.
Enqueue ==
  /\ pPc = "idle" /\ ~pSeen[tail]
  /\ pPc' = IF class.slot = "pointer" THEN "set" ELSE "fill"
  /\ UNCHANGED <<choice, tail, occupied, pSeen, cSeen, buffer, consumer>>

Construct ==
  /\ pPc = "fill"
  /\ \E e \in Elem : buffer' = [buffer EXCEPT ![tail] = e]
  /\ pPc' = "set"
  /\ UNCHANGED <<choice, tail, occupied, pSeen, cSeen, consumer>>

\* The constructor throws.
Throw ==
  /\ ~steady /\ pPc = "fill"
  /\ pPc' = "idle"
  /\ UNCHANGED <<choice, tail, occupied, pSeen, cSeen, buffer, consumer>>

\* The store that hands the slot over, of the flag or of the pointer.
SetFlag ==
  /\ pPc = "set"
  /\ \/ class.slot = "pointer" /\ \E e \in Elem : buffer' = [buffer EXCEPT ![tail] = e]
     \/ class.slot # "pointer" /\ UNCHANGED buffer
  /\ occupied' = [occupied EXCEPT ![tail] = TRUE]
  /\ pSeen' = [pSeen EXCEPT ![tail] = TRUE]
  /\ cSeen' = SeenByOther(cSeen, tail, TRUE)
  /\ pPc' = "advance"
  /\ UNCHANGED <<choice, tail, consumer>>

\* The producer's index is written after the element is already visible.
AdvanceTail ==
  /\ pPc = "advance"
  /\ tail' = After(tail)
  /\ pPc' = "idle"
  /\ UNCHANGED <<choice, occupied, pSeen, cSeen, buffer, consumer>>

-----------------------------------------------------------------------------
(* The consumer: Dequeue, or consume, and is_empty.                        *)

\* The flag is loaded; a call that finds it clear changes nothing.
Dequeue ==
  /\ cPc = "idle" /\ cSeen[head]
  /\ cPc' = "take"
  /\ UNCHANGED <<choice, producer, head, occupied, pSeen, cSeen, buffer, out>>

\* The element is handed over and destroyed; a pointer is only read.
Take ==
  /\ cPc = "take"
  /\ out' = buffer[head]
  /\ buffer' = IF class.slot = "pointer" THEN buffer
               ELSE [buffer EXCEPT ![head] = Raw]
  /\ cPc' = "clear"
  /\ UNCHANGED <<choice, producer, head, occupied, pSeen, cSeen>>

\* Slip: a declined element is given up all the same.
DeclineClears ==
  /\ ~steady /\ class.slot = "declinable" /\ cPc = "take"
  /\ cPc' = "clear"
  /\ UNCHANGED <<choice, producer, head, occupied, pSeen, cSeen, buffer, out>>

\* The callback of consume returns false: the element stays.
Decline ==
  /\ ~steady /\ class.slot = "declinable" /\ cPc = "take"
  /\ cPc' = "idle"
  /\ UNCHANGED <<choice, producer, head, occupied, pSeen, cSeen, buffer, out>>

ClearFlag ==
  /\ cPc = "clear"
  /\ buffer' = [buffer EXCEPT ![head] = Raw]
  /\ occupied' = [occupied EXCEPT ![head] = FALSE]
  /\ cSeen' = [cSeen EXCEPT ![head] = FALSE]
  /\ pSeen' = SeenByOther(pSeen, head, FALSE)
  /\ cPc' = "advance"
  /\ UNCHANGED <<choice, producer, head, out>>

AdvanceHead ==
  /\ cPc = "advance"
  /\ head' = After(head)
  /\ cPc' = "idle"
  /\ UNCHANGED <<choice, producer, occupied, pSeen, cSeen, buffer, out>>

\* is_empty(), by the consumer.
IsEmpty == ~cSeen[head]

-----------------------------------------------------------------------------
\* A flag reaches the other thread; flags of different slots in any order.
Propagate(i) ==
  /\ pSeen[i] # occupied[i] \/ cSeen[i] # occupied[i]
  /\ pSeen' = [pSeen EXCEPT ![i] = occupied[i]]
  /\ cSeen' = [cSeen EXCEPT ![i] = occupied[i]]
  /\ UNCHANGED <<choice, producer, consumer, occupied, buffer>>

QueueInit ==
  /\ class \in Classes /\ steady \in BOOLEAN
  /\ tail = 0 /\ head = 0
  /\ occupied = [i \in Slots |-> FALSE]
  /\ pSeen = occupied /\ cSeen = occupied
  /\ buffer = [i \in Slots |-> Raw]
  /\ pPc = "idle" /\ cPc = "idle" /\ out = Raw

ProducerStep == Enqueue \/ Construct \/ Throw \/ SetFlag \/ AdvanceTail

ConsumerStep == Dequeue \/ Take \/ Decline \/ ClearFlag \/ AdvanceHead

-----------------------------------------------------------------------------
(* Correctness.                                                            *)

QueueTypeOK ==
  /\ class \in Classes /\ steady \in BOOLEAN
  /\ tail \in Slots /\ head \in Slots
  /\ occupied \in [Slots -> BOOLEAN]
  /\ pSeen \in [Slots -> BOOLEAN] /\ cSeen \in [Slots -> BOOLEAN]
  /\ buffer \in [Slots -> Value]
  /\ pPc \in {"idle", "fill", "set", "advance"}
  /\ cPc \in {"idle", "take", "clear", "advance"}
  /\ out \in Value

\* HandedOver: the plain accesses never race.  While the producer builds in a
\* slot its flag is clear and the consumer is not at work there; while the
\* consumer is at work in a slot its flag is set, it holds what the producer
\* left there, and the producer is not at work there.  Neither thread looks at
\* the other's index to know it.
HandedOver ==
  /\ pPc \in {"fill", "set"} =>
       /\ ~occupied[tail] /\ ~cSeen[tail]
       /\ pPc = "fill" => buffer[tail] = Raw
  /\ cPc = "take" => occupied[head] /\ pSeen[head] /\ buffer[head] # Raw
  /\ pPc \in {"fill", "set"} /\ cPc \in {"take", "clear"} => tail # head

\* The slot the consumer takes next, and how many elements wait from there on.
First == IF cPc \in {"clear", "advance"} THEN After(head) ELSE head
Waiting == Cardinality({i \in Slots : occupied[i]})
           - (IF cPc = "clear" THEN 1 ELSE 0)
Content == [i \in 1 .. Waiting |-> buffer[(First + (i - 1)) % Size]]

\* FifoSpec: the queue is a first-in first-out queue of Size elements.
Fifo == INSTANCE BoundedFifo WITH Capacity <- Size, queue <- Content, life <- FALSE

FifoSpec == Fifo!Spec
=============================================================================
