---------------------------- MODULE FlagQueueTest ----------------------------
(* The flag queues under the benchmark's two threads.                      *)
EXTENDS FlagQueue, Harness

vars == <<queueVars, harnessVars>>

Init == QueueInit /\ HarnessInit

\* Thread 0 calls Enqueue until Total calls have returned 1; a call counts
\* once it has moved the index on.
Send ==
  /\ pStage = "loop" /\ (pPc # "idle" \/ sent < Total)
  /\ ProducerStep
  /\ sent' = IF pPc = "advance" THEN sent + 1 ELSE sent
  /\ UNCHANGED <<repetition, queuePtr, object, pStage, cStage, received>>

\* Thread 1 calls Dequeue until Total calls have returned 1.
Receive ==
  /\ cStage = "loop" /\ (cPc # "idle" \/ received < Total)
  /\ ConsumerStep
  /\ received' = IF cPc = "advance" THEN received + 1 ELSE received
  /\ UNCHANGED <<repetition, queuePtr, object, pStage, cStage, sent>>

Create == CreateQueue /\ Fresh /\ UNCHANGED <<choice, pPc, cPc, out>>

Thread0 == Create \/ Send \/ (ProducerDone /\ UNCHANGED queueVars)

Thread1 == \/ Receive
           \/ /\ AwaitQueue \/ ConsumerDone \/ CheckEmpty \/ DeleteQueue \/ ResetPointer
              /\ UNCHANGED queueVars

Library == (StartBarrier \/ FinishBarrier \/ Repeat) /\ UNCHANGED queueVars

Visible == \E i \in Slots : Propagate(i) /\ UNCHANGED harnessVars

Next == Thread0 \/ Thread1 \/ Library \/ Visible

Spec == Init /\ [][Next]_vars

\* The threads run, the library does its part, and a store becomes visible in
\* finite time.
FairSpec == /\ Spec
            /\ WF_vars(Thread0) /\ WF_vars(Thread1)
            /\ WF_vars(Library) /\ WF_vars(Visible)

-----------------------------------------------------------------------------
\* TypeOK: every variable stays within its range; no index leaves the buffer
\* and no thread passes more than Total elements.
TypeOK == QueueTypeOK /\ HarnessTypeOK

\* Where the two threads can be at the same time, and what they have then.
Phases ==
  /\ pStage = "create" => cStage = "wait" /\ ~queuePtr
  /\ pStage = "start" => cStage \in {"wait", "start"} /\ object = "alive"
  /\ pStage \in {"loop", "finish"} => cStage \in {"loop", "finish"} /\ object = "alive"
  /\ pStage = "done" => cStage \in {"check", "delete", "reset", "done"}
  /\ cStage \in {"check", "delete"} => object = "alive"
  /\ cStage = "done" => ~queuePtr

\* A thread is in a call only in its loop, and before its last element.
InCalls ==
  /\ pPc # "idle" => pStage = "loop" /\ sent < Total
  /\ cPc # "idle" => cStage = "loop" /\ received < Total

\* The flags a thread relies on may be late but are never early, and tell
\* which slots hold an object.
Flags ==
  /\ \A i \in Slots : (occupied[i] => pSeen[i]) /\ (cSeen[i] => occupied[i])
  /\ pPc \in {"fill", "set"} => ~occupied[tail]
  /\ cPc \in {"take", "clear"} => occupied[head]
  /\ class.slot = "pointer" => pPc # "fill"
  /\ \A i \in Slots : buffer[i] # Raw <=>
       IF class.slot = "pointer" THEN occupied[i]
       ELSE \/ occupied[i] /\ ~(cPc = "clear" /\ i = head)
            \/ pPc = "set" /\ i = tail

\* The inductive invariant the safety properties below follow from.
Invariant == TypeOK /\ Phases /\ InCalls /\ Flags

\* NoUseAfterDelete: a thread that is in a call, or may make one, has a queue
\* that exists.  The producer's last write is to its own index, when the last
\* element may long be taken: only the barrier keeps it from coming after
\* delete.
NoUseAfterDelete ==
  /\ pPc # "idle" \/ pStage \in {"start", "loop"} => object = "alive"
  /\ cPc # "idle" \/ cStage \in {"start", "loop", "check"} => object = "alive"

\* EmptyAfterTest: "Not Empty after test" is never reported, nothing that was
\* put in is left unseen, and both threads counted the same elements.
EmptyAfterTest ==
  cStage \in {"check", "delete"} => IsEmpty /\ Waiting = 0 /\ sent = received

\* Terminates: where no callback gives up every repetition comes to its end,
\* and the last queue is deleted.
Terminates == steady => <>(Finished /\ object = "deleted" /\ ~queuePtr)
=============================================================================
