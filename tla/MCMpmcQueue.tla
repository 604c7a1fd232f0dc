---------------------------- MODULE MCMpmcQueue ----------------------------
(* Instances of MpmcQueue for TLC. *)
EXTENDS MpmcQueue

Client(allocating, freeing) == [allocators |-> allocating, freers |-> freeing]

\* Any threads allocate and none frees, or one allocates and all free.
SafeClients == {Client(A, {}) : A \in SUBSET Threads}
               \cup {Client({t}, Threads) : t \in Threads}

\* Every thread allocates and frees.
FreeingClients == {Client(Threads, Threads)}
=============================================================================
