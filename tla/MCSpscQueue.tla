---------------------------- MODULE MCSpscQueue ----------------------------
(* Instances of SpscQueue for TLC. *)
EXTENDS SpscQueue, TLC

AllProducerOps == OneOps \cup BulkOps \cup {"write_internal", "is_full"}
TakingOps == {"front", "discard", "pop", "consume", "consume_all", "is_empty"}
AllConsumerOps == TakingOps \cup {"read"}
CallbackOps == AllProducerOps \cup AllConsumerOps
UnpeekedOps == TakingOps \cup {"discard_unpeeked"}
LoopingProducerOps == AllProducerOps \ {"is_full"}
LoopingConsumerOps == {"pop", "read", "consume", "consume_all"}

Symmetry == Permutations(Elem)
============================================================================
