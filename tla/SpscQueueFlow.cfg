\* Both clients loop for ever, and no callback gives up.
SPECIFICATION FairSpec
CONSTANTS
  Size = 4
  Word = 16
  Elem = {a}
  Raw = Raw
  Counts = {1, 2}
  ProducerOps <- LoopingProducerOps
  ConsumerOps <- LoopingConsumerOps
  Declining = {}
  Lifecycle = FALSE
PROPERTIES Flow
