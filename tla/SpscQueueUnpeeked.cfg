SPECIFICATION Spec
CONSTANTS
  Size = 3
  Word = 16
  Elem = {a, b}
  Raw = Raw
  Counts = {0, 1, 3}
  ProducerOps <- AllProducerOps
  ConsumerOps <- UnpeekedOps
  Declining <- CallbackOps
  Lifecycle = FALSE
INVARIANT TakesAnObject
