\* Every operation but read, callbacks that give up, assignment and destruction.
SPECIFICATION Spec
CONSTANTS
  Size = 3
  Word = 16
  Elem = {a, b}
  Raw = Raw
  Counts = {0, 1, 3}
  ProducerOps <- AllProducerOps
  ConsumerOps <- TakingOps
  Declining <- CallbackOps
  Lifecycle = TRUE
INVARIANTS TypeOK HandedOver LiveExactly Window
PROPERTIES CountsExact ShortMeansFull AnswersKept FifoSpec
SYMMETRY Symmetry
