\* All operations, with callbacks that refuse and throw.
SPECIFICATION Spec
CONSTANTS
  ChunkSize = 3
  ChunkCount = 2
  Elem = {a, b}
  Raw = Raw
  Classes <- SafetyClasses
  Consumers <- SteadyConsumers
  Declining = {"enqueue", "dequeue", "pop", "consume_all"}
INVARIANTS TypeOK HandedOver LiveExactly LeftEmpty
PROPERTIES NextHasElement SomeIsKept FifoSpec
SYMMETRY Symmetry
