\* Three chunks of one usable slot: most steps cross chunks.  Both clients
\* loop for ever, and no callback gives up.
SPECIFICATION FairSpec
CONSTANTS
  ChunkSize = 2
  ChunkCount = 3
  Elem = {a}
  Raw = Raw
  Classes <- BenchmarkClasses
  Consumers <- DequeuingConsumers
  Declining = {}
PROPERTIES Flow
