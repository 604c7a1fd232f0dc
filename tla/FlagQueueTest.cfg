\* Every class, two repetitions, each passing the end of the buffer.
SPECIFICATION FairSpec
CONSTANTS
  Size = 3
  Elem = {a, b}
  Raw = Raw
  Classes <- AllClasses
  Total = 4
  Repetitions = 2
INVARIANTS HandedOver NoUseAfterDelete EmptyAfterTest
PROPERTIES FifoSpec Terminates
\* The benchmark comes to an end.
CHECK_DEADLOCK FALSE
