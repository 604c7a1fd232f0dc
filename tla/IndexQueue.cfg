\* Every class, with clients that go on for ever and with clients that give up.
\* A queue that is copied begins in the last slot, so that its elements wrap.
SPECIFICATION FairSpec
CONSTANTS
  Size = 4
  Elem = {a, b}
  Raw = Raw
  Classes <- AllClasses
  Heads = {3}
INVARIANTS TypeOK LiveExactly HandedOver
PROPERTIES DrainCount Flow FifoSpec
