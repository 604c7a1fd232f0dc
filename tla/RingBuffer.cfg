\* The five ring buffers, with clients that give up and with clients that go on
\* for ever.  Every record fits into the buffer.
SPECIFICATION FairSpec
CONSTANTS
  Size = 8
  Header = 1
  Align = 2
  Word = 24
  Elem = {a}
  Raw = Raw
  Lengths = {1, 3, 5}
  Variants <- SoundVariants
INVARIANTS HandedOver
PROPERTIES RefusedMeansFull FifoSpec Flow
