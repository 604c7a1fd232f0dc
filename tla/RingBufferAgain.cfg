\* consume_all with offsets.
SPECIFICATION Spec
CONSTANTS
  Size = 8
  Header = 1
  Align = 2
  Word = 24
  Elem = {a}
  Raw = Raw
  Lengths = {1, 3}
  Variants <- DrainedVariants
INVARIANTS TakesARecord
