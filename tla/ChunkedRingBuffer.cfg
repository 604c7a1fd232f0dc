\* Two or three chunks; callbacks give up, and change their mind or do not.
SPECIFICATION Spec
CONSTANTS
  Header = 1
  Align = 2
  Elem = {a}
  Raw = Raw
  Lengths = {1, 3}
  Instances <- SmallInstances
INVARIANTS HandedOver NeverStuck EmptyMeansNothing
PROPERTIES FifoSpec
