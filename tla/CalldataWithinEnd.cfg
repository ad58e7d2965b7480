CONSTANTS
  WordBytes = 4
  Base = 16
  Limit = 1023
  AddressBytes = 2
  SelectorBytes = 1
  BufferSize = 120
  Dirt = 13
  Tuples <- MCTuples
  DamageWords <- MCDamageWords
  MaxCut = 5
SPECIFICATION Spec
INVARIANT
  CalldataWithinEnd
CHECK_DEADLOCK FALSE
