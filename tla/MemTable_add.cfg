\* Groups of two bits; sizes on both sides of a second length byte.
SPECIFICATION Spec
CONSTANTS
  Base = 4
  Max32 = 512
  Max64 = 524288
  KeySizes = {0, 1, 3, 16}
  ValueSizes = {0, 1, 3, 16}
  MaxEntries = 2
INVARIANT EntriesFill
CHECK_DEADLOCK FALSE
