SPECIFICATION Spec
CONSTANTS
  PageSize = 2
  Backing = {1, 2}
  MaxPage = 3
  MaxLength = 3
  Byte = {0, 1}
INVARIANTS ReadsSeeWrites
CHECK_DEADLOCK FALSE
