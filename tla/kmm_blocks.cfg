SPECIFICATION Spec
CONSTANTS
  Pages = 5
  Sizes = {1, 2}
  MaxBlocks = 5
INVARIANTS SafeData
