SPECIFICATION Spec
CONSTANTS
  Pages = 9
  Sizes = {2}
  MaxBlocks = 4
INVARIANTS TypeOK SafeData PagesAreExclusive ListIsCoalesced
