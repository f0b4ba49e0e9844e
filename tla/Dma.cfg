\* Three numbers of copies are used again at once.
SPECIFICATION Spec
CONSTANTS
  Copies <- MCCopies
  Places = {0, 1, 2, 3}
  Depth = 2
  MaxId = 3
INVARIANTS TypeOK CopyAsAsked
PROPERTIES CopiedOnReturn CallReturns
