\* Two threads, four buffers of two blocks, four nodes; every pop scans.
SPECIFICATION Spec
CONSTANTS
  None = None
  P = 2
  n1 = n1
  n2 = n2
  n3 = n3
  n4 = n4
  Node = {n1, n2, n3, n4}
  Value <- Blocks
  Threshold = 1
  ListLength = 2
  MaxBuffers = 4
VIEW View
INVARIANTS TypeOK EachBlockOnce ReadsAreSafe GarbageIsBounded
PROPERTIES ImplementsStack
