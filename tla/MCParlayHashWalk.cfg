\* for_each and clear while entries come, change and go and the table grows.
SPECIFICATION Spec
CONSTANTS
  t1 = t1
  t2 = t2
  k1 = k1
  k2 = k2
  k3 = k3
  k4 = k4
  v0 = v0
  v1 = v1
  None = None
  Thread = {t1, t2}
  Key = {k1, k2, k3, k4}
  Val = {v0, v1}
  Call <- WalkOrUpsert
  Change <- Flip
  Hash <- HashAgain
  HashSize = 4
  Size <- FromOne
  Grow = 2
  BlockSize <- Ones
  OverflowSize <- Twos
  BufferSize = 1
  Direct = TRUE
  Preload <- ThreeEntries
  MaxVersion = 2
  MaxCalls = 3
CONSTRAINT UpsertsFirst
SYMMETRY Symmetry
INVARIANTS WalkGuarantee
PROPERTIES ImplementsMap
