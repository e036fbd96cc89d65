\* Remove, which starts outside with_epoch, copies a bucket with a list.
SPECIFICATION Spec
CONSTANTS
  t1 = t1
  t2 = t2
  k1 = k1
  k2 = k2
  k3 = k3
  k4 = k4
  v0 = v0
  v1 = v1
  None = None
  Thread = {t1, t2}
  Key = {k1, k2, k3, k4}
  Val = {v0, v1}
  Call <- Removes
  Change <- Flip
  Hash <- HashOf
  HashSize = 8
  Size <- FromFour
  Grow = 2
  BlockSize <- Twos
  OverflowSize <- Ones
  BufferSize = 1
  Direct = TRUE
  Preload <- ThreeEntries
  MaxVersion = 2
  MaxCalls = 1
SYMMETRY Symmetry
INVARIANTS ListsReadInside
