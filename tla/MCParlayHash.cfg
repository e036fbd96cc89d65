\* A table of four buckets that has just started to grow: two threads, three
\* of the calls Find, Insert and Remove, direct entries.
SPECIFICATION Spec
CONSTANTS
  t1 = t1
  t2 = t2
  k1 = k1
  k2 = k2
  k3 = k3
  k4 = k4
  v0 = v0
  v1 = v1
  None = None
  Thread = {t1, t2}
  Key = {k1, k2, k3, k4}
  Val = {v0, v1}
  Call <- Basic
  Change <- Flip
  Hash <- HashOf
  HashSize = 8
  Size <- FromFour
  Grow = 2
  BlockSize <- Twos
  OverflowSize <- Ones
  BufferSize = 1
  Direct = TRUE
  Preload <- ThreeEntries
  MaxVersion = 2
  MaxCalls = 3
SYMMETRY Symmetry
INVARIANTS TypeOK RightBucket CopyIsPrivate
PROPERTIES ImplementsMap
