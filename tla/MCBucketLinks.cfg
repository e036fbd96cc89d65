\* Two threads, three calls on a bucket that starts with a list of one link.
SPECIFICATION Spec
CONSTANTS
  t1 = t1
  t2 = t2
  k1 = k1
  k2 = k2
  k3 = k3
  v0 = v0
  v1 = v1
  None = None
  Thread = {t1, t2}
  Key = {k1, k2, k3}
  Val = {v0, v1}
  Call <- AllCalls
  Change <- Flip
  Half <- Halves
  Preload <- TwoKeys
  BufferSize = 1
  MaxObj = 20
  MaxCalls = 3
SYMMETRY Symmetry
INVARIANTS TypeOK RetiredIsUnused NothingLost ReadsAreSafe
PROPERTIES LinksAreLists
