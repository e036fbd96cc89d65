\* Three threads that come and go, and use what is theirs.
SPECIFICATION TSSpec
CONSTANTS
  t1 = t1
  t2 = t2
  t3 = t3
  Thread = {t1, t2, t3}
  MaxIds = 4
  ChunkSize = 1
  NumChunks = 3
SYMMETRY Symmetry
INVARIANTS UniqueIds NoneLost Dense ElementIsOwn VisitsAll
PROPERTIES ChunksAreFinal
