\* Two threads on one cell, whose lock is also taken by others, under fair scheduling.
SPECIFICATION FairSpec
CONSTANTS
  t1 = t1
  t2 = t2
  c1 = c1
  l1 = l1
  Thread = {t1, t2}
  Cell = {c1}
  Word <- TwoWords
  Data <- Bits
  InitValue <- Zero
  Lock = {l1}
  LockOf <- OneLock
  MaxVersion = 3
INVARIANTS TypeOK SeqLockInv
PROPERTIES VersionDiscipline ImplementsLLSC LocksReleased CallsReturn
