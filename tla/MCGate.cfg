\* A restore (lifetime and reader) against a collection.
SPECIFICATION Spec
CONSTANTS
  r1 = r1  l1 = l1  g1 = g1
  Backup = {}
  Reader = {r1}
  Lifetime = {l1}
  GC = {g1}
  OperationOf <- OneOperation
  NoOwner = NoOwner
  MaxHolders = 2
  MaxGeneration = 5
  MaxRounds = 3
  MaxLate = 1
INVARIANTS HandleBacked StuckBlocks NoGhost Fenced
PROPERTY ImplementsLock
CHECK_DEADLOCK FALSE
