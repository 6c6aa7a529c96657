\* Two guards and two sidecars, in any pairing, restore into two volumes.
CONSTANTS
  g1 = g1  g2 = g2  s1 = s1  s2 = s2  pod1 = pod1
  Guard = {g1, g2}
  Sidecar = {s1, s2}
  PodOf <- OnePod
  Volumes = 2
  MaxTasks = 2
  MaxBackups = 2
  MaxCrashes = 1
  None = None
  Torn = Torn
SPECIFICATION BootSpec
SYMMETRY Restarts
INVARIANTS WriterMarked PoisonedStaysMarked ReaderSpansTasks PlanFrozen TargetsWhole
CHECK_DEADLOCK FALSE
