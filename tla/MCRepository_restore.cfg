\* A full and a differential are being published, a restore selects, and a
\* collector expires backups and retires WAL, two victims a batch.
CONSTANTS
  b1 = b1  b2 = b2  d1 = d1
  p1 = p1  p2 = p2  p3 = p3  p4 = p4
  r1 = r1  g1 = g1  g2 = g2
  None = None
  Full = {b1, b2}
  Differential = {d1}
  Producer = {p1, p2, p3}
  Reader = {r1}
  Collector = {g1}
  BackupOf <- FullAndDifferential
  Published = {p1}
  Parts = 2
  Segment = {1}
  StartOf <- Starts
  MaxVictims = 2
SPECIFICATION Spec
INVARIANTS SelectionHeld WalKept
CHECK_DEADLOCK FALSE
