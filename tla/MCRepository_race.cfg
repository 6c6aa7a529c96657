\* Two callbacks for one differential may freeze different roots of the two
\* published fulls, while two collectors expire backups and clean up behind them.
CONSTANTS
  b1 = b1  b2 = b2  d1 = d1
  p1 = p1  p2 = p2  p3 = p3  p4 = p4
  r1 = r1  g1 = g1  g2 = g2
  None = None
  Full = {b1, b2}
  Differential = {d1}
  Producer = {p1, p2, p3, p4}
  Reader = {}
  Collector = {g1, g2}
  BackupOf <- OneDifferential
  Published = {p1, p2}
  Parts = 1
  Segment = {}
  StartOf <- Starts
  MaxVictims = 2
SPECIFICATION Spec
SYMMETRY RaceSymmetry
INVARIANTS LiveBackupIntact ResultIsCommit CleanlyDrained
CHECK_DEADLOCK FALSE
