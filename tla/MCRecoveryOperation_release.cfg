\* The release of a completed recovery after the crash of its observer.
CONSTANTS
  m1 = m1  m2 = m2  p1 = p1  p2 = p2
  Manager = {m1, m2}
  Pod = {p1}
  MaxCrashes = 1
  MaxFaults = 2
  None = None
SPECIFICATION FairSpec
PROPERTY CompletedReleased
CHECK_DEADLOCK FALSE
