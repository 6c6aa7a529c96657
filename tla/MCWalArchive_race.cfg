\* Two contents for one name, a restore and a recovery in one directory, a retirement.
CONSTANTS
  n1 = n1  c1 = c1  c2 = c2  a1 = a1  a2 = a2
  r1 = r1  r2 = r2  g1 = g1  x = x
  Name = {n1}
  Content = {c1, c2}
  Archiver = {a1, a2}
  Restorer = {r1, r2}
  Recovery = {r2}
  Collector = {g1}
  NameOf <- OneName
  ContentOf <- TwoContents
  TargetOf <- SharedTarget
  Required = {}
  Bundle <- BundledName
  Future = {}
  MaxCallbacks = 2
  None = None
  Retired = Retired
SPECIFICATION Spec
INVARIANTS AckedDurable AbsenceAuthentic PublishedVerified
CHECK_DEADLOCK FALSE
