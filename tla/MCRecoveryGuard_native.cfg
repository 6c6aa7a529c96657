\* A native failure while the session is draining.
CONSTANTS
  g1 = g1  g2 = g2  s1 = s1  s2 = s2  pod1 = pod1  pod2 = pod2
  Guard = {g1, g2}
  Sidecar = {s1, s2}
  PodOf <- TwoPods
  Volumes = 2
  MaxTasks = 2
  None = None
  Torn = Torn
SPECIFICATION Spec
INVARIANT NativeFailureLeavesMarkers
CHECK_DEADLOCK FALSE
