\* Two managers, a Pod and its retry, one crash and two faults.
CONSTANTS
  m1 = m1  m2 = m2  p1 = p1  p2 = p2
  Manager = {m1, m2}
  Pod = {p1, p2}
  MaxCrashes = 1
  MaxFaults = 2
  None = None
SPECIFICATION Spec
SYMMETRY Interchangeable
INVARIANTS ReadersProtected
PROPERTIES ClosedStays ObservationFromStart
CHECK_DEADLOCK FALSE
