SPECIFICATION Spec
CONSTANTS
  Checker = {c1}
  Retainer = {r1, r2}
  Throttle = 1
  Interval = 1
  MaxClock = 2
  MaxEdits = 1
INVARIANTS
  StatusCoherent
PROPERTIES
  RunsSpaced
  WarningsApart
  ConfigurationReported
CHECK_DEADLOCK FALSE
