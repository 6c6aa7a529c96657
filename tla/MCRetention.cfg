\* Three backups, full and differential, and a promotion at any point of a segment.
CONSTANTS
  SegmentBytes = 2
  Window = 1
  Minimum = 1
  MaxLSN = 3
  MaxTime = 3
  MaxBackups = 3
  MaxTimelines = 2
SPECIFICATION RetentionSpec
INVARIANTS ChainsWhole AbsenceClassified
PROPERTIES WindowKept PlanStable
CHECK_DEADLOCK FALSE
