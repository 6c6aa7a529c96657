\* One Backup, a Cluster that moves between Repositories, two starts, faults.
CONSTANTS
  b1 = b1  c1 = c1  r1 = r1  r2 = r2
  Backup = {b1}
  Cluster = {c1}
  ClusterOf <- OneBackup
  Repository = {r1, r2}
  None = None
  MaxStarts = 2
  MaxConfigs = 2
  MaxFaults = 2
SPECIFICATION FairSpec
INVARIANTS CountedOnce StartupNotCounted
PROPERTY FailureCounted
CHECK_DEADLOCK FALSE
