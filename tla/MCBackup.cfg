SPECIFICATION Spec
CONSTANTS
  home = home
  Sidecar = {1, 2}
  Pod = {home}
  PodOf <- MCPodOf
  Home = home
  None = None
  Upload = {1, 2}
  Callback = {1, 2}
  Archiver = {3}
  Opener = {1, 2, 3}
  Worker = {w1, w2}
  Parts <- MCParts
  Stores <- MCStores
  MaxLate = 1
  MaxChanges = 1
INVARIANTS
  WorkspaceOwned
  OneRepository
  ReleasedSettled
  CommitSound
  ResultWhole
PROPERTIES
  UploadIsMutation
  CallbackReturns
CHECK_DEADLOCK FALSE
