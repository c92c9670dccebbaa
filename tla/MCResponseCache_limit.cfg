SPECIFICATION Spec
CONSTANTS
  None = None
  local = local
  remote = remote
  Processes = {local}
  Tasks = {t1, t2}
  FirstTasks = {t1, t2}
  Home <- MCHome
  Keys = {k1, k2}
  TTL = 2
  FreshFor = 1
  MinAge = 0
  WarmAge = 1
  Hold = 1
  LockFor = 1
  WaitFor = 1
  Markers = {}
  RefreshLimit = 1
  MaxRevision = 1
  MaxTroubles = 0
INVARIANT RefreshesBounded
