SPECIFICATION FairSpec
CONSTANTS
  None = None
  local = local
  remote = remote
  Processes = {local, remote}
  Tasks = {t1, t2}
  FirstTasks = {t1}
  Home <- MCHome
  Keys = {k}
  TTL = 2
  FreshFor = 1
  MinAge = 0
  WarmAge = 1
  Hold = 1
  LockFor = 1
  WaitFor = 1
  Markers = {remote}
  RefreshLimit = 1
  MaxRevision = 2
  MaxTroubles = 1
INVARIANTS TypeOK NoLeak
PROPERTIES OneSnapshot LockOwned OnlyRebuildsAdd Answered
