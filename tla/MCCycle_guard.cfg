SPECIFICATION FairSpec
CONSTANTS
  p1 = p1
  p2 = p2
  a1 = a1
  b1 = b1
  Platforms = {p1, p2}
  Accounts = {a1, b1}
  PlatformOf <- MCPlatformOf
  Slots = 2
  AccountConcurrency = 1
  None = None
  MaxCycles <- MCMaxCycles
  FirstCycles = 2
  SecondCycles = 1
  MaxTroubles = 2
INVARIANTS TypeOK WritesApart GuardReturned HonestSuccess
PROPERTIES ClosedRuns AllEnds ImplementsLedger
CHECK_DEADLOCK FALSE
