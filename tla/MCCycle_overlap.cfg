SPECIFICATION Spec
CONSTANTS
  p1 = p1
  p2 = p2
  a1 = a1
  b1 = b1
  Platforms = {p1, p2}
  Accounts = {a1, b1}
  PlatformOf <- MCPlatformOf
  Slots = 1
  AccountConcurrency = 1
  None = None
  MaxCycles <- MCMaxCycles
  FirstCycles = 1
  SecondCycles = 1
  MaxTroubles = 0
INVARIANT OnePlatformWrites
CHECK_DEADLOCK FALSE
