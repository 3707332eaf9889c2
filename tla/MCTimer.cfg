CONSTANTS
  HalfRange = 8
  Granularity = 3
  MaxCycles = 2
  Periods <- MCPeriods
SPECIFICATION FairSpec
INVARIANT TypeOK
INVARIANT PulseNotLost
PROPERTY TimeoutServed
PROPERTY KeepsDeadlines
