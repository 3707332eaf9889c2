CONSTANTS
  Char <- MCChar
  Exit <- MCExit
  TicksPerBit = 4
  Granularity = 2
  MaxCycles = 2
SPECIFICATION FairSpec
INVARIANT TypeOK
INVARIANT ReadOnce
INVARIANT TerminateExact
PROPERTY FullFrame
PROPERTY CharacterServed
