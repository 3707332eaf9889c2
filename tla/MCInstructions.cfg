CONSTANTS
  WordBits = 3
  HalfBits = 2
  ByteBits = 1
  Reg = {1, 2}
  RA = 1
  EA = 2
  Waits = {0, 1}
  Configs <- MCConfigs
SPECIFICATION Spec
INVARIANT TypeOK
INVARIANT ScoreboardExact
PROPERTY OperandsReady
PROPERTY ResultsAsDefined
PROPERTY FlowAsCompared
