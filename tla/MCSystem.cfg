CONSTANTS
  Pages = 3
  Value = {0, 1}
  Image <- MCImage
  Setup <- MCSetup
  Context = {0, 1}
  Granularity = 2
  Windows = {TRUE}
  Translation = {FALSE}
  CcAdjusts = {0}
  KilledIn = {"run"}
  None = None
SPECIFICATION Spec
INVARIANT TypeOK
INVARIANT SaveCovers
PROPERTY ResumesAsSaved
