CONSTANTS
  Tag = {0, 1}
  Index = {0}
  ZeroTag = 0
  ZeroIndex = 0
  Frame = {f1, f2}
  None = None
SPECIFICATION FairSpec
INVARIANT TypeOK
INVARIANT Coherent
INVARIANT CulpritKnown
PROPERTY TranslatesAsMapped
PROPERTY Completes
