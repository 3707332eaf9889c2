CONSTANTS
  NumSlots = 2
  Code <- MCCode
  Data <- MCData
  Bad <- MCBad
SPECIFICATION FairSpec
INVARIANT TypeOK
INVARIANT ArmedAsAgreed
INVARIANT FaultPending
PROPERTY GuestTakesOnlyLeft
PROPERTY StepAnswered
