CONSTANTS
  NumSlots = 2
  Code <- MCCode
  Data <- MCData
  Bad <- MCBad
SPECIFICATION Spec
INVARIANT WatchesFound
