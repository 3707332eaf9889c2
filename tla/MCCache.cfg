CONSTANTS
  Ways <- MCWays
  Sets = 2
  LineBytes = 4
  BaseAddr = 9
  UpperLimit = 44
  AddressSpan = 64
  Addr <- MCAddr
SPECIFICATION Spec
INVARIANT TypeOK
INVARIANT OneCopy
PROPERTY FifoSpec
