CONSTANTS
  Address = {0, 1}
  Reg = {0, 1}
  HostByte <- MCData
  MaxData = 2
  RegValue = {1}
  Junk <- MCJunk
  BufSize = 6
  None = None
SPECIFICATION PacketSpec
INVARIANT RegistersAsSet
