CONSTANTS
  Irq = {i0}
  Granularity = 2
  Cycles = {1}
  CanTerminate = TRUE
  KernelTraps = FALSE
  Faults = {9, 10}
  EntryPoint = 150
  EbaValues = {0}
  DebaValues = {0}
  HwBp = {}
  Code <- MCCode
  UserCode <- MCUser
  Targets <- MCTargets
SPECIFICATION FairSpec
PROPERTY InterruptServed
