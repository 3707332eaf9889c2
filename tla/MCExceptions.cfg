CONSTANTS
  Irq = {i0}
  Granularity = 0
  Cycles = {1}
  CanTerminate = FALSE
  KernelTraps = FALSE
  Faults = {2, 3, 4, 8, 9, 10}
  EntryPoint = 150
  EbaValues = {0}
  DebaValues = {0}
  HwBp = {}
  Code <- MCCode
  UserCode <- MCUser
  Targets <- MCTargets
SPECIFICATION Spec
INVARIANT TypeOK
INVARIANT UserCodeUnprivileged
INVARIANT UserContextWhole
INVARIANT ContextsPaired
PROPERTY UserKeepsControl
PROPERTY ExtIntOnlyWhenEnabled
