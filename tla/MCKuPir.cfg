SPECIFICATION Spec
CONSTANTS
  reader = reader
  other = other
  Procs = {reader}
  Programs <- SensorOnly
  Nodes = {n1, n2, n3}
  KUPIR_MAX_DEV = 1
  KUPIR_MAX_MSG = 2
  MaxTime = 2
  MaxDepth = 2
  Drift = 0
  Isr = Isr
  Rmmod = Rmmod
SYMMETRY NodeSymmetry
CONSTRAINT Claimed
INVARIANTS
  TypeOK
  ListsWellFormed
  InOrder
  SleepersAreWoken
CHECK_DEADLOCK FALSE
