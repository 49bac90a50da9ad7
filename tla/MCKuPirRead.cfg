SPECIFICATION Spec
CONSTANTS
  reader = reader
  other = other
  Procs = {reader}
  Programs <- ReadsOnly
  Nodes = {n1, n2}
  KUPIR_MAX_DEV = 1
  KUPIR_MAX_MSG = 1
  MaxTime = 1
  MaxDepth = 2
  Drift = 0
  Isr = Isr
  Rmmod = Rmmod
PROPERTY
  ReadEnds
CHECK_DEADLOCK FALSE
