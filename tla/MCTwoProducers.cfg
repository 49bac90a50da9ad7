SPECIFICATION Spec
CONSTANTS
  reader = reader
  other = other
  Procs = {reader, other}
  Programs <- TwoProducers
  Nodes = {n1, n2, n3}
  KUPIR_MAX_DEV = 1
  KUPIR_MAX_MSG = 3
  MaxTime = 1
  MaxDepth = 2
  Drift = 0
  Isr = Isr
  Rmmod = Rmmod
SYMMETRY NodeSymmetry
CONSTRAINT OneWrite
INVARIANT
  ListsWellFormed
CHECK_DEADLOCK FALSE
