SPECIFICATION Spec
CONSTANTS
  reader = reader
  other = other
  Procs = {reader, other}
  Programs <- TwoPrograms
  Nodes = {n1, n2}
  KUPIR_MAX_DEV = 2
  KUPIR_MAX_MSG = 2
  MaxTime = 2
  MaxDepth = 2
  Drift = 0
  Isr = Isr
  Rmmod = Rmmod
SYMMETRY NodeSymmetry
CONSTRAINT Claimed
INVARIANT
  ListsWellFormed
CHECK_DEADLOCK FALSE
