SPECIFICATION Spec
CONSTANTS
  reader = reader
  other = other
  Procs = {reader, other}
  Programs <- Unloading
  Nodes = {n1}
  KUPIR_MAX_DEV = 1
  KUPIR_MAX_MSG = 1
  MaxTime = 1
  MaxDepth = 2
  Drift = 0
  Isr = Isr
  Rmmod = Rmmod
VIEW GateView
INVARIANT
  HandlerNeedsDevice
CHECK_DEADLOCK FALSE
