SPECIFICATION Spec
CONSTANTS
  Procs = {p1}
  Keys = {1}
  Types = {1, 2}
  RcvTypes <- EveryRcvType
  Sizes <- EverySize
  MaxInt = 4
  Flags <- AllFlags
  Addrs = {a1}
  Values = {v1}
  KUIPC_MAXMSG = 3
  KUIPC_MAXVOL = 3
  Nobody = Nobody
  Rmmod = Rmmod
INVARIANTS
  QueueLimits
  QueueBytes
  ScanAgrees
PROPERTIES
  ImplementsMsgQueues
CHECK_DEADLOCK FALSE
