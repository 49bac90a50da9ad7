SPECIFICATION LibSpec
CONSTANTS
  Procs = {p1, p2}
  Keys = {1}
  Types = {1}
  RcvTypes <- AnyMessage
  Sizes = {1}
  MaxInt = 7
  Flags <- RcvFlagWords
  GetFlags <- GetFlagWords
  Addrs = {a1}
  Values = {v1}
  KUIPC_MAXMSG = 2
  KUIPC_MAXVOL = 3
  Nobody = Nobody
  Rmmod = Rmmod
INVARIANT
  FullQueueIsAnError
CHECK_DEADLOCK FALSE
