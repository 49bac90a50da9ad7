SPECIFICATION Spec
CONSTANTS
  Procs = {p1, p2}
  Keys = {1}
  Types = {1}
  RcvTypes <- AnyMessage
  Sizes = {1}
  MaxInt = 7
  Flags <- NoFlag
  Addrs = {a1}
  Values = {v1, v2}
  KUIPC_MAXMSG = 1
  KUIPC_MAXVOL = 2
  Nobody = Nobody
  Rmmod = Rmmod
PROPERTY
  DeliversWhatWasSent
CHECK_DEADLOCK FALSE
