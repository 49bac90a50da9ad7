------------------------------ MODULE KuIpcLib ------------------------------
(***************************************************************************)
(* The library of as1/ku_ipc_lib.c on top of the driver: ku_msgget,        *)
(* ku_msgclose, ku_msgsnd and ku_msgrcv, each a sequence of system calls   *)
(* between which other threads run.  A step of the library is the code     *)
(* from the return of one system call to the next one, or to the return of *)
(* the function.                                                           *)
(***************************************************************************)
EXTENDS KuIpc

CONSTANTS
  GetFlags   \* flag words passed to ku_msgget, as sets of bit positions

ASSUME KuIpcLibAssumption == GetFlags \subseteq SUBSET (9..11)

VARIABLES
  api  \* api[p]: the library function p is in, its arguments and its position

libVars == <<vars, api>>

Idle(result) == [fn |-> "none", ret |-> result]

LibInit == Init /\ api = [p \in Procs |-> Idle(0)]

(* What the C library returns for a system call that returned value: any    *)
(* error is -1 (and errno).                                                 *)
Status(value) == IF value < 0 THEN -1 ELSE value

(* A system call of p: after rmmod, the descriptor leads to freed code.     *)
SysCall(p, r) == Call(p, r) \/ CallUnloaded(p)

Done(p, result) == api' = [api EXCEPT ![p] = Idle(result)] /\ UNCHANGED vars

Returned(p, fn, at) ==
  /\ api[p].fn = fn
  /\ api[p].at = at
  /\ call[p].at = "user"

MayBegin(p) == api[p].fn = "none" /\ module # "unloaded"

-----------------------------------------------------------------------------
(* The functions.  open fails only when the device is gone: then a function *)
(* returns -1 and changes nothing.                                          *)

Check(k) == [op |-> "KU_CHECK", key |-> k]
Creat(k) == [op |-> "KU_CREAT", key |-> k]
Close(k) == [op |-> "KU_CLOSE", key |-> k]
Empty(k) == [op |-> "KU_EMPTY", key |-> k]

BeginGet(p) ==
  /\ MayBegin(p)
  /\ \E k \in Keys, f \in GetFlags :
       /\ SysCall(p, Check(k))
       /\ api' = [api EXCEPT ![p] = [fn |-> "ku_msgget", at |-> "check", key |-> k, flg |-> f]]

(* A key in use is an error but with IPC_CREAT alone; a free key is created.*)
Checked(p) ==
  /\ Returned(p, "ku_msgget", "check")
  /\ LET a == api[p]
     IN  IF Status(call[p].ret) = -1
         THEN Done(p, IF a.flg = IPC_CREAT THEN a.key ELSE -1)
         ELSE SysCall(p, Creat(a.key)) /\ api' = [api EXCEPT ![p].at = "creat"]

Created(p) == Returned(p, "ku_msgget", "creat") /\ Done(p, Status(call[p].ret))

BeginClose(p) ==
  /\ MayBegin(p)
  /\ \E k \in Keys :
       /\ SysCall(p, Close(k))
       /\ api' = [api EXCEPT ![p] = [fn |-> "ku_msgclose", at |-> "close", key |-> k]]

Closed(p) == Returned(p, "ku_msgclose", "close") /\ Done(p, Status(call[p].ret))

BeginSnd(p) ==
  /\ MayBegin(p)
  /\ \E r \in WriteReq, f \in Flags :
       /\ SysCall(p, r)
       /\ api' = [api EXCEPT ![p] = [fn |-> "ku_msgsnd", at |-> "write", req |-> r, flg |-> f]]

(* The retry of a blocking send (ku_ipc_lib.c:91-93) needs a status of -2,  *)
(* which no system call returns: a full queue ends the call.                *)
Written(p) ==
  /\ Returned(p, "ku_msgsnd", "write")
  /\ LET a == api[p]
         status == Status(call[p].ret)
     IN  IF status = -2 /\ ~(IPC_NOWAIT \subseteq a.flg)
         THEN SysCall(p, a.req) /\ UNCHANGED api
         ELSE Done(p, IF status < 0 THEN -1 ELSE 0)

BeginRcv(p) ==
  /\ MayBegin(p)
  /\ \E r \in ReadReq :
       /\ SysCall(p, Empty(r.key))
       /\ api' = [api EXCEPT ![p] = [fn |-> "ku_msgrcv", at |-> "poll", req |-> r]]

(* Mutants of Polled: it reads an empty queue and polls one that is not; or *)
(* a receive that may not wait polls all the same.                          *)
PolledInverted(p) ==
  /\ Returned(p, "ku_msgrcv", "poll")
  /\ LET r == api[p].req
     IN  IF Status(call[p].ret) = 0
         THEN SysCall(p, r) /\ api' = [api EXCEPT ![p].at = "read"]
         ELSE SysCall(p, Empty(r.key)) /\ UNCHANGED api

PolledAlways(p) ==
  /\ Returned(p, "ku_msgrcv", "poll")
  /\ LET r == api[p].req
     IN  IF Status(call[p].ret) = -1
         THEN SysCall(p, r) /\ api' = [api EXCEPT ![p].at = "read"]
         ELSE SysCall(p, Empty(r.key)) /\ UNCHANGED api

(* KU_EMPTY returns 0 for an empty queue and -1 otherwise, also when there  *)
(* is no such queue.  The receive polls until it is not 0, then reads,      *)
(* whatever other receivers have taken by then.                             *)
Polled(p) ==
  /\ Returned(p, "ku_msgrcv", "poll")
  /\ LET r == api[p].req
         status == Status(call[p].ret)
     IN  IF status = 0 /\ IPC_NOWAIT \subseteq r.flag
         THEN Done(p, -1)
         ELSE IF status = -1
              THEN SysCall(p, r) /\ api' = [api EXCEPT ![p].at = "read"]
              ELSE SysCall(p, Empty(r.key)) /\ UNCHANGED api

Received(p) == Returned(p, "ku_msgrcv", "read") /\ Done(p, Status(call[p].ret))

-----------------------------------------------------------------------------
Begin(p) == BeginGet(p) \/ BeginClose(p) \/ BeginSnd(p) \/ BeginRcv(p)

Continue(p) ==
  \/ Checked(p) \/ Created(p) \/ Closed(p)
  \/ Written(p) \/ Polled(p) \/ Received(p)

DriverStep == (\E p \in Procs : Step(p)) \/ ExitBegin \/ ExitDrain \/ ExitEnd

LibNext ==
  \/ \E p \in Procs : Begin(p) \/ Continue(p)
  \/ DriverStep /\ UNCHANGED api

(* A thread in a library function keeps running; it need not begin one.     *)
LibSpec ==
  /\ LibInit
  /\ [][LibNext]_libVars
  /\ Fairness
  /\ \A p \in Procs : WF_libVars(Continue(p))

-----------------------------------------------------------------------------
(* Threads of ku_msgget that were told that key k is free and have not yet  *)
(* created its queue.                                                       *)
Getting(k) ==
  {p \in Procs :
     /\ api[p].fn = "ku_msgget"
     /\ api[p].key = k
     /\ \/ api[p].at = "check" /\ call[p].at = "user" /\ call[p].ret = 0
        \/ api[p].at = "creat" /\ InKernel(p)}

WithKey(k) == {i \in DOMAIN msg_q : msg_q[i].key = k}

(* ku_msgget's check and create are two calls (ku_ipc_lib.c:28 and 46), so  *)
(* several threads may create one key; but never more queues of a key exist *)
(* than there are threads, however gets and closes interleave.              *)
DuplicateBound ==
  \A k \in Keys : Cardinality(WithKey(k)) + Cardinality(Getting(k)) <= Cardinality(Procs)

HasMessage(k) == \E i \in Find(k) : msg_q[i].msgs # <<>>

(* A receive does not poll, or spin, for ever on a queue that holds a       *)
(* message all the time, unless ku_lock is lost.                            *)
PollEnds ==
  \A p \in Procs :
    ~<>[](/\ api[p].fn = "ku_msgrcv"
          /\ HasMessage(api[p].req.key)
          /\ ~Wedged
          /\ module # "unloaded")

(* A receive with IPC_NOWAIT returns whatever the queue holds (its thread   *)
(* is killed at worst), unless ku_lock is lost.                             *)
NowaitReturns ==
  \A p \in Procs :
    (api[p].fn = "ku_msgrcv" /\ IPC_NOWAIT \subseteq api[p].req.flag)
      ~> (api[p].fn = "none" \/ call[p].at = "oops" \/ Wedged)

(* "duplicated keys are not allowed" (ku_ipc.c:268): no two queues have one *)
(* key.  The code breaks this.                                              *)
NoDuplicateKeys == \A k \in Keys : Cardinality(WithKey(k)) <= 1

(* A send that finds the queue full returns an error ("lack of space",      *)
(* ku_ipc.c:224) which the library retries (ku_ipc_lib.c:91-93): it does    *)
(* not keep the driver's lock.  The code breaks this.                       *)
FullQueueIsAnError ==
  \A p \in Procs : call[p].at = "user" => ku_lock # p
=============================================================================
