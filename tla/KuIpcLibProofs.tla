---------------------------- MODULE KuIpcLibProofs ----------------------------
(***************************************************************************)
(* Theorems about the library: whatever it does is something the driver    *)
(* allows its callers, so every theorem about the driver holds under it;   *)
(* and how many queues of one key ku_msgget can make.                      *)
(***************************************************************************)
EXTENDS KuIpcLib, KuIpcProofs

(***************************************************************************)
(* The library's state.                                                    *)
(***************************************************************************)
Apis == [fn: {"none"}, ret: Int]
        \cup [fn: {"ku_msgget"}, at: {"check", "creat"}, key: Keys, flg: GetFlags]
        \cup [fn: {"ku_msgclose"}, at: {"close"}, key: Keys]
        \cup [fn: {"ku_msgsnd"}, at: {"write"}, req: WriteReq, flg: Flags]
        \cup [fn: {"ku_msgrcv"}, at: {"poll", "read"}, req: ReadReq]

ApiTypeOK == api \in [Procs -> Apis]

(* The system call that a library function is in, as its position says.     *)
Requested(a) == CASE a.fn = "ku_msgget" /\ a.at = "check" -> Check(a.key)
                  [] a.fn = "ku_msgget" /\ a.at = "creat" -> Creat(a.key)
                  [] a.fn = "ku_msgclose" -> Close(a.key)
                  [] a.fn = "ku_msgsnd" -> a.req
                  [] a.fn = "ku_msgrcv" /\ a.at = "poll" -> Empty(a.req.key)
                  [] a.fn = "ku_msgrcv" /\ a.at = "read" -> a.req

(* A thread is in the kernel only with the system call of the function it   *)
(* is in.                                                                   *)
CallOfApi ==
  \A p \in Procs : InKernel(p) => /\ api[p].fn # "none"
                                  /\ call[p].req = Requested(api[p])

LibIInv == IInv /\ ApiTypeOK /\ CallOfApi

LEMMA ApiFields ==
  ASSUME NEW a \in Apis
  PROVE  /\ a.fn = "ku_msgget" => a.key \in Keys /\ a.flg \in GetFlags /\ a.at \in {"check", "creat"}
         /\ a.fn = "ku_msgclose" => a.key \in Keys /\ a.at = "close"
         /\ a.fn = "ku_msgsnd" => a.req \in WriteReq /\ a.flg \in Flags /\ a.at = "write"
         /\ a.fn = "ku_msgrcv" => a.req \in ReadReq /\ a.at \in {"poll", "read"}
BY DEF Apis

LEMMA KeyRequests ==
  ASSUME NEW k \in Keys
  PROVE  {Check(k), Creat(k), Close(k), Empty(k)} \subseteq Requests
BY DEF Check, Creat, Close, Empty, Requests, IoctlReq

LEMMA BufferRequests == WriteReq \subseteq Requests /\ ReadReq \subseteq Requests
BY DEF Requests

LEMMA ReadKey == ASSUME NEW r \in ReadReq PROVE r.key \in Keys
BY DEF ReadReq

(* A system call is a step of the driver.                                   *)
LEMMA SysCallIsCall ==
  ASSUME IInv, NEW p \in Procs, NEW r \in Requests, SysCall(p, r)
  PROVE  /\ Next
         /\ call[p].at = "user"
         /\ \A o \in Procs \ {p} : call'[o] = call[o]
         /\ call'[p].at \in {"enter", "oops"}
         /\ call'[p].at = "enter" => call'[p].req = r
         /\ UNCHANGED msg_q
<1>1. Next
  BY DEF SysCall, Next
<1>2. CASE Call(p, r)
  BY <1>1, <1>2 DEF Call, IInv, TypeOK
<1>3. CASE CallUnloaded(p)
  BY <1>1, <1>3, OopsProperties DEF CallUnloaded, IInv, TypeOK
<1> QED
  BY <1>2, <1>3 DEF SysCall

LEMMA StatusType == ASSUME NEW p \in Procs, IInv, call[p].at = "user"
                    PROVE  call[p].ret \in Int /\ Status(call[p].ret) \in Int
<1>1. call[p].ret \in Int
  BY DEF IInv, TypeOK, Calls
<1> QED
  BY <1>1 DEF Status

(***************************************************************************)
(* A step of the library.  What it does to its own thread's api and call;  *)
(* the others keep theirs.                                                 *)
(***************************************************************************)
Moved(p) ==
  /\ [Next]_vars
  /\ call[p].at = "user"
  /\ api'[p] \in Apis
  /\ api' = [api EXCEPT ![p] = api'[p]]
  /\ UNCHANGED msg_q
  /\ \A o \in Procs \ {p} : call'[o] = call[o]
  /\ \/ UNCHANGED call /\ api'[p].fn = "none"
     \/ call'[p].at = "oops"
     \/ /\ call'[p].at = "enter" /\ api'[p].fn # "none"
        /\ call'[p].req = Requested(api'[p])

LEMMA DoneMoves ==
  ASSUME LibIInv, NEW p \in Procs, NEW v \in Int, Done(p, v), call[p].at = "user"
  PROVE  Moved(p)
<1>1. Idle(v) \in Apis /\ Idle(v).fn = "none"
  BY DEF Idle, Apis
<1>2. api'[p] = Idle(v) /\ api' = [api EXCEPT ![p] = Idle(v)]
  BY DEF Done, LibIInv, ApiTypeOK
<1> QED
  BY <1>1, <1>2 DEF Done, Moved, vars

LEMMA SysCallMoves ==
  ASSUME LibIInv, NEW p \in Procs, NEW a \in Apis, a.fn # "none",
         Requested(a) \in Requests, SysCall(p, Requested(a)), api' = [api EXCEPT ![p] = a]
  PROVE  Moved(p)
<1>1. api'[p] = a
  BY DEF LibIInv, ApiTypeOK
<1>2. IInv
  BY DEF LibIInv
<1> QED
  BY <1>1, <1>2, SysCallIsCall DEF Moved

LEMMA BeginMoves ==
  ASSUME LibIInv, NEW p \in Procs, Begin(p)
  PROVE  Moved(p)
<1>1. ASSUME NEW k \in Keys, NEW f \in GetFlags, SysCall(p, Check(k)),
             api' = [api EXCEPT ![p] = [fn |-> "ku_msgget", at |-> "check", key |-> k, flg |-> f]]
      PROVE  Moved(p)
  <2> DEFINE a == [fn |-> "ku_msgget", at |-> "check", key |-> k, flg |-> f]
  <2>1. a \in Apis /\ a.fn # "none" /\ Requested(a) = Check(k)
    BY DEF Apis, Requested
  <2> HIDE DEF a
  <2>2. Requested(a) \in Requests
    BY <2>1, KeyRequests
  <2>3. api' = [api EXCEPT ![p] = a]
    BY <1>1 DEF a
  <2> QED
    BY <1>1, <2>1, <2>2, <2>3, SysCallMoves
<1>2. ASSUME NEW k \in Keys, SysCall(p, Close(k)),
             api' = [api EXCEPT ![p] = [fn |-> "ku_msgclose", at |-> "close", key |-> k]]
      PROVE  Moved(p)
  <2> DEFINE a == [fn |-> "ku_msgclose", at |-> "close", key |-> k]
  <2>1. a \in Apis /\ a.fn # "none" /\ Requested(a) = Close(k)
    BY DEF Apis, Requested
  <2> HIDE DEF a
  <2>2. Requested(a) \in Requests
    BY <2>1, KeyRequests
  <2>3. api' = [api EXCEPT ![p] = a]
    BY <1>2 DEF a
  <2> QED
    BY <1>2, <2>1, <2>2, <2>3, SysCallMoves
<1>3. ASSUME NEW r \in WriteReq, NEW f \in Flags, SysCall(p, r),
             api' = [api EXCEPT ![p] = [fn |-> "ku_msgsnd", at |-> "write", req |-> r, flg |-> f]]
      PROVE  Moved(p)
  <2> DEFINE a == [fn |-> "ku_msgsnd", at |-> "write", req |-> r, flg |-> f]
  <2>1. a \in Apis /\ a.fn # "none" /\ Requested(a) = r
    BY DEF Apis, Requested
  <2> HIDE DEF a
  <2>2. Requested(a) \in Requests
    BY <2>1, BufferRequests
  <2>3. api' = [api EXCEPT ![p] = a]
    BY <1>3 DEF a
  <2> QED
    BY <1>3, <2>1, <2>2, <2>3, SysCallMoves
<1>4. ASSUME NEW r \in ReadReq, SysCall(p, Empty(r.key)),
             api' = [api EXCEPT ![p] = [fn |-> "ku_msgrcv", at |-> "poll", req |-> r]]
      PROVE  Moved(p)
  <2> DEFINE a == [fn |-> "ku_msgrcv", at |-> "poll", req |-> r]
  <2>1. a \in Apis /\ a.fn # "none" /\ Requested(a) = Empty(r.key)
    BY DEF Apis, Requested
  <2> HIDE DEF a
  <2>2. Requested(a) \in Requests
    BY <2>1, KeyRequests, ReadKey
  <2>3. api' = [api EXCEPT ![p] = a]
    BY <1>4 DEF a
  <2> QED
    BY <1>4, <2>1, <2>2, <2>3, SysCallMoves
<1> QED
  BY <1>1, <1>2, <1>3, <1>4 DEF Begin, BeginGet, BeginClose, BeginSnd, BeginRcv

LEMMA ContinueMoves ==
  ASSUME LibIInv, NEW p \in Procs, Continue(p)
  PROVE  Moved(p)
<1> DEFINE a == api[p]
<1>1. a \in Apis /\ call[p].at = "user" /\ IInv
  BY DEF LibIInv, ApiTypeOK, Continue, Checked, Created, Closed, Written, Polled, Received,
         Returned
<1>2. call[p].ret \in Int /\ Status(call[p].ret) \in Int
  BY <1>1, StatusType
<1>3. ASSUME NEW v \in Int, Done(p, v) PROVE Moved(p)
  BY <1>1, <1>3, DoneMoves
<1>4. CASE Checked(p)
  <2>1. a.fn = "ku_msgget" /\ a.at = "check" /\ a.key \in Keys
    BY <1>1, <1>4, ApiFields DEF Checked, Returned
  <2>2. a.key \in Int
    <3>1. a.key \in Nat
      BY <2>1, KuIpcAssumption
    <3> QED
      BY <3>1
  <2>3. ASSUME SysCall(p, Creat(a.key)), api' = [api EXCEPT ![p].at = "creat"] PROVE Moved(p)
    <3> DEFINE b == [a EXCEPT !.at = "creat"]
    <3>1. b \in Apis /\ b.fn # "none" /\ Requested(b) = Creat(a.key)
      BY <1>1, <2>1 DEF Apis, Requested
    <3> HIDE DEF b
    <3>2. Requested(b) \in Requests
      BY <2>1, <3>1, KeyRequests
    <3>3. api' = [api EXCEPT ![p] = b]
      BY <2>3 DEF b
    <3> QED
      BY <2>3, <3>1, <3>2, <3>3, SysCallMoves
  <2> QED
    BY <1>3, <1>4, <2>2, <2>3 DEF Checked
<1>5. CASE Created(p) \/ Closed(p) \/ Received(p)
  BY <1>2, <1>3, <1>5 DEF Created, Closed, Received
<1>6. CASE Written(p)
  <2>1. a.fn = "ku_msgsnd" /\ a.at = "write" /\ a.req \in WriteReq
    BY <1>1, <1>6, ApiFields DEF Written, Returned
  <2>2. ASSUME SysCall(p, a.req), UNCHANGED api PROVE Moved(p)
    <3>1. Requested(a) = a.req /\ Requested(a) \in Requests
      BY <2>1, BufferRequests DEF Requested
    <3>2. api' = [api EXCEPT ![p] = a]
      BY <2>2 DEF LibIInv, ApiTypeOK
    <3> QED
      BY <1>1, <2>1, <2>2, <3>1, <3>2, SysCallMoves
  <2> QED
    BY <1>3, <1>6, <2>2 DEF Written
<1>7. CASE Polled(p)
  <2>1. a.fn = "ku_msgrcv" /\ a.at = "poll" /\ a.req \in ReadReq
    BY <1>1, <1>7, ApiFields DEF Polled, Returned
  <2>2. ASSUME SysCall(p, Empty(a.req.key)), UNCHANGED api PROVE Moved(p)
    <3>1. Requested(a) = Empty(a.req.key) /\ Requested(a) \in Requests
      BY <2>1, KeyRequests, ReadKey DEF Requested
    <3>2. api' = [api EXCEPT ![p] = a]
      BY <2>2 DEF LibIInv, ApiTypeOK
    <3> QED
      BY <1>1, <2>1, <2>2, <3>1, <3>2, SysCallMoves
  <2>3. ASSUME SysCall(p, a.req), api' = [api EXCEPT ![p].at = "read"] PROVE Moved(p)
    <3> DEFINE b == [a EXCEPT !.at = "read"]
    <3>1. b \in Apis /\ b.fn # "none" /\ Requested(b) = a.req
      BY <1>1, <2>1 DEF Apis, Requested
    <3> HIDE DEF b
    <3>2. Requested(b) \in Requests
      BY <2>1, <3>1, BufferRequests
    <3>3. api' = [api EXCEPT ![p] = b]
      BY <2>3 DEF b
    <3> QED
      BY <2>3, <3>1, <3>2, <3>3, SysCallMoves
  <2> QED
    BY <1>3, <1>7, <2>2, <2>3 DEF Polled
<1> QED
  BY <1>4, <1>5, <1>6, <1>7 DEF Continue

(* A step of the library keeps its invariant.                               *)
LEMMA MovedIInv ==
  ASSUME LibIInv, NEW p \in Procs, Moved(p)
  PROVE  LibIInv'
<1>1. IInv'
  BY NextIInv DEF Moved, LibIInv
<1>2. ApiTypeOK'
  BY DEF Moved, LibIInv, ApiTypeOK
<1>3. ASSUME NEW o \in Procs, InKernel(o)'
      PROVE  (api[o].fn # "none" /\ call[o].req = Requested(api[o]))'
  <2>1. CASE o # p
    <3>1. api'[o] = api[o] /\ call'[o] = call[o]
      BY <2>1 DEF Moved, LibIInv, ApiTypeOK
    <3>2. api[o].fn # "none" /\ call[o].req = Requested(api[o])
      BY <1>3, <3>1 DEF LibIInv, CallOfApi, InKernel
    <3> QED
      BY <3>1, <3>2 DEF Requested, Check, Creat, Close, Empty
  <2>2. CASE o = p
    <3>1. call'[p].at = "enter"
      BY <1>3, <2>2 DEF Moved, InKernel
    <3>2. api'[p].fn # "none" /\ call'[p].req = Requested(api'[p])
      BY <3>1 DEF Moved
    <3> QED
      BY <2>2, <3>2 DEF Requested, Check, Creat, Close, Empty
  <2> QED
    BY <2>1, <2>2
<1> QED
  BY <1>1, <1>2, <1>3 DEF LibIInv, CallOfApi

(***************************************************************************)
(* A step of the driver leaves the library where it is: the thread it      *)
(* moves stays in its system call or comes back from it.                   *)
(***************************************************************************)
LEMMA StepCall ==
  ASSUME IInv, NEW p \in Procs, Step(p)
  PROVE  /\ \A o \in Procs \ {p} : call'[o] = call[o]
         /\ InKernel(p)
         /\ \/ call'[p].at \in {"user", "oops"}
            \/ call'[p].at \in {"lock", "cs"} /\ call'[p].req = call[p].req
<1>1. CASE Enter(p)
  <2>1. CASE GoTo(p, "lock")
    BY <1>1, <2>1, GoToProperties DEF Enter, IInv, TypeOK, InKernel
  <2>2. CASE \E v \in {0, -1} : Return(p, v)
    BY <1>1, <2>2, ReturnProperties DEF Enter, IInv, TypeOK, InKernel
  <2> QED
    BY <1>1, <2>1, <2>2 DEF Enter
<1>2. CASE Acquire(p)
  BY <1>2, GoToProperties DEF Acquire, IInv, TypeOK, InKernel
<1>3. CASE CriticalSection(p)
  BY <1>3, CsLeaves DEF InKernel
<1>4. CASE Fault(p)
  BY <1>4, OopsProperties DEF Fault, IInv, TypeOK
<1> QED
  BY <1>1, <1>2, <1>3, <1>4 DEF Step

LEMMA DriverIsNext == DriverStep => Next
BY DEF DriverStep, Next

LEMMA DriverIInv ==
  ASSUME LibIInv, DriverStep, UNCHANGED api
  PROVE  LibIInv'
<1>1. IInv'
  BY DriverIsNext, NextIInv DEF LibIInv
<1>2. CallOfApi'
  <2>1. ASSUME NEW p \in Procs, Step(p) PROVE CallOfApi'
    <3>1. \A o \in Procs : InKernel(o)' => InKernel(o) /\ call'[o].req = call[o].req
      BY <2>1, StepCall DEF InKernel, LibIInv
    <3> QED
      BY <3>1 DEF LibIInv, CallOfApi, Requested, Check, Creat, Close, Empty
  <2>2. CASE ExitBegin \/ ExitDrain \/ ExitEnd
    BY <2>2 DEF ExitBegin, ExitDrain, ExitEnd, LibIInv, CallOfApi, InKernel, Requested,
                Check, Creat, Close, Empty
  <2> QED
    BY <2>1, <2>2 DEF DriverStep
<1> QED
  BY <1>1, <1>2 DEF LibIInv, ApiTypeOK

THEOREM InitLibIInv == LibInit => LibIInv
<1> SUFFICES ASSUME LibInit PROVE LibIInv
  OBVIOUS
<1>1. Idle(0) \in Apis
  BY DEF Idle, Apis
<1> QED
  BY <1>1, InitIInv DEF LibInit, LibIInv, ApiTypeOK, CallOfApi, Init, InKernel

THEOREM NextLibIInv == LibIInv /\ [LibNext]_libVars => LibIInv'
<1> SUFFICES ASSUME LibIInv, [LibNext]_libVars PROVE LibIInv'
  OBVIOUS
<1>1. CASE UNCHANGED libVars
  <2>1. UNCHANGED <<vars, api, call>>
    BY <1>1 DEF libVars, vars
  <2>2. IInv'
    BY <2>1, NextIInv DEF LibIInv
  <2> QED
    BY <2>1, <2>2 DEF LibIInv, ApiTypeOK, CallOfApi, InKernel, Requested, Check, Creat, Close, Empty
<1>2. ASSUME NEW p \in Procs, Begin(p) \/ Continue(p) PROVE LibIInv'
  BY <1>2, BeginMoves, ContinueMoves, MovedIInv
<1>3. CASE DriverStep /\ UNCHANGED api
  BY <1>3, DriverIInv
<1> QED
  BY <1>1, <1>2, <1>3 DEF LibNext

THEOREM LibInvariance == LibSpec => []LibIInv
BY InitLibIInv, NextLibIInv, PTL DEF LibSpec

LEMMA LibStepIsDriverStep == LibIInv /\ [LibNext]_libVars => [Next]_vars
<1> SUFFICES ASSUME LibIInv, [LibNext]_libVars PROVE [Next]_vars
  OBVIOUS
<1>1. ASSUME NEW p \in Procs, Begin(p) \/ Continue(p) PROVE [Next]_vars
  BY <1>1, BeginMoves, ContinueMoves DEF Moved
<1>2. CASE UNCHANGED libVars
  BY <1>2 DEF libVars
<1> QED
  BY <1>1, <1>2, DriverIsNext DEF LibNext

(* The programs that call the driver through its library are programs of    *)
(* the driver: whatever the library does between two system calls, every    *)
(* behaviour of library and driver is a behaviour of the driver, its        *)
(* fairness included.                                                       *)
THEOREM LibImplementsDriver == LibSpec => Spec
<1>1. LibInit => Init
  BY DEF LibInit
<1> QED
  BY <1>1, LibStepIsDriverStep, LibInvariance, PTL DEF LibSpec, Spec

(* So the driver's theorems hold under the library: the queue counter is    *)
(* exact and bounded, the queues keep their limits, and a lost ku_lock      *)
(* stays lost whatever the library's callers do.                            *)
THEOREM LibKeepsDriverLimits == LibSpec => [](VolumeBound /\ QueueLimits) /\ WedgeIsForever
BY LibImplementsDriver, VolumeBounded, LimitsHold, LostLockIsForever, PTL

(***************************************************************************)
(* Queues with one key.  A thread that may add one was told that the key   *)
(* was free, or is told so now, when no queue has the key.                 *)
(***************************************************************************)

(* KU_CHECK returns 0 or -1.                                                *)
CheckAnswers ==
  \A p \in Procs : /\ api[p].fn = "ku_msgget" /\ api[p].at = "check"
                   /\ call[p].at = "user"
                   => call[p].ret \in {0, -1}

DupInv == LibIInv /\ CheckAnswers /\ DuplicateBound

(* The queues of a list with key k.                                         *)
Having(s, k) == {i \in DOMAIN s : s[i].key = k}

LEMMA KeySets ==
  ASSUME NEW s \in Seq(Queues), NEW k
  PROVE  /\ Having(s, k) = {i \in 1..Len(s) : s[i].key = k}
         /\ IsFiniteSet(Having(s, k)) /\ Cardinality(Having(s, k)) \in Nat
<1>1. Len(s) \in Nat /\ Having(s, k) = {i \in 1..Len(s) : s[i].key = k}
  BY LenProperties DEF Having
<1>2. Having(s, k) \in SUBSET (1..Len(s)) /\ IsFiniteSet(1..Len(s))
  BY <1>1, FS_Interval
<1> QED
  BY <1>1, <1>2, FS_Subset, FS_CardinalityType

LEMMA KeyIsHaving ==
  ASSUME NEW k
  PROVE  WithKey(k) = Having(msg_q, k) /\ WithKey(k)' = Having(msg_q', k)
BY DEF WithKey, Having

LEMMA ThreadSets ==
  ASSUME NEW G \in SUBSET Procs
  PROVE  /\ IsFiniteSet(G) /\ Cardinality(G) \in Nat
         /\ Cardinality(G) <= Cardinality(Procs) /\ Cardinality(Procs) \in Nat
BY FS_Subset, FS_CardinalityType, KuIpcAssumption

LEMMA GettingThreads ==
  ASSUME NEW k
  PROVE  Getting(k) \in SUBSET Procs /\ Getting(k)' \in SUBSET Procs
BY DEF Getting

(* The first queue with a key is there when there is one.                   *)
LEMMA NotFound ==
  ASSUME TypeOK, NEW k, Find(k) = {}
  PROVE  WithKey(k) = {}
<1> SUFFICES ASSUME WithKey(k) # {} PROVE FALSE
  OBVIOUS
<1>1. WithKey(k) = {i \in 1..Len(msg_q) : msg_q[i].key = k}
  BY KeySets, KeyIsHaving DEF TypeOK
<1>2. WithKey(k) \in SUBSET Nat
  BY <1>1
<1>3. PICK i \in WithKey(k) : \A j \in WithKey(k) : i <= j
  BY <1>2, LeastElement
<1>4. i \in DOMAIN msg_q /\ msg_q[i].key = k
  BY <1>3 DEF WithKey
<1>5. ASSUME NEW h \in 1..(i - 1) PROVE msg_q[h].key # k
  <2>1. i \in 1..Len(msg_q) /\ Len(msg_q) \in Nat
    BY <1>1, <1>3, LenProperties DEF TypeOK
  <2>2. h \in 1..Len(msg_q) /\ ~(i <= h)
    BY <2>1
  <2>3. h \notin WithKey(k)
    BY <1>3, <2>2
  <2> QED
    BY <1>1, <2>2, <2>3
<1> QED
  BY <1>4, <1>5 DEF Find

(* The bound for one key.                                                   *)
KeyBound(k) == Cardinality(WithKey(k)) + Cardinality(Getting(k)) <= Cardinality(Procs)

(* What keeps it: nothing is added; or no queue has the key.                *)
LEMMA NothingAdded ==
  ASSUME TypeOK, TypeOK', NEW k, KeyBound(k),
         Cardinality(WithKey(k)') <= Cardinality(WithKey(k)),
         Getting(k)' \subseteq Getting(k)
  PROVE  KeyBound(k)'
<1>1. Cardinality(WithKey(k)) \in Nat /\ Cardinality(WithKey(k)') \in Nat
  BY KeySets, KeyIsHaving DEF TypeOK
<1>2. /\ IsFiniteSet(Getting(k)) /\ Cardinality(Getting(k)) \in Nat
      /\ Cardinality(Getting(k)') \in Nat /\ Cardinality(Procs) \in Nat
  BY GettingThreads, ThreadSets
<1>3. Cardinality(Getting(k)') <= Cardinality(Getting(k))
  BY <1>2, FS_Subset
<1> QED
  BY <1>1, <1>2, <1>3 DEF KeyBound

LEMMA NoneWithKey ==
  ASSUME NEW k, WithKey(k)' = {}
  PROVE  KeyBound(k)'
<1>1. /\ Cardinality(Getting(k)') \in Nat /\ Cardinality(Procs) \in Nat
      /\ Cardinality(Getting(k)') <= Cardinality(Procs)
  BY GettingThreads, ThreadSets
<1>2. Cardinality(WithKey(k)') = 0
  BY FS_EmptySet
<1> QED
  BY <1>1, <1>2 DEF KeyBound

(* The queues with a key after one of them, or another, is removed.         *)
LEMMA FewerWithKey ==
  ASSUME NEW s \in Seq(Queues), NEW i \in 1..Len(s), NEW k
  PROVE  Cardinality(Having(RemoveAt(s, i), k)) <= Cardinality(Having(s, k))
<1> DEFINE t == RemoveAt(s, i)
           V == Having(t, k)
           W == Having(s, k)
           old == [j \in V |-> IF j < i THEN j ELSE j + 1]
<1>1. /\ t \in Seq(Queues) /\ Len(t) = Len(s) - 1 /\ Len(s) \in Nat
      /\ \A j \in 1..(Len(s) - 1) : t[j] = IF j < i THEN s[j] ELSE s[j + 1]
  BY RemoveAtProperties, LenProperties
<1> HIDE DEF t
<1>2. W = {j \in 1..Len(s) : s[j].key = k} /\ IsFiniteSet(W)
  BY KeySets
<1>3. V = {j \in 1..(Len(s) - 1) : t[j].key = k}
  BY <1>1, KeySets
<1> HIDE DEF V, W
<1>4. old \in Injection(V, W)
  <2>1. \A j \in V : old[j] \in W
    BY <1>1, <1>2, <1>3
  <2>2. \A a, b \in V : old[a] = old[b] => a = b
    BY <1>3
  <2> QED
    BY <2>1, <2>2 DEF Injection, IsInjective
<1> QED
  BY <1>2, <1>4, FS_Injection DEF V, W, t

(* A step of the library tells nobody that a key is free: it only takes a   *)
(* thread that was told so on to KU_CREAT.                                  *)
LEMMA LibAddsNothing ==
  ASSUME DupInv, NEW p \in Procs, Begin(p) \/ Continue(p), NEW k
  PROVE  Getting(k)' \subseteq Getting(k)
<1>1. Moved(p)
  BY BeginMoves, ContinueMoves DEF DupInv
<1>2. ASSUME NEW o \in Procs \ {p} PROVE o \in Getting(k)' <=> o \in Getting(k)
  BY <1>1 DEF Moved, Getting, InKernel, DupInv, LibIInv, ApiTypeOK
<1>3. ASSUME p \in Getting(k)' PROVE p \in Getting(k)
  <2>1. /\ api'[p].fn = "ku_msgget" /\ api'[p].at = "creat" /\ api'[p].key = k
        /\ call'[p].at = "enter"
    BY <1>1, <1>3 DEF Moved, Getting, InKernel
  <2>2. Checked(p) /\ SysCall(p, Creat(api[p].key)) /\ api' = [api EXCEPT ![p].at = "creat"]
    <3>1. \A v : ~Done(p, v)
      BY <2>1 DEF Done, Idle, DupInv, LibIInv, ApiTypeOK
    <3>2. ~Begin(p)
      BY <2>1 DEF Begin, BeginGet, BeginClose, BeginSnd, BeginRcv, DupInv, LibIInv, ApiTypeOK
    <3>3. ~Written(p)
      BY <2>1, <3>1 DEF Written, Returned
    <3>5. ~Polled(p)
      <4>1. api[p] \in Apis
        BY DEF DupInv, LibIInv, ApiTypeOK
      <4>2. Polled(p) => api[p].fn = "ku_msgrcv"
        BY DEF Polled, Returned
      <4>3. api' = [api EXCEPT ![p].at = "read"] => api'[p].fn = api[p].fn
        BY <4>1 DEF Apis, DupInv, LibIInv, ApiTypeOK
      <4> QED
        BY <2>1, <3>1, <4>2, <4>3 DEF Polled
    <3>4. ~Created(p) /\ ~Closed(p) /\ ~Received(p)
      BY <3>1 DEF Created, Closed, Received
    <3> QED
      BY <3>1, <3>2, <3>3, <3>4, <3>5 DEF Continue, Checked
  <2>3. /\ api[p].fn = "ku_msgget" /\ api[p].at = "check" /\ call[p].at = "user"
        /\ api[p].key = k /\ Status(call[p].ret) # -1
    <3>1. /\ api[p].fn = "ku_msgget" /\ api[p].at = "check" /\ call[p].at = "user"
      BY <2>2 DEF Checked, Returned
    <3>2. Status(call[p].ret) # -1
      <4>1. \A v : ~Done(p, v)
        BY <2>1 DEF Done, Idle, DupInv, LibIInv, ApiTypeOK
      <4> QED
        BY <2>2, <4>1 DEF Checked
    <3>3. api[p].key = k
      BY <2>1, <2>2, <3>1, ApiFields DEF DupInv, LibIInv, ApiTypeOK
    <3> QED
      BY <3>1, <3>2, <3>3
  <2>4. call[p].ret = 0
    BY <2>3 DEF DupInv, CheckAnswers, Status
  <2> QED
    BY <2>3, <2>4 DEF Getting
<1>4. Getting(k)' \subseteq Procs
  BY GettingThreads
<1> QED
  BY <1>2, <1>3, <1>4

LEMMA LibCheckAnswers ==
  ASSUME DupInv, NEW p \in Procs, Begin(p) \/ Continue(p)
  PROVE  CheckAnswers'
<1>1. Moved(p)
  BY BeginMoves, ContinueMoves DEF DupInv
<1> QED
  BY <1>1 DEF Moved, CheckAnswers, DupInv, LibIInv, ApiTypeOK

(* A call that returns from KU_CHECK with 0 saw no queue of its key.        *)
LEMMA CheckedFree ==
  ASSUME DupInv, NEW p \in Procs, Step(p), call'[p].at = "user",
         call[p].req.op = "KU_CHECK"
  PROVE  /\ call'[p].ret \in {0, -1}
         /\ call'[p].ret = 0 => WithKey(call[p].req.key) = {} /\ UNCHANGED msg_q
<1> DEFINE k == call[p].req.key
<1>1. TypeOK /\ IInv
  BY DEF DupInv, LibIInv, IInv
<1>2. ASSUME NEW v \in Int, Return(p, v) PROVE call'[p].ret = v
  BY <1>1, <1>2 DEF Return, TypeOK
<1>3. CASE Enter(p)
  <2>1. ~GoTo(p, "lock")
    BY <1>1, <1>3, GoToProperties DEF Enter, TypeOK
  <2>2. ~MustLock(call[p].req) /\ Return(p, 0)
    BY <1>3, <2>1 DEF Enter
  <2>3. msg_q = <<>>
    BY <2>2 DEF MustLock
  <2>4. WithKey(k) = {}
    <3>1. Find(k) = {}
      BY <2>3 DEF Find
    <3> QED
      BY <1>1, <3>1, NotFound
  <2> QED
    BY <1>2, <1>3, <2>2, <2>4 DEF Enter
<1>4. CASE CriticalSection(p)
  <2>1. KU_CHECK(p)
    BY <1>4 DEF CriticalSection, ku_ipc_read, ku_ipc_write, KU_CREAT, KU_CLOSE, KU_EMPTY, InCs
  <2>2. CASE Find(k) # {}
    BY <1>2, <2>1, <2>2 DEF KU_CHECK
  <2>3. CASE Find(k) = {}
    BY <1>1, <1>2, <2>1, <2>3, NotFound DEF KU_CHECK
  <2> QED
    BY <2>2, <2>3
<1>5. ~Acquire(p) /\ ~Fault(p)
  BY <1>1, GoToProperties, OopsProperties DEF Acquire, Fault, TypeOK
<1> QED
  BY <1>3, <1>4, <1>5 DEF Step

LEMMA DriverCheckAnswers ==
  ASSUME DupInv, DriverStep, UNCHANGED api
  PROVE  CheckAnswers'
<1>1. ASSUME NEW p \in Procs, Step(p) PROVE CheckAnswers'
  <2>1. /\ \A o \in Procs \ {p} : call'[o] = call[o]
        /\ InKernel(p)
    BY <1>1, StepCall DEF DupInv, LibIInv
  <2>2. ASSUME api[p].fn = "ku_msgget", api[p].at = "check", call'[p].at = "user"
        PROVE  call'[p].ret \in {0, -1}
    <3>1. call[p].req.op = "KU_CHECK"
      <4>1. call[p].req = Requested(api[p])
        BY <2>1 DEF DupInv, LibIInv, CallOfApi
      <4>2. Requested(api[p]) = Check(api[p].key)
        BY <2>2 DEF Requested
      <4> QED
        BY <4>1, <4>2 DEF Check
    <3> QED
      BY <1>1, <2>2, <3>1, CheckedFree
  <2> QED
    BY <2>1, <2>2 DEF DupInv, CheckAnswers
<1>2. CASE ExitBegin \/ ExitDrain \/ ExitEnd
  BY <1>2 DEF ExitBegin, ExitDrain, ExitEnd, DupInv, CheckAnswers
<1> QED
  BY <1>1, <1>2 DEF DriverStep

(* What a critical section does to the queues of a key.                     *)
LEMMA CsWithKey ==
  ASSUME IInv, NEW p \in Procs, CriticalSection(p), NEW k
  PROVE  \/ Cardinality(WithKey(k)') <= Cardinality(WithKey(k))
         \/ /\ KU_CREAT(p) /\ call[p].req.key = k
            /\ Cardinality(WithKey(k)') = Cardinality(WithKey(k)) + 1
<1>1. TypeOK /\ msg_q \in Seq(Queues) /\ Len(msg_q) \in Nat
  BY LenProperties DEF IInv, TypeOK
<1>2. Cardinality(Having(msg_q, k)) \in Nat
  BY <1>1, KeySets
<1>3. ASSUME NEW i \in 1..Len(msg_q), NEW q \in Queues, q.key = msg_q[i].key,
             msg_q' = [msg_q EXCEPT ![i] = q]
      PROVE  Having(msg_q', k) = Having(msg_q, k)
  BY <1>1, <1>3 DEF Having
<1>4. CASE UNCHANGED msg_q
  BY <1>2, <1>4, KeyIsHaving
<1>5. CASE ku_ipc_read(p)
  <2>1. ASSUME NEW i \in Find(call[p].req.key),
               NEW j \in Selected(msg_q[i].msgs, call[p].req),
               msg_q' = [msg_q EXCEPT ![i] = Without(@, j)]
        PROVE  Having(msg_q', k) = Having(msg_q, k)
    <3>1. i \in 1..Len(msg_q) /\ msg_q[i] \in Queues /\ msg_q[i].msgs \in Seq(Messages)
      BY <1>1, FindInList
    <3>2. Without(msg_q[i], j) \in Queues
      BY <3>1, SelectedInQueue, WithoutType
    <3>3. Without(msg_q[i], j).key = msg_q[i].key
      BY <3>1 DEF Without, Queues
    <3> QED
      BY <1>3, <2>1, <3>1, <3>2, <3>3
  <2> QED
    BY <1>2, <1>4, <1>5, <2>1, KeyIsHaving DEF ku_ipc_read
<1>6. CASE ku_ipc_write(p)
  <2> DEFINE r == call[p].req
             m == [type |-> r.type, size |-> r.size, data |-> r.data, sent |-> ubuf[p][r.data]]
  <2>1. m \in Messages
    <3>1. InKernel(p) /\ r.op = "write"
      BY <1>6 DEF ku_ipc_write, InCs, InKernel
    <3>2. r \in WriteReq
      BY <1>1, <3>1, RequestTypes DEF TypeOK
    <3> QED
      BY <1>1, <3>2, SentMessageType
  <2>2. ASSUME NEW i \in Find(call[p].req.key), msg_q' = [msg_q EXCEPT ![i] = With(@, m)]
        PROVE  Having(msg_q', k) = Having(msg_q, k)
    <3>1. i \in 1..Len(msg_q) /\ msg_q[i] \in Queues
      BY <1>1, FindInList
    <3>2. With(msg_q[i], m) \in Queues
      BY <2>1, <3>1, WithType
    <3>3. With(msg_q[i], m).key = msg_q[i].key
      BY <3>1 DEF With, Queues
    <3> QED
      BY <1>3, <2>2, <3>1, <3>2, <3>3
  <2> QED
    BY <1>2, <1>4, <1>6, <2>2, KeyIsHaving DEF ku_ipc_write
<1>7. CASE KU_CLOSE(p)
  <2>1. ASSUME NEW i \in Find(call[p].req.key), msg_q' = RemoveAt(msg_q, i)
        PROVE  Cardinality(Having(msg_q', k)) <= Cardinality(Having(msg_q, k))
    BY <1>1, <2>1, FindInList, FewerWithKey
  <2> QED
    BY <1>2, <1>4, <1>7, <2>1, KeyIsHaving DEF KU_CLOSE
<1>8. CASE KU_CREAT(p)
  <2> DEFINE c == call[p].req.key
             n == Len(msg_q) + 1
  <2>1. c \in Keys
    <3>1. InKernel(p)
      BY <1>8 DEF KU_CREAT, InCs, InKernel
    <3> QED
      BY <1>1, <3>1, RequestTypes DEF TypeOK
  <2>2. NewQueue(c) \in Queues /\ NewQueue(c).key = c
    BY <2>1, NewQueueType DEF NewQueue
  <2>3. /\ msg_q' \in Seq(Queues) /\ Len(msg_q') = n
        /\ \A j \in 1..Len(msg_q) : msg_q'[j] = msg_q[j]
        /\ msg_q'[n] = NewQueue(c)
    BY <1>1, <1>8, <2>2, AppendProperties DEF KU_CREAT
  <2>4. /\ Having(msg_q', k) = {j \in 1..n : msg_q'[j].key = k}
        /\ Having(msg_q, k) = {j \in 1..Len(msg_q) : msg_q[j].key = k}
        /\ IsFiniteSet(Having(msg_q, k))
    BY <1>1, <2>3, KeySets
  <2>5. CASE c = k
    <3>1. Having(msg_q', k) = Having(msg_q, k) \cup {n} /\ n \notin Having(msg_q, k)
      BY <1>1, <2>2, <2>3, <2>4, <2>5
    <3>2. Cardinality(Having(msg_q', k)) = Cardinality(Having(msg_q, k)) + 1
      BY <2>4, <3>1, FS_AddElement
    <3> QED
      BY <1>8, <2>5, <3>2, KeyIsHaving
  <2>6. CASE c # k
    <3>1. Having(msg_q', k) = Having(msg_q, k)
      BY <1>1, <2>2, <2>3, <2>4, <2>6
    <3> QED
      BY <1>2, <3>1, KeyIsHaving
  <2> QED
    BY <2>5, <2>6
<1> QED
  BY <1>4, <1>5, <1>6, <1>7, <1>8 DEF CriticalSection, KU_CHECK, KU_EMPTY

(* The same of a step of the driver: who is told that a key is free now,    *)
(* and who leaves KU_CREAT.                                                 *)
LEMMA DriverGetting ==
  ASSUME DupInv, NEW p \in Procs, Step(p), UNCHANGED api, NEW k
  PROVE  /\ \/ Getting(k)' \subseteq Getting(k)
            \/ WithKey(k)' = {}
         /\ KU_CREAT(p) /\ call[p].req.key = k =>
              p \in Getting(k) /\ Getting(k)' \subseteq Getting(k) \ {p}
<1>1. /\ \A o \in Procs \ {p} : call'[o] = call[o]
      /\ InKernel(p)
      /\ \/ call'[p].at \in {"user", "oops"}
         \/ call'[p].at \in {"lock", "cs"} /\ call'[p].req = call[p].req
  BY StepCall DEF DupInv, LibIInv
<1>2. call[p].req = Requested(api[p]) /\ api[p] \in Apis /\ api[p].fn # "none"
  BY <1>1 DEF DupInv, LibIInv, CallOfApi, ApiTypeOK
<1>3. \A o \in Procs \ {p} : o \in Getting(k)' => o \in Getting(k)
  BY <1>1 DEF Getting, InKernel
<1>4. Getting(k)' \subseteq Procs
  BY GettingThreads
<1>5. ASSUME p \in Getting(k)', p \notin Getting(k) PROVE WithKey(k)' = {}
  <2>1. /\ api[p].fn = "ku_msgget" /\ api[p].at = "check" /\ api[p].key = k
        /\ call'[p].at = "user" /\ call'[p].ret = 0
    BY <1>1, <1>5 DEF Getting, InKernel
  <2>2. Requested(api[p]) = Check(k)
    BY <2>1 DEF Requested
  <2>3. call[p].req.op = "KU_CHECK" /\ call[p].req.key = k
    BY <1>2, <2>2 DEF Check
  <2>4. WithKey(k) = {} /\ UNCHANGED msg_q
    BY <2>1, <2>3, CheckedFree
  <2> QED
    BY <2>4 DEF WithKey
<1>6. ASSUME KU_CREAT(p), call[p].req.key = k
      PROVE  p \in Getting(k) /\ p \notin Getting(k)'
  <2>1. call[p].req.op = "KU_CREAT"
    BY <1>6 DEF KU_CREAT, InCs
  <2>2. api[p].fn = "ku_msgget" /\ api[p].at = "creat" /\ api[p].key = k
    <3>1. CASE api[p].fn = "ku_msgget"
      <4>1. api[p].at \in {"check", "creat"}
        BY <1>2, <3>1, ApiFields
      <4>2. api[p].at = "check" => Requested(api[p]) = Check(api[p].key)
        BY <3>1 DEF Requested
      <4>3. api[p].at = "creat" => Requested(api[p]) = Creat(api[p].key)
        BY <3>1 DEF Requested
      <4> QED
        BY <1>2, <1>6, <2>1, <3>1, <4>1, <4>2, <4>3 DEF Check, Creat
    <3>2. CASE api[p].fn = "ku_msgclose"
      <4>1. Requested(api[p]) = Close(api[p].key)
        BY <3>2 DEF Requested
      <4> QED
        BY <1>2, <2>1, <4>1 DEF Close
    <3>3. CASE api[p].fn = "ku_msgsnd"
      <4>1. Requested(api[p]) = api[p].req /\ api[p].req \in WriteReq
        BY <1>2, <3>3, ApiFields DEF Requested
      <4> QED
        BY <1>2, <2>1, <4>1 DEF WriteReq
    <3>4. CASE api[p].fn = "ku_msgrcv"
      <4>1. api[p].req \in ReadReq /\ api[p].at \in {"poll", "read"}
        BY <1>2, <3>4, ApiFields
      <4>2. Requested(api[p]) = api[p].req \/ Requested(api[p]) = Empty(api[p].req.key)
        BY <3>4, <4>1 DEF Requested
      <4> QED
        BY <1>2, <2>1, <4>1, <4>2 DEF ReadReq, Empty
    <3> QED
      BY <1>2, <3>1, <3>2, <3>3, <3>4 DEF Apis
  <2>3. call'[p].at = "user"
    BY <1>6, RequestTypes, <1>1 DEF KU_CREAT, Return, DupInv, LibIInv, IInv, TypeOK
  <2> QED
    BY <1>1, <2>2, <2>3 DEF Getting, InKernel
<1> QED
  BY <1>3, <1>4, <1>5, <1>6

LEMMA DriverKeyBound ==
  ASSUME DupInv, TypeOK', DriverStep, UNCHANGED api, NEW k \in Keys
  PROVE  KeyBound(k)'
<1>1. TypeOK /\ IInv /\ KeyBound(k)
  BY DEF DupInv, LibIInv, IInv, DuplicateBound, KeyBound
<1>2. Cardinality(WithKey(k)) \in Nat
  BY <1>1, KeySets, KeyIsHaving DEF TypeOK
<1>3. CASE ExitBegin \/ ExitDrain \/ ExitEnd
  <2>1. Getting(k)' = Getting(k)
    BY <1>3 DEF ExitBegin, ExitDrain, ExitEnd, Getting, InKernel
  <2>2. CASE UNCHANGED msg_q
    BY <1>1, <1>2, <2>1, <2>2, NothingAdded DEF WithKey
  <2>3. CASE msg_q' = <<>>
    BY <2>3, NoneWithKey DEF WithKey
  <2> QED
    BY <1>3, <2>2, <2>3 DEF ExitBegin, ExitDrain, ExitEnd
<1>4. ASSUME NEW p \in Procs, Step(p) PROVE KeyBound(k)'
  <2>1. CASE WithKey(k)' = {}
    BY <2>1, NoneWithKey
  <2>2. CASE WithKey(k)' # {}
    <3>1. Getting(k)' \subseteq Getting(k)
      BY <1>4, <2>2, DriverGetting
    <3>2. CASE Cardinality(WithKey(k)') <= Cardinality(WithKey(k))
      BY <1>1, <3>1, <3>2, NothingAdded
    <3>3. CASE /\ KU_CREAT(p) /\ call[p].req.key = k
               /\ Cardinality(WithKey(k)') = Cardinality(WithKey(k)) + 1
      <4>1. p \in Getting(k) /\ Getting(k)' \subseteq Getting(k) \ {p}
        BY <1>4, <3>3, DriverGetting
      <4>2. IsFiniteSet(Getting(k)) /\ Cardinality(Getting(k)) \in Nat /\ Cardinality(Procs) \in Nat
        BY GettingThreads, ThreadSets
      <4>3. /\ Cardinality(Getting(k) \ {p}) = Cardinality(Getting(k)) - 1
            /\ IsFiniteSet(Getting(k) \ {p})
        BY <4>1, <4>2, FS_RemoveElement
      <4>4. /\ Cardinality(Getting(k)') <= Cardinality(Getting(k) \ {p})
            /\ Cardinality(Getting(k)') \in Nat
        BY <4>1, <4>3, FS_Subset, GettingThreads, ThreadSets
      <4> QED
        BY <1>1, <1>2, <3>3, <4>2, <4>3, <4>4 DEF KeyBound
    <3>4. CASE ~CriticalSection(p)
      <4>1. UNCHANGED msg_q
        BY <1>4, <3>4 DEF Step, Enter, Acquire, Fault
      <4> QED
        BY <1>1, <1>2, <3>1, <4>1, NothingAdded DEF WithKey
    <3> QED
      BY <1>1, <3>2, <3>3, <3>4, CsWithKey
  <2> QED
    BY <2>1, <2>2
<1> QED
  BY <1>3, <1>4 DEF DriverStep

THEOREM NextDupInv == DupInv /\ [LibNext]_libVars => DupInv'
<1> SUFFICES ASSUME DupInv, [LibNext]_libVars PROVE DupInv'
  OBVIOUS
<1>1. LibIInv' /\ TypeOK' /\ TypeOK
  BY NextLibIInv DEF DupInv, LibIInv, IInv
<1>2. CheckAnswers'
  BY LibCheckAnswers, DriverCheckAnswers
     DEF LibNext, libVars, vars, DupInv, CheckAnswers
<1>3. ASSUME NEW k \in Keys PROVE KeyBound(k)'
  <2>1. KeyBound(k) /\ Cardinality(WithKey(k)) \in Nat
    BY <1>1, <1>3, KeySets, KeyIsHaving DEF TypeOK, DupInv, DuplicateBound, KeyBound
  <2>2. CASE UNCHANGED libVars
    BY <1>1, <2>1, <2>2, NothingAdded DEF libVars, vars, WithKey, Getting, InKernel
  <2>3. ASSUME NEW p \in Procs, Begin(p) \/ Continue(p) PROVE KeyBound(k)'
    <3>1. UNCHANGED msg_q
      BY <2>3, BeginMoves, ContinueMoves DEF Moved, DupInv
    <3>2. Getting(k)' \subseteq Getting(k)
      BY <2>3, LibAddsNothing
    <3> QED
      BY <1>1, <2>1, <3>1, <3>2, NothingAdded DEF WithKey
  <2>4. CASE DriverStep /\ UNCHANGED api
    BY <1>1, <2>4, DriverKeyBound
  <2> QED
    BY <2>2, <2>3, <2>4 DEF LibNext
<1> QED
  BY <1>1, <1>2, <1>3 DEF DupInv, DuplicateBound, KeyBound

(* There are never more queues of one key than threads, together with the   *)
(* threads that were told the key is free: ku_msgget's check and create     *)
(* race, but every thread wins at most one race.                            *)
THEOREM DuplicatesBounded == LibSpec => []DuplicateBound
<1>1. LibInit => DupInv
  <2> SUFFICES ASSUME LibInit PROVE DupInv
    OBVIOUS
  <2>1. LibIInv /\ CheckAnswers
    BY InitLibIInv DEF LibInit, CheckAnswers, Idle
  <2>2. ASSUME NEW k \in Keys PROVE KeyBound(k)
    <3>1. Getting(k) = {} /\ WithKey(k) = {}
      BY DEF LibInit, Init, Idle, Getting, WithKey
    <3> QED
      BY <3>1, FS_EmptySet, FS_CardinalityType, KuIpcAssumption DEF KeyBound
  <2> QED
    BY <2>1, <2>2 DEF DupInv, DuplicateBound, KeyBound
<1>2. DupInv => DuplicateBound
  BY DEF DupInv
<1> QED
  BY <1>1, <1>2, NextDupInv, PTL DEF LibSpec
=============================================================================
