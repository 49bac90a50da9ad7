---------------------------- MODULE KuIpcProofs ----------------------------
(***************************************************************************)
(* Theorems about the message-queue driver, for any number of threads, any *)
(* keys, types and sizes, and any KUIPC_MAXMSG and KUIPC_MAXVOL.           *)
(***************************************************************************)
EXTENDS KuIpcScan, Induction, TLAPS, SequenceTheorems, FiniteSetTheorems

(***************************************************************************)
(* Lemmas about the operators of the model.                                *)
(***************************************************************************)

(* Removing an element gives a sequence of the same set, one shorter, that  *)
(* keeps the others in order.                                               *)
LEMMA RemoveAtProperties ==
  ASSUME NEW S, NEW s \in Seq(S), NEW i \in 1..Len(s)
  PROVE  /\ RemoveAt(s, i) \in Seq(S)
         /\ Len(RemoveAt(s, i)) = Len(s) - 1
         /\ \A j \in 1..(Len(s) - 1) :
              RemoveAt(s, i)[j] = IF j < i THEN s[j] ELSE s[j + 1]
<1> DEFINE a == SubSeq(s, 1, i - 1)
           b == SubSeq(s, i + 1, Len(s))
<1>1. /\ a \in Seq(S) /\ Len(a) = i - 1
      /\ \A j \in 1..(i - 1) : a[j] = s[j]
  <2>1. \A j \in 1..(i - 1) : s[j] \in S
    OBVIOUS
  <2> QED
    BY <2>1, SubSeqProperties
<1>2. /\ b \in Seq(S) /\ Len(b) = Len(s) - i
      /\ \A j \in 1..(Len(s) - i) : b[j] = s[j + i]
  <2>1. \A j \in (i + 1)..Len(s) : s[j] \in S
    OBVIOUS
  <2> QED
    BY <2>1, SubSeqProperties
<1>3. /\ a \o b \in Seq(S)
      /\ Len(a \o b) = Len(a) + Len(b)
      /\ \A j \in 1..(Len(a) + Len(b)) :
           (a \o b)[j] = IF j <= Len(a) THEN a[j] ELSE b[j - Len(a)]
  BY <1>1, <1>2, ConcatProperties
<1>4. RemoveAt(s, i) = a \o b
  BY DEF RemoveAt
<1>5. ASSUME NEW j \in 1..(Len(s) - 1)
      PROVE  RemoveAt(s, i)[j] = IF j < i THEN s[j] ELSE s[j + 1]
  <2> HIDE DEF a, b
  <2>1. j \in 1..(Len(a) + Len(b))
    BY <1>1, <1>2
  <2>2. RemoveAt(s, i)[j] = IF j <= Len(a) THEN a[j] ELSE b[j - Len(a)]
    BY <1>3, <1>4, <2>1
  <2>3. CASE j < i
    BY <1>1, <2>2, <2>3
  <2>4. CASE ~(j < i)
    <3>1. j - Len(a) \in 1..(Len(s) - i) /\ ~(j <= Len(a))
      BY <1>1, <2>4
    <3>2. RemoveAt(s, i)[j] = b[j - Len(a)]
      BY <2>2, <3>1
    <3>3. b[j - Len(a)] = s[j - Len(a) + i]
      BY <1>2, <3>1
    <3>4. j - Len(a) + i = j + 1
      BY <1>1
    <3> QED
      BY <2>4, <3>2, <3>3, <3>4
  <2> QED
    BY <2>3, <2>4
<1>6. Len(RemoveAt(s, i)) = Len(s) - 1
  <2> HIDE DEF a, b
  <2>1. Len(RemoveAt(s, i)) = Len(a) + Len(b)
    BY <1>3, <1>4
  <2>2. Len(a) = i - 1 /\ Len(b) = Len(s) - i
    BY <1>1, <1>2
  <2> QED
    BY <2>1, <2>2
<1>7. RemoveAt(s, i) \in Seq(S)
  BY <1>3, <1>4
<1> QED
  BY <1>5, <1>6, <1>7

(***************************************************************************)
(* The arithmetic of ints.                                                 *)
(***************************************************************************)
LEMMA NoMultipleBetween ==
  ASSUME NEW w \in Nat, w > 0, NEW d \in Int, w * d < w, -w < w * d
  PROVE  d = 0
<1>1. CASE d >= 1
  <2>1. w * d >= w
    BY <1>1
  <2> QED
    BY <2>1
<1>2. CASE d <= -1
  <2>1. w * d <= -w
    BY <1>2
  <2> QED
    BY <2>1
<1> QED
  BY <1>1, <1>2

(* The remainder forgets multiples of the divisor.                          *)
LEMMA SameRemainder ==
  ASSUME NEW w \in Nat, w > 0, NEW a \in Int, NEW k \in Int
  PROVE  (a + w * k) % w = a % w
<1> DEFINE b == a + w * k
           qa == a \div w
           qb == b \div w
           ra == a % w
           rb == b % w
<1>0. w * k \in Int /\ b \in Int
  OBVIOUS
<1>1. qa \in Int /\ ra \in 0..(w - 1) /\ a = w * qa + ra
  OBVIOUS
<1>2. qb \in Int /\ rb \in 0..(w - 1) /\ b = w * qb + rb
  <2> HIDE DEF b
  <2> QED
    BY <1>0
<1>3. ra - rb = w * (qb - qa - k)
  <2>1. w * (qb - qa - k) = w * qb - w * qa - w * k
    <3> HIDE DEF qa, qb
    <3> QED
      BY <1>1, <1>2
  <2> HIDE DEF qa, qb, ra, rb
  <2> QED
    BY <1>0, <1>1, <1>2, <2>1
<1>4. qb - qa - k = 0
  <2> HIDE DEF qa, qb, ra, rb
  <2>1. qb - qa - k \in Int
    BY <1>1, <1>2
  <2>2. ra - rb < w /\ -w < ra - rb
    BY <1>1, <1>2
  <2> QED
    BY <1>3, <2>1, <2>2, NoMultipleBetween
<1> QED
  <2> HIDE DEF qa, qb, ra, rb
  <2>1. w * 0 = 0
    OBVIOUS
  <2>2. ra - rb = 0
    BY <1>3, <1>4, <2>1
  <2>3. ra = rb
    BY <1>1, <1>2, <2>2
  <2> QED
    BY <2>3 DEF ra, rb

(* A sum may be wrapped early: the low bits of the result are the same.     *)
LEMMA WrapOfWrap ==
  ASSUME NEW a \in Int, NEW b \in Int
  PROVE  Wrap(Wrap(a) + b) = Wrap(a + b) /\ Wrap(Wrap(a) - b) = Wrap(a - b)
<1> DEFINE w == 2 * (MaxInt + 1)
           x == a + MaxInt + 1
           q == x \div w
           r == x % w
<1>1. w \in Nat /\ w > 0 /\ x \in Int
  BY KuIpcAssumption
<1>2. q \in Int /\ r \in Int /\ x = w * q + r
  <2> HIDE DEF w, x
  <2> QED
    BY <1>1
<1>3. Wrap(a) = r - (MaxInt + 1)
  BY DEF Wrap
<1> HIDE DEF q, r
<1>4. -q \in Int /\ w * (-q) = -(w * q) /\ w * q \in Int
  <2> HIDE DEF w
  <2> QED
    BY <1>1, <1>2
<1>5. ASSUME NEW c \in Int PROVE Wrap(Wrap(a) + c) = Wrap(a + c)
  <2>1. Wrap(a) + c + MaxInt + 1 = (a + c + MaxInt + 1) + w * (-q)
    <3> HIDE DEF w
    <3> QED
      BY <1>2, <1>3, <1>4, KuIpcAssumption
  <2>2. (a + c + MaxInt + 1 + w * (-q)) % w = (a + c + MaxInt + 1) % w
    <3>1. a + c + MaxInt + 1 \in Int
      BY KuIpcAssumption
    <3> HIDE DEF w
    <3> QED
      BY <1>1, <1>4, <3>1, SameRemainder
  <2> QED
    BY <2>1, <2>2 DEF Wrap
<1>6. Wrap(Wrap(a) + (-b)) = Wrap(a + (-b))
  BY <1>5
<1>7. Wrap(a) \in Int
  BY <1>2, <1>3, KuIpcAssumption
<1>8. Wrap(a) + (-b) = Wrap(a) - b /\ a + (-b) = a - b
  BY <1>7
<1> QED
  BY <1>5, <1>6, <1>8

LEMMA WrapIsInt == \A x \in Int : Wrap(x) \in Ints
BY KuIpcAssumption DEF Wrap, Ints

LEMMA WrapInside ==
  ASSUME NEW x \in Ints
  PROVE  Wrap(x) = x
<1> DEFINE y == x + MaxInt + 1
           w == 2 * (MaxInt + 1)
<1>1. w \in Nat /\ w > 0 /\ y \in 0..(w - 1)
  BY KuIpcAssumption DEF Ints
<1>2. y % w = y
  <2> HIDE DEF y, w
  <2> QED
    BY <1>1
<1> QED
  BY <1>2, KuIpcAssumption DEF Wrap, Ints

(* Sizes are ints, of messages and of the callers' buffers.                 *)
LEMMA SizeIsInt ==
  /\ Ints \subseteq Int
  /\ \A m \in Messages : m.size \in Ints /\ m.size \in Int
  /\ \A r \in ReadReq : r.size \in Int
<1>1. Ints \subseteq Int
  BY KuIpcAssumption DEF Ints
<1>2. Sizes \subseteq Ints
  BY KuIpcAssumption
<1> QED
  BY <1>1, <1>2 DEF Messages, ReadReq

(***************************************************************************)
(* Where a call is: what Return, GoTo and Oops do to call.                 *)
(***************************************************************************)
LEMMA ReturnProperties ==
  ASSUME call \in [Procs -> Calls], NEW p \in Procs, NEW v \in Int, Return(p, v)
  PROVE  /\ call' \in [Procs -> Calls]
         /\ call'[p].at = "user"
         /\ \A o \in Procs \ {p} : call'[o] = call[o]
<1>1. [at |-> "user", ret |-> v] \in Calls
  BY DEF Calls
<1> QED
  BY <1>1 DEF Return

LEMMA GoToProperties ==
  ASSUME call \in [Procs -> Calls], NEW p \in Procs, NEW l \in {"enter", "lock", "cs"},
         call[p].at \in {"enter", "lock", "cs"}, GoTo(p, l)
  PROVE  /\ call' \in [Procs -> Calls]
         /\ call'[p].at = l
         /\ call'[p].req = call[p].req
         /\ \A o \in Procs \ {p} : call'[o] = call[o]
<1>1. call[p].req \in Requests
  BY DEF Calls
<1>2. [at |-> l, req |-> call[p].req] \in Calls
  BY <1>1 DEF Calls
<1> QED
  BY <1>2 DEF GoTo

LEMMA OopsProperties ==
  ASSUME call \in [Procs -> Calls], NEW p \in Procs, Oops(p)
  PROVE  /\ call' \in [Procs -> Calls]
         /\ call'[p].at = "oops"
         /\ \A o \in Procs \ {p} : call'[o] = call[o]
<1>1. [at |-> "oops"] \in Calls
  BY DEF Calls
<1> QED
  BY <1>1 DEF Oops

(* Requests are well formed once they are in the kernel.                    *)
LEMMA RequestTypes ==
  ASSUME call \in [Procs -> Calls], NEW p \in Procs, InKernel(p)
  PROVE  /\ call[p].req \in Requests
         /\ call[p].req.key \in Keys
         /\ call[p].req.op = "write" => call[p].req \in WriteReq
         /\ call[p].req.op = "read" => call[p].req \in ReadReq
<1>1. call[p].req \in Requests
  BY DEF Calls, InKernel
<1> QED
  BY <1>1 DEF Requests, IoctlReq, WriteReq, ReadReq

(***************************************************************************)
(* The inductive invariant.  ku_ipc_volume stays a natural number only     *)
(* because it is the number of queues, and it is that only because the     *)
(* critical sections exclude each other and ku_ipc_exit.                   *)
(***************************************************************************)
IInv == TypeOK /\ LockOwner /\ VolumeExact

(* The queue lists the critical sections build are queue lists.             *)
LEMMA NewQueueType ==
  ASSUME NEW k \in Keys
  PROVE  NewQueue(k) \in Queues
BY EmptySeq, KuIpcAssumption DEF NewQueue, Queues, Ints

LEMMA WithType ==
  ASSUME NEW q \in Queues, NEW m \in Messages
  PROVE  With(q, m) \in Queues
<1>1. Append(q.msgs, m) \in Seq(Messages)
  BY AppendProperties DEF Queues
<1>2. q.size \in Int /\ m.size \in Int
  BY SizeIsInt DEF Queues
<1>3. Wrap(q.size + m.size) \in Ints /\ q.count + 1 \in Int
  BY <1>2, WrapIsInt DEF Queues
<1>4. (q.sane /\ m.size \in SaneSizes) \in BOOLEAN
  OBVIOUS
<1> QED
  BY <1>1, <1>3, <1>4 DEF With, Queues

LEMMA WithoutType ==
  ASSUME NEW q \in Queues, NEW j \in 1..Len(q.msgs)
  PROVE  Without(q, j) \in Queues
<1>1. q.msgs \in Seq(Messages)
  BY DEF Queues
<1>2. RemoveAt(q.msgs, j) \in Seq(Messages)
  BY <1>1, RemoveAtProperties
<1>3. q.msgs[j].size \in Int /\ q.size \in Int
  <2>1. q.msgs[j] \in Messages
    BY <1>1, ElementOfSeq
  <2> QED
    BY <2>1, SizeIsInt DEF Queues
<1>4. Wrap(q.size - q.msgs[j].size) \in Ints /\ q.count - 1 \in Int
  BY <1>3, WrapIsInt DEF Queues
<1> QED
  BY <1>2, <1>4 DEF Without, Queues

THEOREM InitIInv == Init => IInv
<1> SUFFICES ASSUME Init PROVE IInv
  OBVIOUS
<1>1. <<>> \in Seq(Queues) /\ Len(<<>>) = 0
  BY EmptySeq
<1>2. [at |-> "user", ret |-> 0] \in Calls
  BY DEF Calls
<1>3. TypeOK
  BY <1>1, <1>2 DEF Init, TypeOK
<1>4. LockOwner
  BY DEF Init, LockOwner
<1>5. VolumeExact
  BY <1>1 DEF Init, VolumeExact
<1> QED
  BY <1>3, <1>4, <1>5 DEF IInv

(***************************************************************************)
(* Steps outside the critical sections.                                    *)
(***************************************************************************)
LEMMA CallIInv ==
  ASSUME IInv, NEW p \in Procs, NEW r \in Requests, Call(p, r)
  PROVE  IInv'
<1>1. [at |-> "enter", req |-> r] \in Calls
  BY DEF Calls
<1>2. /\ call' \in [Procs -> Calls]
      /\ call'[p].at = "enter"
      /\ \A o \in Procs \ {p} : call'[o] = call[o]
  BY <1>1 DEF Call, IInv, TypeOK
<1>3. ubuf' \in [Procs -> [Addrs -> Values]]
  <2>1. CASE r.op = "write"
    <3>1. r.data \in Addrs
      BY <2>1 DEF Requests, IoctlReq, WriteReq, ReadReq
    <3>2. PICK v \in Values : ubuf' = [ubuf EXCEPT ![p][r.data] = v]
      BY <2>1 DEF Call
    <3> QED
      BY <3>1, <3>2 DEF IInv, TypeOK
  <2>2. CASE r.op # "write"
    BY <2>2 DEF Call, IInv, TypeOK
  <2> QED
    BY <2>1, <2>2
<1>4. TypeOK'
  BY <1>2, <1>3 DEF Call, IInv, TypeOK
<1>5. LockOwner'
  BY <1>2 DEF Call, IInv, LockOwner
<1>6. VolumeExact'
  BY DEF Call, IInv, VolumeExact
<1> QED
  BY <1>4, <1>5, <1>6 DEF IInv

LEMMA CallUnloadedIInv ==
  ASSUME IInv, NEW p \in Procs, CallUnloaded(p)
  PROVE  IInv'
<1>1. /\ call' \in [Procs -> Calls]
      /\ call'[p].at = "oops"
      /\ \A o \in Procs \ {p} : call'[o] = call[o]
  BY OopsProperties DEF CallUnloaded, IInv, TypeOK
<1> QED
  BY <1>1 DEF CallUnloaded, IInv, TypeOK, LockOwner, VolumeExact

LEMMA FaultIInv ==
  ASSUME IInv, NEW p \in Procs, Fault(p)
  PROVE  IInv'
<1>1. /\ call' \in [Procs -> Calls]
      /\ call'[p].at = "oops"
      /\ \A o \in Procs \ {p} : call'[o] = call[o]
  BY OopsProperties DEF Fault, IInv, TypeOK
<1> QED
  BY <1>1 DEF Fault, IInv, TypeOK, LockOwner, VolumeExact

LEMMA EnterIInv ==
  ASSUME IInv, NEW p \in Procs, Enter(p)
  PROVE  IInv'
<1>1. /\ call' \in [Procs -> Calls]
      /\ call'[p].at \in {"lock", "user"}
      /\ \A o \in Procs \ {p} : call'[o] = call[o]
  <2>1. CASE GoTo(p, "lock")
    BY <2>1, GoToProperties DEF Enter, IInv, TypeOK
  <2>2. CASE Return(p, IF call[p].req.op = "KU_CHECK" THEN 0 ELSE -1)
    BY <2>2, ReturnProperties DEF IInv, TypeOK
  <2>3. CASE Return(p, -1)
    BY <2>3, ReturnProperties DEF IInv, TypeOK
  <2> QED
    BY <2>1, <2>2, <2>3 DEF Enter
<1> QED
  BY <1>1 DEF Enter, IInv, TypeOK, LockOwner, VolumeExact

LEMMA AcquireIInv ==
  ASSUME IInv, NEW p \in Procs, Acquire(p)
  PROVE  IInv'
<1>1. /\ call' \in [Procs -> Calls]
      /\ call'[p].at = "cs"
      /\ \A o \in Procs \ {p} : call'[o] = call[o]
  BY GoToProperties DEF Acquire, IInv, TypeOK
<1>2. TypeOK'
  BY <1>1 DEF Acquire, IInv, TypeOK
<1>3. LockOwner'
  BY <1>1, KuIpcAssumption DEF Acquire, IInv, LockOwner
<1>4. VolumeExact'
  BY KuIpcAssumption DEF Acquire, IInv, VolumeExact
<1> QED
  BY <1>2, <1>3, <1>4 DEF IInv

(***************************************************************************)
(* The critical sections.                                                  *)
(***************************************************************************)

(* A thread in a critical section is alone there and sees an exact counter. *)
LEMMA InCsProperties ==
  ASSUME IInv, NEW p \in Procs, call[p].at = "cs"
  PROVE  /\ ku_lock = p /\ ku_lock # Rmmod
         /\ InKernel(p)
         /\ ku_ipc_volume = Len(msg_q)
         /\ \A o \in Procs \ {p} : call[o].at # "cs"
<1>1. ku_lock = p
  BY DEF IInv, LockOwner
<1>2. ku_lock # Rmmod
  BY <1>1, KuIpcAssumption
<1> QED
  BY <1>1, <1>2 DEF IInv, LockOwner, VolumeExact, InKernel

(* The queue a list walk stops at is in the list, and what a receive takes  *)
(* is in its queue.                                                         *)
LEMMA FindInList ==
  ASSUME msg_q \in Seq(Queues), NEW k, NEW i \in Find(k)
  PROVE  /\ i \in 1..Len(msg_q)
         /\ msg_q[i] \in Queues
         /\ msg_q[i].msgs \in Seq(Messages)
         /\ msg_q[i].key = k
         /\ \A h \in 1..(i - 1) : msg_q[h].key # k
<1>1. i \in 1..Len(msg_q)
  BY LenProperties DEF Find
<1>2. msg_q[i] \in Queues
  BY <1>1, ElementOfSeq
<1> QED
  BY <1>1, <1>2 DEF Find, Queues

LEMMA SelectedInQueue ==
  ASSUME NEW msgs \in Seq(Messages), NEW r, NEW j \in Selected(msgs, r)
  PROVE  j \in 1..Len(msgs) /\ msgs[j] \in Messages
<1>1. j \in 1..Len(msgs)
  BY LenProperties DEF Selected
<1> QED
  BY <1>1, ElementOfSeq

LEMMA SentMessageType ==
  ASSUME TypeOK, NEW p \in Procs, NEW r \in WriteReq
  PROVE  [type |-> r.type, size |-> r.size, data |-> r.data, sent |-> ubuf[p][r.data]]
           \in Messages
<1>1. r.data \in Addrs
  BY DEF WriteReq
<1>2. ubuf[p][r.data] \in Values
  BY <1>1 DEF TypeOK
<1> QED
  BY <1>1, <1>2 DEF WriteReq, Messages

(* Whatever a critical section does to the queues, when it leaves it is out *)
(* of it for good.                                                          *)
LEMMA LeaveCs ==
  ASSUME IInv, NEW p \in Procs, call[p].at = "cs",
         \A o \in Procs \ {p} : call'[o] = call[o],
         call'[p].at # "cs"
  PROVE  LockOwner'
BY InCsProperties DEF LockOwner

LEMMA ReadIInv ==
  ASSUME IInv, NEW p \in Procs, ku_ipc_read(p)
  PROVE  IInv'
<1> DEFINE r == call[p].req
<1>1. /\ ku_lock = p /\ ku_lock # Rmmod /\ InKernel(p)
      /\ ku_ipc_volume = Len(msg_q) /\ call[p].at = "cs"
  BY InCsProperties DEF ku_ipc_read, InCs
<1>2. r \in ReadReq
  BY <1>1, RequestTypes DEF ku_ipc_read, InCs, IInv, TypeOK
<1>3. /\ msg_q' \in Seq(Queues) /\ Len(msg_q') = Len(msg_q)
      /\ ubuf' \in [Procs -> [Addrs -> Values]]
      /\ \E v \in Int : Return(p, v)
  <2>1. CASE Return(p, -1) /\ UNCHANGED <<msg_q, ubuf>>
    BY <2>1 DEF IInv, TypeOK
  <2>2. ASSUME NEW i \in Find(r.key), NEW j \in Selected(msg_q[i].msgs, r),
               msg_q' = [msg_q EXCEPT ![i] = Without(@, j)],
               ubuf' = Copied(p, r, msg_q[i].msgs[j]),
               Return(p, r.size)
        PROVE  <1>3!:
    <3>1. i \in 1..Len(msg_q) /\ msg_q[i] \in Queues /\ msg_q[i].msgs \in Seq(Messages)
      BY FindInList DEF IInv, TypeOK
    <3>2. j \in 1..Len(msg_q[i].msgs) /\ msg_q[i].msgs[j] \in Messages
      BY <3>1, SelectedInQueue
    <3>3. Without(msg_q[i], j) \in Queues
      BY <3>1, <3>2, WithoutType
    <3>4. msg_q' \in Seq(Queues) /\ Len(msg_q') = Len(msg_q)
      BY <2>2, <3>1, <3>3, ExceptSeq DEF IInv, TypeOK
    <3>5. msg_q[i].msgs[j].data \in Addrs /\ r.data \in Addrs
      BY <1>2, <3>2 DEF Messages, ReadReq
    <3>6. ubuf' \in [Procs -> [Addrs -> Values]]
      BY <2>2, <3>5 DEF Copied, IInv, TypeOK
    <3>7. r.size \in Int
      BY <1>2, SizeIsInt
    <3> QED
      BY <2>2, <3>4, <3>6, <3>7
  <2> QED
    BY <2>1, <2>2 DEF ku_ipc_read
<1>4. /\ call' \in [Procs -> Calls]
      /\ call'[p].at = "user"
      /\ \A o \in Procs \ {p} : call'[o] = call[o]
  BY <1>3, ReturnProperties DEF IInv, TypeOK
<1>5. TypeOK'
  BY <1>3, <1>4 DEF ku_ipc_read, Unlock, IInv, TypeOK
<1>6. LockOwner'
  BY <1>1, <1>4, LeaveCs
<1>7. VolumeExact'
  BY <1>1, <1>3 DEF ku_ipc_read, VolumeExact
<1> QED
  BY <1>5, <1>6, <1>7 DEF IInv

LEMMA WriteIInv ==
  ASSUME IInv, NEW p \in Procs, ku_ipc_write(p)
  PROVE  IInv'
<1> DEFINE r == call[p].req
           m == [type |-> r.type, size |-> r.size, data |-> r.data, sent |-> ubuf[p][r.data]]
<1>1. /\ ku_lock = p /\ ku_lock # Rmmod /\ InKernel(p)
      /\ ku_ipc_volume = Len(msg_q) /\ call[p].at = "cs"
  BY InCsProperties DEF ku_ipc_write, InCs
<1>2. r \in WriteReq
  BY <1>1, RequestTypes DEF ku_ipc_write, InCs, IInv, TypeOK
<1>3. m \in Messages
  BY <1>2, SentMessageType DEF IInv
<1>4. /\ msg_q' \in Seq(Queues) /\ Len(msg_q') = Len(msg_q)
      /\ ku_lock' \in {ku_lock, Nobody}
      /\ Oops(p) \/ \E v \in Int : Return(p, v)
  <2>1. CASE /\ Return(p, -2)
             /\ UNCHANGED <<msg_q, ku_lock>>
    BY <2>1 DEF IInv, TypeOK
  <2>2. ASSUME NEW i \in Find(r.key), msg_q' = [msg_q EXCEPT ![i] = With(@, m)],
               Unlock, Return(p, 0)
        PROVE  <1>4!:
    <3>1. i \in 1..Len(msg_q) /\ msg_q[i] \in Queues
      BY FindInList DEF IInv, TypeOK
    <3>2. With(msg_q[i], m) \in Queues
      BY <1>3, <3>1, WithType
    <3>3. msg_q' \in Seq(Queues) /\ Len(msg_q') = Len(msg_q)
      BY <2>2, <3>1, <3>2, ExceptSeq DEF IInv, TypeOK
    <3> QED
      BY <2>2, <3>3 DEF Unlock
  <2>3. CASE Unlock /\ Oops(p) /\ UNCHANGED msg_q
    BY <2>3 DEF Unlock, IInv, TypeOK
  <2> QED
    BY <2>1, <2>2, <2>3 DEF ku_ipc_write
<1>5. /\ call' \in [Procs -> Calls]
      /\ call'[p].at # "cs"
      /\ \A o \in Procs \ {p} : call'[o] = call[o]
  <2>1. CASE Oops(p)
    BY <2>1, OopsProperties DEF IInv, TypeOK
  <2>2. ASSUME NEW v \in Int, Return(p, v)
        PROVE  <1>5!:
    BY <2>2, ReturnProperties DEF IInv, TypeOK
  <2> QED
    BY <1>4, <2>1, <2>2
<1>6. TypeOK'
  BY <1>4, <1>5 DEF ku_ipc_write, IInv, TypeOK
<1>7. LockOwner'
  BY <1>1, <1>5, LeaveCs
<1>8. VolumeExact'
  BY <1>1, <1>4 DEF ku_ipc_write, VolumeExact
<1> QED
  BY <1>6, <1>7, <1>8 DEF IInv

(* KU_CHECK and KU_EMPTY only look.                                         *)
LEMMA LookIInv ==
  ASSUME IInv, NEW p \in Procs, KU_CHECK(p) \/ KU_EMPTY(p)
  PROVE  IInv'
<1>1. ku_lock = p /\ ku_ipc_volume = Len(msg_q) /\ call[p].at = "cs"
  BY InCsProperties DEF KU_CHECK, KU_EMPTY, InCs
<1>2. Return(p, 0) \/ Return(p, -1)
  BY DEF KU_CHECK, KU_EMPTY
<1>3. /\ call' \in [Procs -> Calls]
      /\ call'[p].at = "user"
      /\ \A o \in Procs \ {p} : call'[o] = call[o]
  BY <1>2, ReturnProperties DEF IInv, TypeOK
<1>4. TypeOK'
  BY <1>3 DEF KU_CHECK, KU_EMPTY, Unlock, IInv, TypeOK
<1>5. LockOwner'
  BY <1>1, <1>3, LeaveCs
<1>6. VolumeExact'
  BY <1>1 DEF KU_CHECK, KU_EMPTY, VolumeExact
<1> QED
  BY <1>4, <1>5, <1>6 DEF IInv

LEMMA CreatIInv ==
  ASSUME IInv, NEW p \in Procs, KU_CREAT(p)
  PROVE  IInv'
<1> DEFINE k == call[p].req.key
<1>1. ku_lock = p /\ InKernel(p) /\ ku_ipc_volume = Len(msg_q) /\ call[p].at = "cs"
  BY InCsProperties DEF KU_CREAT, InCs
<1>2. k \in Keys
  BY <1>1, RequestTypes DEF IInv, TypeOK
<1>3. msg_q' \in Seq(Queues) /\ Len(msg_q') = Len(msg_q) + 1
  BY <1>2, NewQueueType, AppendProperties DEF KU_CREAT, IInv, TypeOK
<1>4. k \in Int
  <2>1. k \in Nat
    BY <1>2, KuIpcAssumption
  <2> QED
    BY <2>1
<1>5. /\ call' \in [Procs -> Calls]
      /\ call'[p].at = "user"
      /\ \A o \in Procs \ {p} : call'[o] = call[o]
  BY <1>4, ReturnProperties DEF KU_CREAT, IInv, TypeOK
<1>6. TypeOK'
  BY <1>3, <1>5 DEF KU_CREAT, Unlock, IInv, TypeOK
<1>7. LockOwner'
  BY <1>1, <1>5, LeaveCs
<1>8. VolumeExact'
  BY <1>1, <1>3 DEF KU_CREAT, VolumeExact
<1> QED
  BY <1>6, <1>7, <1>8 DEF IInv

(* A close counts down only when it has taken a queue out, so the counter,  *)
(* which was exact, was not zero.                                           *)
LEMMA CloseIInv ==
  ASSUME IInv, NEW p \in Procs, KU_CLOSE(p)
  PROVE  IInv'
<1> DEFINE k == call[p].req.key
<1>1. ku_lock = p /\ ku_ipc_volume = Len(msg_q) /\ call[p].at = "cs"
  BY InCsProperties DEF KU_CLOSE, InCs
<1>2. /\ msg_q' \in Seq(Queues)
      /\ ku_ipc_volume' = Len(msg_q') /\ ku_ipc_volume' \in Nat
      /\ Return(p, 0) \/ Return(p, -1)
  <2>1. CASE Return(p, -1) /\ UNCHANGED <<msg_q, ku_ipc_volume>>
    BY <1>1, <2>1 DEF IInv, TypeOK
  <2>2. ASSUME NEW i \in Find(k), msg_q' = RemoveAt(msg_q, i),
               ku_ipc_volume' = ku_ipc_volume - 1, Return(p, 0)
        PROVE  <1>2!:
    <3>1. i \in 1..Len(msg_q)
      BY FindInList DEF IInv, TypeOK
    <3>2. msg_q' \in Seq(Queues) /\ Len(msg_q') = Len(msg_q) - 1
      BY <2>2, <3>1, RemoveAtProperties DEF IInv, TypeOK
    <3>3. Len(msg_q') \in Nat
      BY <3>2, LenProperties
    <3> QED
      BY <1>1, <2>2, <3>2, <3>3
  <2> QED
    BY <2>1, <2>2 DEF KU_CLOSE
<1>3. /\ call' \in [Procs -> Calls]
      /\ call'[p].at = "user"
      /\ \A o \in Procs \ {p} : call'[o] = call[o]
  BY <1>2, ReturnProperties DEF IInv, TypeOK
<1>4. TypeOK'
  BY <1>2, <1>3 DEF KU_CLOSE, Unlock, IInv, TypeOK
<1>5. LockOwner'
  BY <1>1, <1>3, LeaveCs
<1>6. VolumeExact'
  BY <1>2 DEF VolumeExact
<1> QED
  BY <1>4, <1>5, <1>6 DEF IInv

LEMMA ExitIInv ==
  ASSUME IInv, ExitBegin \/ ExitDrain \/ ExitEnd
  PROVE  IInv'
<1>1. CASE ExitBegin \/ ExitEnd
  BY <1>1 DEF ExitBegin, ExitEnd, IInv, TypeOK, LockOwner, VolumeExact
<1>2. CASE ExitDrain
  <2>1. \A p \in Procs : call[p].at # "cs"
    BY <1>2, KuIpcAssumption DEF ExitDrain, IInv, LockOwner
  <2>2. TypeOK'
    BY <1>2, EmptySeq DEF ExitDrain, IInv, TypeOK
  <2> QED
    BY <1>2, <2>1, <2>2 DEF ExitDrain, IInv, LockOwner, VolumeExact
<1> QED
  BY <1>1, <1>2

(* Every step preserves the inductive invariant.                            *)
THEOREM NextIInv == IInv /\ [Next]_vars => IInv'
<1> SUFFICES ASSUME IInv, [Next]_vars PROVE IInv'
  OBVIOUS
<1>1. CASE UNCHANGED vars
  BY <1>1 DEF vars, IInv, TypeOK, LockOwner, VolumeExact
<1>2. ASSUME NEW p \in Procs, NEW r \in Requests, Call(p, r) PROVE IInv'
  BY <1>2, CallIInv
<1>3. ASSUME NEW p \in Procs, CallUnloaded(p) \/ Enter(p) \/ Acquire(p) \/ Fault(p) PROVE IInv'
  BY <1>3, CallUnloadedIInv, EnterIInv, AcquireIInv, FaultIInv
<1>4. ASSUME NEW p \in Procs, CriticalSection(p) PROVE IInv'
  BY <1>4, ReadIInv, WriteIInv, LookIInv, CreatIInv, CloseIInv DEF CriticalSection
<1>5. CASE ExitBegin \/ ExitDrain \/ ExitEnd
  BY <1>5, ExitIInv
<1> QED
  BY <1>1, <1>2, <1>3, <1>4, <1>5 DEF Next, Step

THEOREM Invariance == Spec => []IInv
BY InitIInv, NextIInv, PTL DEF Spec

(* The driver is type correct: for any number of threads and any bounds,    *)
(* ku_ipc_volume never goes below zero.                                     *)
THEOREM TypeCorrect == Spec => []TypeOK
<1>1. IInv => TypeOK
  BY DEF IInv
<1> QED
  BY <1>1, Invariance, PTL

(* ku_lock excludes: a thread in a critical section is its holder.          *)
THEOREM MutualExclusion == Spec => []LockOwner
<1>1. IInv => LockOwner
  BY DEF IInv
<1> QED
  BY <1>1, Invariance, PTL

(***************************************************************************)
(* The number of queues.  KU_CREAT tests the counter before it takes the   *)
(* lock, so a thread that passed the test may find the list full: it is    *)
(* the number of queues and of those threads together that is bounded.     *)
(***************************************************************************)

(* ku_ipc_exit keeps ku_lock, so the list it drained stays empty.           *)
DrainedEmpty == ku_lock = Rmmod => msg_q = <<>>

BoundInv == IInv /\ DrainedEmpty /\ QueuesBound

LEMMA CreatorsFinite ==
  /\ IsFiniteSet(Creators)
  /\ Cardinality(Creators) \in Nat
  /\ Cardinality(Procs) \in Nat
  /\ Cardinality(Creators) <= Cardinality(Procs)
<1>1. Creators \in SUBSET Procs
  BY DEF Creators
<1> QED
  BY <1>1, KuIpcAssumption, FS_Subset, FS_CardinalityType

(* Fewer queues and no new creator keep the bound.                          *)
LEMMA FewerQueues ==
  ASSUME IInv, IInv', QueuesBound, Len(msg_q') <= Len(msg_q), Creators' \subseteq Creators
  PROVE  QueuesBound'
<1>1. Cardinality(Creators') <= Cardinality(Creators) /\ Cardinality(Creators') \in Nat
  <2>1. Creators' \in SUBSET Creators
    OBVIOUS
  <2> QED
    BY <2>1, CreatorsFinite, FS_Subset, FS_CardinalityType
<1>2. Len(msg_q) \in Nat /\ Len(msg_q') \in Nat
  BY LenProperties DEF IInv, TypeOK
<1> QED
  BY <1>1, <1>2, CreatorsFinite, KuIpcAssumption DEF QueuesBound

(* A thread that enters a critical section, leaves one, or dies is no new   *)
(* creator.                                                                 *)
LEMMA NoNewCreator ==
  ASSUME NEW p \in Procs,
         \A o \in Procs \ {p} : call'[o] = call[o],
         \/ call'[p].at \in {"user", "enter", "oops"}
         \/ call[p].at = "lock" /\ call'[p].req = call[p].req
  PROVE  Creators' \subseteq Creators
BY DEF Creators

LEMMA BoundOutside ==
  ASSUME BoundInv, IInv', NEW p \in Procs, UNCHANGED msg_q,
         \/ \E r \in Requests : Call(p, r)
         \/ CallUnloaded(p) \/ Acquire(p) \/ Fault(p)
  PROVE  QueuesBound'
<1>1. Creators' \subseteq Creators
  <2>1. CASE \E r \in Requests : Call(p, r)
    <3>1. \A o \in Procs \ {p} : call'[o] = call[o]
      BY <2>1 DEF Call, BoundInv, IInv, TypeOK
    <3>2. call'[p].at = "enter"
      BY <2>1 DEF Call, BoundInv, IInv, TypeOK
    <3> QED
      BY <3>1, <3>2, NoNewCreator
  <2>2. CASE CallUnloaded(p) \/ Fault(p)
    BY <2>2, OopsProperties, NoNewCreator DEF CallUnloaded, Fault, BoundInv, IInv, TypeOK
  <2>3. CASE Acquire(p)
    <3>1. /\ \A o \in Procs \ {p} : call'[o] = call[o]
          /\ call[p].at = "lock" /\ call'[p].req = call[p].req
      BY <2>3, GoToProperties DEF Acquire, BoundInv, IInv, TypeOK
    <3> QED
      BY <3>1, NoNewCreator
  <2> QED
    BY <2>1, <2>2, <2>3
<1>2. Len(msg_q) \in Nat
  BY LenProperties DEF BoundInv, IInv, TypeOK
<1> QED
  BY <1>1, <1>2, FewerQueues DEF BoundInv

LEMMA BoundEnter ==
  ASSUME BoundInv, IInv', NEW p \in Procs, Enter(p)
  PROVE  QueuesBound'
<1>1. Len(msg_q) \in Nat /\ msg_q' = msg_q
  BY LenProperties DEF Enter, BoundInv, IInv, TypeOK
<1>2. CASE call[p].req.op = "KU_CREAT" /\ MustLock(call[p].req)
  <2>1. ku_ipc_volume <= KUIPC_MAXVOL
    BY <1>2 DEF MustLock
  <2>2. Len(msg_q) <= KUIPC_MAXVOL
    <3>1. CASE ku_lock = Rmmod
      BY <3>1, EmptySeq, KuIpcAssumption DEF BoundInv, DrainedEmpty
    <3>2. CASE ku_lock # Rmmod
      BY <2>1, <3>2 DEF BoundInv, IInv, VolumeExact
    <3> QED
      BY <3>1, <3>2
  <2>3. Cardinality(Creators') <= Cardinality(Procs) /\ Cardinality(Creators') \in Nat
    <3>1. Creators' \in SUBSET Procs
      BY DEF Creators
    <3> QED
      BY <3>1, KuIpcAssumption, FS_Subset, FS_CardinalityType
  <2> QED
    BY <1>1, <2>2, <2>3, CreatorsFinite, KuIpcAssumption DEF QueuesBound
<1>3. CASE ~(call[p].req.op = "KU_CREAT" /\ MustLock(call[p].req))
  <2>1. Creators' \subseteq Creators
    <3>1. CASE GoTo(p, "lock")
      <4>1. /\ \A o \in Procs \ {p} : call'[o] = call[o]
            /\ call'[p].req = call[p].req
        BY <3>1, GoToProperties DEF Enter, BoundInv, IInv, TypeOK
      <4>2. CASE call[p].req.op # "KU_CREAT"
        BY <4>1, <4>2 DEF Creators
      <4>3. CASE ~MustLock(call[p].req)
        <5>1. Return(p, IF call[p].req.op = "KU_CHECK" THEN 0 ELSE -1) \/ Return(p, -1)
          BY <4>3 DEF Enter
        <5>2. call'[p].at = "user"
          BY <5>1, ReturnProperties DEF BoundInv, IInv, TypeOK
        <5> QED
          BY <4>1, <5>2, NoNewCreator
      <4> QED
        BY <1>3, <4>2, <4>3
    <3>2. CASE Return(p, IF call[p].req.op = "KU_CHECK" THEN 0 ELSE -1) \/ Return(p, -1)
      BY <3>2, ReturnProperties, NoNewCreator DEF BoundInv, IInv, TypeOK
    <3> QED
      BY <3>1, <3>2 DEF Enter
  <2> QED
    BY <1>1, <2>1, FewerQueues DEF BoundInv
<1> QED
  BY <1>2, <1>3

(* A critical section ends in user mode or kills the thread, and leaves the *)
(* other calls where they are.                                              *)
LEMMA CsLeaves ==
  ASSUME IInv, NEW p \in Procs, CriticalSection(p)
  PROVE  /\ call[p].at = "cs"
         /\ call'[p].at \in {"user", "oops"}
         /\ \A o \in Procs \ {p} : call'[o] = call[o]
<1>1. call[p].at = "cs"
  BY DEF CriticalSection, ku_ipc_read, ku_ipc_write, KU_CHECK, KU_CREAT, KU_CLOSE, KU_EMPTY, InCs
<1>2. Oops(p) \/ \E v : call' = [call EXCEPT ![p] = [at |-> "user", ret |-> v]]
  BY DEF CriticalSection, ku_ipc_read, ku_ipc_write, KU_CHECK, KU_CREAT, KU_CLOSE, KU_EMPTY, Return
<1> QED
  BY <1>1, <1>2 DEF Oops, IInv, TypeOK

(* Only KU_CREAT makes the list longer, by one.                             *)
LEMMA CsLength ==
  ASSUME IInv, NEW p \in Procs, CriticalSection(p)
  PROVE  /\ KU_CREAT(p) => Len(msg_q') = Len(msg_q) + 1
         /\ ~KU_CREAT(p) => Len(msg_q') <= Len(msg_q)
<1>1. Len(msg_q) \in Nat
  BY LenProperties DEF IInv, TypeOK
<1>2. CASE ku_ipc_read(p)
  <2>1. ASSUME NEW i \in Find(call[p].req.key), NEW e, msg_q' = [msg_q EXCEPT ![i] = e]
        PROVE  Len(msg_q') = Len(msg_q)
    BY <2>1, FindInList DEF IInv, TypeOK
  <2>2. Len(msg_q') = Len(msg_q)
    BY <1>2, <2>1 DEF ku_ipc_read
  <2>3. ~KU_CREAT(p)
    BY <1>2 DEF ku_ipc_read, KU_CREAT, InCs
  <2> QED
    BY <1>1, <2>2, <2>3
<1>3. CASE ku_ipc_write(p)
  <2>1. ASSUME NEW i \in Find(call[p].req.key), NEW e, msg_q' = [msg_q EXCEPT ![i] = e]
        PROVE  Len(msg_q') = Len(msg_q)
    BY <2>1, FindInList DEF IInv, TypeOK
  <2>2. Len(msg_q') = Len(msg_q)
    BY <1>3, <2>1 DEF ku_ipc_write
  <2>3. ~KU_CREAT(p)
    BY <1>3 DEF ku_ipc_write, KU_CREAT, InCs
  <2> QED
    BY <1>1, <2>2, <2>3
<1>4. CASE KU_CHECK(p) \/ KU_EMPTY(p)
  BY <1>1, <1>4 DEF KU_CHECK, KU_EMPTY, KU_CREAT, InCs
<1>5. CASE KU_CREAT(p)
  <2>1. InKernel(p)
    BY <1>5, InCsProperties DEF KU_CREAT, InCs
  <2>2. Len(msg_q') = Len(msg_q) + 1
    BY <1>5, <2>1, RequestTypes, NewQueueType, AppendProperties DEF KU_CREAT, IInv, TypeOK
  <2> QED
    BY <1>5, <2>2
<1>6. CASE KU_CLOSE(p)
  <2>1. ASSUME NEW i \in Find(call[p].req.key), msg_q' = RemoveAt(msg_q, i)
        PROVE  Len(msg_q') = Len(msg_q) - 1
    BY <2>1, FindInList, RemoveAtProperties DEF IInv, TypeOK
  <2>2. Len(msg_q') <= Len(msg_q)
    BY <1>1, <1>6, <2>1 DEF KU_CLOSE
  <2>3. ~KU_CREAT(p)
    BY <1>6 DEF KU_CLOSE, KU_CREAT, InCs
  <2> QED
    BY <2>2, <2>3
<1> QED
  BY <1>2, <1>3, <1>4, <1>5, <1>6 DEF CriticalSection

LEMMA BoundCs ==
  ASSUME BoundInv, IInv', NEW p \in Procs, CriticalSection(p)
  PROVE  QueuesBound'
<1>1. /\ call[p].at = "cs"
      /\ call'[p].at \in {"user", "oops"}
      /\ \A o \in Procs \ {p} : call'[o] = call[o]
  BY CsLeaves DEF BoundInv
<1>2. CASE KU_CREAT(p)
  <2>1. p \in Creators
    BY <1>1, <1>2 DEF KU_CREAT, InCs, Creators
  <2>2. Creators' = Creators \ {p}
    BY <1>1 DEF Creators
  <2>3. Cardinality(Creators') = Cardinality(Creators) - 1
    BY <2>1, <2>2, CreatorsFinite, FS_RemoveElement
  <2>4. Len(msg_q') = Len(msg_q) + 1 /\ Len(msg_q) \in Nat
    BY <1>2, CsLength, LenProperties DEF BoundInv, IInv, TypeOK
  <2> QED
    BY <2>3, <2>4, CreatorsFinite, KuIpcAssumption DEF BoundInv, QueuesBound
<1>3. CASE ~KU_CREAT(p)
  <2>1. Creators' \subseteq Creators
    BY <1>1, NoNewCreator
  <2>2. Len(msg_q') <= Len(msg_q)
    BY <1>3, CsLength DEF BoundInv
  <2> QED
    BY <2>1, <2>2, FewerQueues DEF BoundInv
<1> QED
  BY <1>2, <1>3

LEMMA BoundExit ==
  ASSUME BoundInv, IInv', ExitBegin \/ ExitDrain \/ ExitEnd
  PROVE  QueuesBound'
<1>1. Creators' \subseteq Creators
  BY DEF ExitBegin, ExitDrain, ExitEnd, Creators
<1>2. Len(msg_q') <= Len(msg_q)
  <2>1. Len(msg_q) \in Nat
    BY LenProperties DEF BoundInv, IInv, TypeOK
  <2>2. msg_q' = msg_q \/ msg_q' = <<>>
    BY DEF ExitBegin, ExitDrain, ExitEnd
  <2> QED
    BY <2>1, <2>2, EmptySeq
<1> QED
  BY <1>1, <1>2, FewerQueues DEF BoundInv

LEMMA DrainedEmptyStep ==
  ASSUME IInv, DrainedEmpty, [Next]_vars
  PROVE  DrainedEmpty'
<1>1. CASE UNCHANGED vars
  BY <1>1 DEF vars, DrainedEmpty
<1>2. ASSUME NEW p \in Procs, NEW r \in Requests, Call(p, r) PROVE DrainedEmpty'
  BY <1>2 DEF Call, DrainedEmpty
<1>3. ASSUME NEW p \in Procs, CallUnloaded(p) \/ Enter(p) \/ Fault(p) PROVE DrainedEmpty'
  BY <1>3 DEF CallUnloaded, Enter, Fault, DrainedEmpty
<1>4. ASSUME NEW p \in Procs, Acquire(p) PROVE DrainedEmpty'
  BY <1>4, KuIpcAssumption DEF Acquire, DrainedEmpty
<1>5. ASSUME NEW p \in Procs, CriticalSection(p) PROVE DrainedEmpty'
  <2>1. ku_lock = p /\ ku_lock # Rmmod
    BY <1>5, CsLeaves, InCsProperties
  <2>2. ku_lock' \in {ku_lock, Nobody}
    BY <1>5 DEF CriticalSection, ku_ipc_read, ku_ipc_write, KU_CHECK, KU_CREAT, KU_CLOSE,
                KU_EMPTY, Unlock
  <2> QED
    BY <2>1, <2>2, KuIpcAssumption DEF DrainedEmpty
<1>6. CASE ExitBegin \/ ExitDrain \/ ExitEnd
  BY <1>6 DEF ExitBegin, ExitDrain, ExitEnd, DrainedEmpty
<1> QED
  BY <1>1, <1>2, <1>3, <1>4, <1>5, <1>6 DEF Next, Step

THEOREM InitBoundInv == Init => BoundInv
<1> SUFFICES ASSUME Init PROVE BoundInv
  OBVIOUS
<1>1. IInv
  BY InitIInv
<1>2. DrainedEmpty
  BY DEF Init, DrainedEmpty
<1>3. Creators = {}
  BY DEF Init, Creators
<1>4. Len(msg_q) = 0
  BY EmptySeq DEF Init
<1>5. QueuesBound
  BY <1>3, <1>4, FS_EmptySet, CreatorsFinite, KuIpcAssumption DEF QueuesBound
<1> QED
  BY <1>1, <1>2, <1>5 DEF BoundInv

THEOREM NextBoundInv == BoundInv /\ [Next]_vars => BoundInv'
<1> SUFFICES ASSUME BoundInv, [Next]_vars PROVE BoundInv'
  OBVIOUS
<1>1. IInv'
  BY NextIInv DEF BoundInv
<1>2. DrainedEmpty'
  BY DrainedEmptyStep DEF BoundInv
<1>3. QueuesBound'
  <2>1. CASE UNCHANGED vars
    BY <2>1 DEF vars, BoundInv, QueuesBound, Creators
  <2>2. ASSUME NEW p \in Procs, (\E r \in Requests : Call(p, r)) \/ CallUnloaded(p) PROVE QueuesBound'
    BY <1>1, <2>2, BoundOutside DEF Call, CallUnloaded
  <2>3. ASSUME NEW p \in Procs, Acquire(p) \/ Fault(p) PROVE QueuesBound'
    BY <1>1, <2>3, BoundOutside DEF Acquire, Fault
  <2>4. ASSUME NEW p \in Procs, Enter(p) PROVE QueuesBound'
    BY <1>1, <2>4, BoundEnter
  <2>5. ASSUME NEW p \in Procs, CriticalSection(p) PROVE QueuesBound'
    BY <1>1, <2>5, BoundCs
  <2>6. CASE ExitBegin \/ ExitDrain \/ ExitEnd
    BY <1>1, <2>6, BoundExit
  <2> QED
    BY <2>1, <2>2, <2>3, <2>4, <2>5, <2>6 DEF Next, Step
<1> QED
  BY <1>1, <1>2, <1>3 DEF BoundInv

(* The queue counter is exact until rmmod drains the list, and there are at *)
(* most KUIPC_MAXVOL queues and one for each thread, for any number of      *)
(* threads: the unlocked test of KU_CREAT overshoots by no more.            *)
THEOREM VolumeBounded == Spec => []VolumeBound
<1>1. BoundInv => VolumeBound
  BY DEF BoundInv, IInv, VolumeBound
<1> QED
  BY <1>1, InitBoundInv, NextBoundInv, PTL DEF Spec

(***************************************************************************)
(* What holds of every queue.                                              *)
(***************************************************************************)
(* What holds of a new queue and is kept by a send that finds space and by  *)
(* a receive holds of every queue in the list: G is the set of the queues   *)
(* of which it holds.                                                       *)
AllIn(G) == \A i \in DOMAIN msg_q : msg_q[i] \in G

Lasting(G) ==
  /\ G \in SUBSET Queues
  /\ \A k \in Keys : NewQueue(k) \in G
  /\ \A q \in G : \A m \in Messages : ~LacksSpace(q, m) => With(q, m) \in G
  /\ \A q \in G : \A j \in 1..Len(q.msgs) : Without(q, j) \in G

LEMMA ExceptAllIn ==
  ASSUME TypeOK, NEW G \in SUBSET Queues, AllIn(G),
         NEW i \in 1..Len(msg_q), NEW q \in G, msg_q' = [msg_q EXCEPT ![i] = q]
  PROVE  AllIn(G)'
<1>1. /\ Len(msg_q') = Len(msg_q) /\ msg_q' \in Seq(Queues)
      /\ \A h \in 1..Len(msg_q) : msg_q'[h] = IF h = i THEN q ELSE msg_q[h]
  BY ExceptSeq DEF TypeOK
<1>2. DOMAIN msg_q' = 1..Len(msg_q) /\ DOMAIN msg_q = 1..Len(msg_q)
  BY <1>1, LenProperties DEF TypeOK
<1>3. \A h \in 1..Len(msg_q) : msg_q'[h] \in G
  BY <1>1, <1>2 DEF AllIn
<1> QED
  BY <1>2, <1>3 DEF AllIn

LEMMA CsAllIn ==
  ASSUME IInv, NEW G, Lasting(G), AllIn(G), NEW p \in Procs, CriticalSection(p)
  PROVE  AllIn(G)'
<1> DEFINE r == call[p].req
<1>1. call[p].at = "cs" /\ InKernel(p)
  BY CsLeaves, InCsProperties
<1>2. DOMAIN msg_q = 1..Len(msg_q)
  BY LenProperties DEF IInv, TypeOK
<1>3. CASE UNCHANGED msg_q
  BY <1>3 DEF AllIn
<1>4. ASSUME NEW i \in Find(r.key), NEW j \in Selected(msg_q[i].msgs, r),
             msg_q' = [msg_q EXCEPT ![i] = Without(@, j)]
      PROVE  AllIn(G)'
  <2>1. i \in 1..Len(msg_q) /\ msg_q[i] \in Queues /\ msg_q[i].msgs \in Seq(Messages)
    BY FindInList DEF IInv, TypeOK
  <2>2. j \in 1..Len(msg_q[i].msgs)
    BY <2>1, SelectedInQueue
  <2>3. Without(msg_q[i], j) \in G /\ G \in SUBSET Queues
    BY <1>2, <2>1, <2>2 DEF AllIn, Lasting
  <2> QED
    BY <1>4, <2>1, <2>3, ExceptAllIn DEF IInv
<1>5. ASSUME ku_ipc_write(p)
      PROVE  AllIn(G)'
  <2> DEFINE m == [type |-> r.type, size |-> r.size, data |-> r.data, sent |-> ubuf[p][r.data]]
  <2>1. m \in Messages
    BY <1>1, <1>5, RequestTypes, SentMessageType DEF ku_ipc_write, InCs, IInv, TypeOK
  <2>2. ASSUME NEW i \in Find(r.key), ~LacksSpace(msg_q[i], r),
               msg_q' = [msg_q EXCEPT ![i] = With(@, m)]
        PROVE  AllIn(G)'
    <3>1. i \in 1..Len(msg_q) /\ msg_q[i] \in Queues
      BY FindInList DEF IInv, TypeOK
    <3>2. ~LacksSpace(msg_q[i], m)
      BY <2>2 DEF LacksSpace
    <3>3. With(msg_q[i], m) \in G /\ G \in SUBSET Queues
      BY <1>2, <2>1, <3>1, <3>2 DEF AllIn, Lasting
    <3> QED
      BY <2>2, <3>1, <3>3, ExceptAllIn DEF IInv
  <2> QED
    BY <1>3, <1>5, <2>2 DEF ku_ipc_write
<1>6. ASSUME KU_CREAT(p)
      PROVE  AllIn(G)'
  <2> DEFINE q == NewQueue(r.key)
  <2>1. q \in G /\ q \in Queues
    BY <1>1, <1>6, RequestTypes DEF IInv, TypeOK, Lasting, KU_CREAT, InCs
  <2> HIDE DEF q
  <2>2. msg_q' = Append(msg_q, q)
    BY <1>6 DEF KU_CREAT, q
  <2>3. /\ msg_q' \in Seq(Queues) /\ Len(msg_q') = Len(msg_q) + 1
        /\ \A h \in 1..Len(msg_q) : msg_q'[h] = msg_q[h]
        /\ msg_q'[Len(msg_q) + 1] = q
    BY <2>1, <2>2, AppendProperties DEF IInv, TypeOK
  <2>4. DOMAIN msg_q' = 1..(Len(msg_q) + 1) /\ Len(msg_q) \in Nat
    BY <2>3, LenProperties DEF IInv, TypeOK
  <2>5. \A h \in DOMAIN msg_q' : msg_q'[h] \in G
    <3> SUFFICES ASSUME NEW h \in 1..(Len(msg_q) + 1) PROVE msg_q'[h] \in G
      BY <2>4
    <3>1. h \in 1..Len(msg_q) \/ h = Len(msg_q) + 1
      BY <2>4
    <3> QED
      BY <1>2, <2>1, <2>3, <3>1 DEF AllIn
  <2> QED
    BY <2>5 DEF AllIn
<1>7. ASSUME KU_CLOSE(p)
      PROVE  AllIn(G)'
  <2>1. ASSUME NEW i \in Find(r.key), msg_q' = RemoveAt(msg_q, i)
        PROVE  AllIn(G)'
    <3>1. i \in 1..Len(msg_q)
      BY FindInList DEF IInv, TypeOK
    <3>2. /\ msg_q' \in Seq(Queues) /\ Len(msg_q') = Len(msg_q) - 1
          /\ \A h \in 1..(Len(msg_q) - 1) :
               msg_q'[h] = IF h < i THEN msg_q[h] ELSE msg_q[h + 1]
      BY <2>1, <3>1, RemoveAtProperties DEF IInv, TypeOK
    <3>3. DOMAIN msg_q' = 1..(Len(msg_q) - 1) /\ Len(msg_q) \in Nat
      BY <3>2, LenProperties DEF IInv, TypeOK
    <3>4. \A h \in DOMAIN msg_q' : msg_q'[h] \in G
      <4> SUFFICES ASSUME NEW h \in 1..(Len(msg_q) - 1) PROVE msg_q'[h] \in G
        BY <3>3
      <4>1. h \in 1..Len(msg_q) /\ h + 1 \in 1..Len(msg_q)
        BY <3>3
      <4>2. msg_q'[h] = msg_q[h] \/ msg_q'[h] = msg_q[h + 1]
        BY <3>2
      <4> QED
        BY <1>2, <4>1, <4>2 DEF AllIn
    <3> QED
      BY <3>4 DEF AllIn
  <2> QED
    BY <1>3, <1>7, <2>1 DEF KU_CLOSE
<1>8. ASSUME ku_ipc_read(p)
      PROVE  AllIn(G)'
  BY <1>3, <1>4, <1>8 DEF ku_ipc_read
<1> QED
  BY <1>3, <1>5, <1>6, <1>7, <1>8 DEF CriticalSection, KU_CHECK, KU_EMPTY

LEMMA NextAllIn ==
  ASSUME IInv, NEW G, Lasting(G), AllIn(G), [Next]_vars
  PROVE  AllIn(G)'
<1>1. CASE UNCHANGED msg_q
  BY <1>1 DEF AllIn
<1>2. CASE msg_q' = <<>>
  BY <1>2 DEF AllIn
<1>3. ASSUME NEW p \in Procs, CriticalSection(p) PROVE AllIn(G)'
  BY <1>3, CsAllIn
<1> QED
  BY <1>1, <1>2, <1>3 DEF Next, Step, vars, Call, CallUnloaded, Enter, Acquire, Fault,
                          ExitBegin, ExitDrain, ExitEnd

(***************************************************************************)
(* The bytes of a queue.                                                   *)
(***************************************************************************)

(* SumSizes adds up the sizes from the first message to the last: f[i] is   *)
(* the sum of the first i.                                                  *)
PrefixSums(msgs, f) ==
  /\ f \in [0..Len(msgs) -> Int]
  /\ f[0] = 0
  /\ \A i \in 1..Len(msgs) : f[i] = f[i - 1] + msgs[i].size

(* SumSizes is the last of the prefix sums.                                 *)
LEMMA SumIsPrefixSum ==
  ASSUME NEW S, \A m \in S : m.size \in Int, NEW msgs \in Seq(S)
  PROVE  \E f : PrefixSums(msgs, f) /\ SumSizes(msgs) = f[Len(msgs)]
<1> DEFINE n == Len(msgs)
           step == [x \in Int \X (1..n) |-> x[1] + msgs[x[2]].size]
           Body(g) == [s \in SUBSET DOMAIN msgs |->
                         IF s = {} THEN 0 ELSE g[s \ {Max(s)}] + msgs[Max(s)].size]
<1>1. n \in Nat /\ DOMAIN msgs = 1..n /\ \A i \in 1..n : msgs[i].size \in Int
  OBVIOUS
<1>2. step \in [Int \X (1..n) -> Int]
  BY <1>1
<1>3. PICK f : IsFold(n, Int, 0, step, f)
  <2>1. n \in Nat /\ 0 \in Int
    BY <1>1
  <2> HIDE DEF step, n
  <2> QED
    BY <2>1, <1>2, FoldExists
<1>4. ASSUME NEW s \in SUBSET (1..n), s # {}
      PROVE  f[s] = f[s \ {Max(s)}] + msgs[Max(s)].size
  <2>1. Max(s) \in 1..n
    BY <1>1, <1>4, MaxOfRange
  <2>2. s \ {Max(s)} \in SUBSET (1..n)
    OBVIOUS
  <2>3. <<f[s \ {Max(s)}], Max(s)>> \in Int \X (1..n)
    BY <1>3, <2>1, <2>2 DEF IsFold
  <2>4. f[s] = step[<<f[s \ {Max(s)}], Max(s)>>]
    BY <1>3, <1>4 DEF IsFold
  <2> QED
    BY <2>3, <2>4
<1>5. f = Body(f)
  <2>1. f = [s \in SUBSET (1..n) |-> f[s]]
    BY <1>3 DEF IsFold
  <2>2. \A s \in SUBSET (1..n) :
          f[s] = IF s = {} THEN 0 ELSE f[s \ {Max(s)}] + msgs[Max(s)].size
    BY <1>3, <1>4 DEF IsFold
  <2> QED
    BY <1>1, <2>1, <2>2
<1>6. PICK g : g = Body(g) /\ SumSizes(msgs) = g[DOMAIN msgs]
  BY <1>5 DEF SumSizes, FoldLeft, MapThenFoldSet
<1>7. /\ g[{}] = 0
      /\ \A i \in 1..n : g[1..i] = g[1..(i - 1)] + msgs[i].size
  <2>1. \A s \in SUBSET (1..n) :
          g[s] = IF s = {} THEN 0 ELSE g[s \ {Max(s)}] + msgs[Max(s)].size
    BY <1>1, <1>6
  <2>2. ASSUME NEW i \in 1..n PROVE g[1..i] = g[1..(i - 1)] + msgs[i].size
    <3>1. /\ (1..i) \in SUBSET (1..n) /\ (1..i) # {}
          /\ Max(1..i) = i
          /\ (1..i) \ {i} = 1..(i - 1)
      BY <1>1, FirstPositions
    <3> QED
      BY <2>1, <3>1
  <2> QED
    BY <2>1, <2>2
<1> DEFINE h == [i \in 0..n |-> g[1..i]]
<1>8. h[0] = 0 /\ \A i \in 1..n : h[i] = h[i - 1] + msgs[i].size
  <2>1. 1..0 = {}
    OBVIOUS
  <2> QED
    BY <1>1, <1>7, <2>1
<1>9. SumSizes(msgs) = h[n]
  BY <1>1, <1>6
<1>10. h \in [0..n -> Int]
  <2> DEFINE I == {i \in Nat : i <= n => h[i] \in Int}
  <2>1. 0 \in I
    BY <1>8
  <2>2. ASSUME NEW i \in I \cap Nat PROVE i + 1 \in I
    <3> SUFFICES ASSUME i + 1 <= n PROVE h[i + 1] \in Int
      BY <2>2
    <3>1. i + 1 \in 1..n /\ (i + 1) - 1 = i /\ h[i] \in Int
      BY <1>1, <2>2
    <3> HIDE DEF h
    <3>2. h[i + 1] = h[i] + msgs[i + 1].size
      BY <1>8, <3>1
    <3> QED
      BY <1>1, <3>1, <3>2
  <2>3. Nat \subseteq I
    <3> HIDE DEF I
    <3> QED
      BY <2>1, <2>2, SetInduction
  <2>4. ASSUME NEW i \in 0..n PROVE h[i] \in Int
    <3>1. i \in Nat /\ i <= n
      BY <1>1
    <3>2. i \in I
      BY <2>3, <3>1
    <3> QED
      BY <3>1, <3>2
  <2>5. h = [i \in 0..n |-> h[i]]
    OBVIOUS
  <2> HIDE DEF h
  <2> QED
    BY <2>4, <2>5
<1> QED
  <2> HIDE DEF h
  <2> QED
    BY <1>8, <1>9, <1>10 DEF PrefixSums

(* A message at the tail adds its size.                                     *)
LEMMA SumOfAppend ==
  ASSUME NEW S, \A m \in S : m.size \in Int, NEW msgs \in Seq(S), NEW m \in S
  PROVE  SumSizes(Append(msgs, m)) = SumSizes(msgs) + m.size
<1> DEFINE n == Len(msgs)
           longer == Append(msgs, m)
<1>1. /\ n \in Nat /\ longer \in Seq(S) /\ Len(longer) = n + 1
      /\ \A i \in 1..n : longer[i] = msgs[i]
      /\ longer[n + 1] = m
  OBVIOUS
<1>2. PICK f : PrefixSums(msgs, f) /\ SumSizes(msgs) = f[n]
  BY SumIsPrefixSum
<1>3. PICK g : PrefixSums(longer, g) /\ SumSizes(longer) = g[n + 1]
  <2>1. PICK g : PrefixSums(longer, g) /\ SumSizes(longer) = g[Len(longer)]
    <3> HIDE DEF longer
    <3> QED
      BY <1>1, SumIsPrefixSum
  <2> QED
    BY <1>1, <2>1
<1> HIDE DEF longer
<1>4. \A i \in 0..n : g[i] = f[i]
  <2> DEFINE I == {i \in Nat : i <= n => g[i] = f[i]}
  <2>1. 0 \in I
    BY <1>2, <1>3 DEF PrefixSums
  <2>2. ASSUME NEW i \in I \cap Nat PROVE i + 1 \in I
    <3> SUFFICES ASSUME i + 1 <= n PROVE g[i + 1] = f[i + 1]
      BY <2>2
    <3>1. i + 1 \in 1..n /\ i + 1 \in 1..(n + 1) /\ (i + 1) - 1 = i /\ g[i] = f[i]
      BY <1>1, <2>2
    <3>2. f[i + 1] = f[i] + msgs[i + 1].size
      BY <1>2, <3>1 DEF PrefixSums
    <3>3. g[i + 1] = g[i] + longer[i + 1].size
      BY <1>1, <1>3, <3>1 DEF PrefixSums
    <3> QED
      BY <1>1, <3>1, <3>2, <3>3
  <2>3. Nat \subseteq I
    <3> HIDE DEF I
    <3> QED
      BY <2>1, <2>2, SetInduction
  <2> QED
    BY <1>1, <2>3
<1>5. g[n + 1] = g[n] + m.size
  <2>1. n + 1 \in 1..Len(longer) /\ (n + 1) - 1 = n
    BY <1>1
  <2> QED
    BY <1>1, <1>3, <2>1 DEF PrefixSums
<1> QED
  BY <1>1, <1>2, <1>3, <1>4, <1>5 DEF longer

(* A message taken from anywhere in the list takes its own size along.      *)
LEMMA SumOfRemove ==
  ASSUME NEW S, \A m \in S : m.size \in Int, NEW msgs \in Seq(S), NEW k \in 1..Len(msgs)
  PROVE  SumSizes(RemoveAt(msgs, k)) = SumSizes(msgs) - msgs[k].size
<1> DEFINE n == Len(msgs)
           shorter == RemoveAt(msgs, k)
<1>1. /\ n \in Nat /\ shorter \in Seq(S) /\ Len(shorter) = n - 1
      /\ \A i \in 1..(n - 1) : shorter[i] = IF i < k THEN msgs[i] ELSE msgs[i + 1]
  BY RemoveAtProperties
<1>2. PICK f : PrefixSums(msgs, f) /\ SumSizes(msgs) = f[n]
  BY SumIsPrefixSum
<1>3. PICK g : PrefixSums(shorter, g) /\ SumSizes(shorter) = g[n - 1]
  <2>1. PICK g : PrefixSums(shorter, g) /\ SumSizes(shorter) = g[Len(shorter)]
    <3> HIDE DEF shorter
    <3> QED
      BY <1>1, SumIsPrefixSum
  <2> QED
    BY <1>1, <2>1
<1> HIDE DEF shorter
<1>4. /\ f \in [0..n -> Int] /\ f[0] = 0 /\ g[0] = 0
      /\ \A i \in 1..n : f[i] = f[i - 1] + msgs[i].size /\ msgs[i].size \in Int
      /\ \A i \in 1..(n - 1) : g[i] = g[i - 1] + shorter[i].size
  BY <1>1, <1>2, <1>3 DEF PrefixSums
<1>0. k \in 1..n /\ msgs[k].size \in Int
  BY <1>4
<1>5. ASSUME NEW i \in 0..(n - 1)
      PROVE  g[i] = IF i < k THEN f[i] ELSE f[i + 1] - msgs[k].size
  <2> DEFINE Value(j) == IF j < k THEN f[j] ELSE f[j + 1] - msgs[k].size
             I == {j \in Nat : j <= n - 1 => g[j] = Value(j)}
  <2>1. 0 \in I
    BY <1>4
  <2>2. ASSUME NEW j \in I \cap Nat PROVE j + 1 \in I
    <3> SUFFICES ASSUME j + 1 <= n - 1 PROVE g[j + 1] = Value(j + 1)
      BY <2>2
    <3>1. /\ j \in Nat /\ j + 1 \in 1..(n - 1) /\ (j + 1) - 1 = j
          /\ j + 1 \in 1..n /\ j + 2 \in 1..n /\ (j + 2) - 1 = j + 1
          /\ g[j] = Value(j)
      BY <1>1, <2>2
    <3>2. g[j + 1] = g[j] + shorter[j + 1].size
      BY <1>4, <3>1
    <3>3. f[j + 1] = f[j] + msgs[j + 1].size /\ f[j + 2] = f[j + 1] + msgs[j + 2].size
      BY <1>4, <3>1
    <3>4. f[j] \in Int /\ f[j + 1] \in Int /\ f[j + 2] \in Int /\ msgs[k].size \in Int
      <4>1. j \in 0..n /\ j + 1 \in 0..n /\ j + 2 \in 0..n
        BY <1>1, <3>1
      <4> QED
        BY <1>0, <1>4, <4>1
    <3>5. CASE j + 1 < k
      <4>1. shorter[j + 1] = msgs[j + 1]
        BY <1>1, <3>1, <3>5
      <4> QED
        BY <3>1, <3>2, <3>3, <3>4, <3>5, <4>1
    <3>6. CASE ~(j + 1 < k)
      <4>1. shorter[j + 1] = msgs[j + 2]
        <5>1. shorter[j + 1] = msgs[(j + 1) + 1]
          BY <1>1, <3>1, <3>6
        <5>2. (j + 1) + 1 = j + 2
          BY <3>1
        <5> QED
          BY <5>1, <5>2
      <4>2. msgs[j + 1].size \in Int /\ msgs[j + 2].size \in Int
        BY <1>4, <3>1
      <4>3. g[j] = f[j + 1] - msgs[k].size
        <5>1. CASE j < k
          <6>1. k = j + 1
            BY <3>1, <3>6, <5>1
          <6> QED
            BY <3>1, <3>3, <3>4, <4>2, <5>1, <6>1
        <5>2. CASE ~(j < k)
          BY <3>1, <5>2
        <5> QED
          BY <5>1, <5>2
      <4>4. Value(j + 1) = f[j + 2] - msgs[k].size
        BY <3>1, <3>6
      <4>5. g[j + 1] = f[j + 1] - msgs[k].size + msgs[j + 2].size
        BY <3>2, <4>1, <4>3
      <4>6. f[j + 1] - msgs[k].size + msgs[j + 2].size = f[j + 2] - msgs[k].size
        <5> HIDE DEF n
        <5> QED
          BY <3>3, <3>4, <4>2
      <4> HIDE DEF Value
      <4> QED
        BY <4>4, <4>5, <4>6
    <3> QED
      BY <3>5, <3>6
  <2>3. Nat \subseteq I
    <3> HIDE DEF I
    <3> QED
      BY <2>1, <2>2, SetInduction
  <2>4. i \in Nat /\ i <= n - 1
    BY <1>1
  <2>5. i \in I
    <3> HIDE DEF I
    <3> QED
      BY <2>3, <2>4
  <2> QED
    BY <2>4, <2>5
<1>6. g[n - 1] = f[n] - msgs[k].size
  <2>1. n - 1 \in 0..(n - 1) /\ (n - 1) + 1 = n
    BY <1>0, <1>1
  <2>2. CASE n - 1 < k
    <3>1. k = n
      BY <1>0, <1>1, <2>2
    <3>2. f[n] = f[n - 1] + msgs[n].size /\ f[n - 1] \in Int /\ msgs[n].size \in Int
      <4>1. n \in 1..n /\ n - 1 \in 0..n
        BY <1>0, <1>1
      <4> QED
        BY <1>4, <4>1
    <3> QED
      BY <1>5, <2>1, <2>2, <3>1, <3>2
  <2>3. CASE ~(n - 1 < k)
    BY <1>5, <2>1, <2>3
  <2> QED
    BY <2>2, <2>3
<1> QED
  BY <1>2, <1>3, <1>6 DEF shorter

LEMMA SumIsInt == \A msgs \in Seq(Messages) : SumSizes(msgs) \in Int
<1> SUFFICES ASSUME NEW msgs \in Seq(Messages) PROVE SumSizes(msgs) \in Int
  OBVIOUS
<1>1. PICK f : PrefixSums(msgs, f) /\ SumSizes(msgs) = f[Len(msgs)]
  BY SizeIsInt, SumIsPrefixSum
<1>2. Len(msgs) \in 0..Len(msgs)
  OBVIOUS
<1> QED
  BY <1>1, <1>2 DEF PrefixSums

LEMMA SumOfNone == SumSizes(<<>>) = 0
<1>1. <<>> \in Seq(Messages) /\ Len(<<>>) = 0
  OBVIOUS
<1> QED
  BY <1>1, SizeIsInt, SumIsPrefixSum DEF PrefixSums

LEMMA WrapOfZero == Wrap(0) = 0
BY WrapInside, KuIpcAssumption DEF Ints

(* A queue's size is the sum of the sizes of the messages in its list, as   *)
(* an int, whatever sizes were sent and in whatever order they went.        *)
THEOREM BytesHold == Spec => []QueueBytes
<1> DEFINE G == {q \in Queues : q.size = Wrap(SumSizes(q.msgs))}
<1>0. /\ \A m \in Messages : m.size \in Int
      /\ \A msgs \in Seq(Messages) : SumSizes(msgs) \in Int
  BY SizeIsInt, SumIsInt
<1>1. Init => QueueBytes
  BY EmptySeq DEF Init, QueueBytes
<1>2. Lasting(G)
  <2>1. ASSUME NEW k \in Keys PROVE NewQueue(k) \in G
    BY SumOfNone, NewQueueType, WrapOfZero DEF NewQueue
  <2>2. ASSUME NEW q \in G, NEW m \in Messages PROVE With(q, m) \in G
    <3>1. q \in Queues /\ q.msgs \in Seq(Messages) /\ q.size = Wrap(SumSizes(q.msgs))
      BY DEF Queues
    <3>2. With(q, m).size = Wrap(q.size + m.size) /\ With(q, m).msgs = Append(q.msgs, m)
      BY <3>1 DEF With, Queues
    <3>3. With(q, m).size = Wrap(SumSizes(q.msgs) + m.size)
      BY <1>0, <3>1, <3>2, WrapOfWrap
    <3> QED
      BY <1>0, <3>1, <3>2, <3>3, WithType, SumOfAppend
  <2>3. ASSUME NEW q \in G, NEW j \in 1..Len(q.msgs) PROVE Without(q, j) \in G
    <3>1. q \in Queues /\ q.msgs \in Seq(Messages) /\ q.size = Wrap(SumSizes(q.msgs))
      BY DEF Queues
    <3>2. Without(q, j).size = Wrap(q.size - q.msgs[j].size) /\ Without(q, j).msgs = RemoveAt(q.msgs, j)
      BY <3>1 DEF Without, Queues
    <3>3. q.msgs[j] \in Messages
      BY <3>1, ElementOfSeq
    <3>4. Without(q, j).size = Wrap(SumSizes(q.msgs) - q.msgs[j].size)
      BY <1>0, <3>1, <3>2, <3>3, WrapOfWrap
    <3> QED
      BY <1>0, <3>1, <3>2, <3>4, WithoutType, SumOfRemove
  <2> QED
    BY <2>1, <2>2, <2>3 DEF Lasting
<1>3. IInv => (QueueBytes <=> AllIn(G))
  BY DEF IInv, TypeOK, QueueBytes, AllIn
<1>4. IInv' => (QueueBytes' <=> AllIn(G)')
  BY DEF IInv, TypeOK, QueueBytes, AllIn
<1>5. IInv /\ QueueBytes /\ [Next]_vars => QueueBytes'
  <2> HIDE DEF G
  <2> QED
    BY <1>2, <1>3, <1>4, NextIInv, NextAllIn
<1> QED
  BY <1>1, <1>5, Invariance, PTL DEF Spec

(***************************************************************************)
(* The limits of a queue.                                                  *)
(***************************************************************************)
SizedMessages == {m \in Messages : m.size \in Nat}

(* Sizes that are not negative add up to one that is not.                   *)
LEMMA SumIsNat ==
  ASSUME NEW msgs \in Seq(SizedMessages)
  PROVE  SumSizes(msgs) \in Nat
<1> DEFINE n == Len(msgs)
<1>1. \A m \in SizedMessages : m.size \in Int
  BY DEF SizedMessages
<1>2. PICK f : PrefixSums(msgs, f) /\ SumSizes(msgs) = f[n]
  BY <1>1, SumIsPrefixSum
<1>3. n \in Nat /\ \A i \in 1..n : msgs[i].size \in Nat
  BY ElementOfSeq DEF SizedMessages
<1> DEFINE I == {i \in Nat : i <= n => f[i] \in Nat}
<1>4. 0 \in I
  BY <1>2 DEF PrefixSums
<1>5. ASSUME NEW i \in I \cap Nat PROVE i + 1 \in I
  <2> SUFFICES ASSUME i + 1 <= n PROVE f[i + 1] \in Nat
    BY <1>5
  <2>1. i + 1 \in 1..n /\ (i + 1) - 1 = i /\ f[i] \in Nat
    BY <1>3, <1>5
  <2>2. f[i + 1] = f[i] + msgs[i + 1].size
    BY <1>2, <2>1 DEF PrefixSums
  <2> QED
    BY <1>3, <2>1, <2>2
<1>6. Nat \subseteq I
  <2> HIDE DEF I
  <2> QED
    BY <1>4, <1>5, SetInduction
<1> QED
  BY <1>2, <1>3, <1>6

(* In a queue that only ever got sane sizes, the size is the plain sum: no  *)
(* addition has wrapped.                                                    *)
PlainSum(q) == q.sane => /\ q.msgs \in Seq(SizedMessages)
                         /\ q.size = SumSizes(q.msgs)

LEMMA NewQueueLimits ==
  ASSUME NEW k
  PROVE  WithinLimits(NewQueue(k)) /\ PlainSum(NewQueue(k))
<1>1. <<>> \in Seq(SizedMessages) /\ Len(<<>>) = 0
  OBVIOUS
<1>2. SumSizes(<<>>) = 0
  BY SumOfNone
<1> QED
  BY <1>1, <1>2, KuIpcAssumption DEF WithinLimits, PlainSum, NewQueue

LEMMA WithLimits ==
  ASSUME NEW q \in Queues, NEW m \in Messages, WithinLimits(q), PlainSum(q),
         ~LacksSpace(q, m)
  PROVE  WithinLimits(With(q, m)) /\ PlainSum(With(q, m))
<1>1. q.msgs \in Seq(Messages) /\ q.size \in Int /\ q.count \in Int /\ m.size \in Int
  BY SizeIsInt DEF Queues
<1>2. Len(Append(q.msgs, m)) = q.count + 1
  BY <1>1, AppendProperties DEF WithinLimits
<1>3. q.count + 1 <= KUIPC_MAXMSG
  BY <1>1, KuIpcAssumption DEF LacksSpace
<1>4. /\ With(q, m).msgs = Append(q.msgs, m)
      /\ With(q, m).count = q.count + 1
      /\ With(q, m).size = Wrap(q.size + m.size)
      /\ With(q, m).sane <=> q.sane /\ m.size \in SaneSizes
  BY DEF With, Queues
<1>5. Wrap(q.size + m.size) < KUIPC_MAXVOL
  <2>1. q.size + m.size \in Int
    BY <1>1
  <2>2. Wrap(q.size + m.size) \in Int
    BY <2>1, WrapIsInt, SizeIsInt
  <2> QED
    BY <2>2, KuIpcAssumption DEF LacksSpace
<1>6. ASSUME q.sane, m.size \in SaneSizes
      PROVE  /\ Append(q.msgs, m) \in Seq(SizedMessages)
             /\ Wrap(q.size + m.size) = SumSizes(Append(q.msgs, m))
  <2>1. m \in SizedMessages
    BY <1>6, KuIpcAssumption DEF SizedMessages, SaneSizes
  <2>2. q.msgs \in Seq(SizedMessages) /\ q.size = SumSizes(q.msgs)
    BY <1>6 DEF PlainSum
  <2>3. q.size \in Nat /\ (q.size < KUIPC_MAXVOL \/ q.size = 0)
    <3>1. q.size \in Nat
      BY <2>2, SumIsNat
    <3>2. CASE q.msgs = <<>>
      BY <2>2, <3>2, SumOfNone
    <3>3. CASE q.msgs # <<>>
      BY <1>6, <3>1, <3>3 DEF WithinLimits
    <3> QED
      BY <3>1, <3>2, <3>3
  <2>4. q.size + m.size \in Ints
    BY <1>6, <2>3, KuIpcAssumption DEF SaneSizes, Ints
  <2>5. SumSizes(Append(q.msgs, m)) = q.size + m.size
    BY <2>1, <2>2, SumOfAppend DEF SizedMessages
  <2> QED
    BY <2>1, <2>2, <2>4, <2>5, WrapInside, AppendProperties
<1> QED
  BY <1>2, <1>3, <1>4, <1>5, <1>6 DEF WithinLimits, PlainSum

LEMMA WithoutLimits ==
  ASSUME NEW q \in Queues, NEW j \in 1..Len(q.msgs), WithinLimits(q), PlainSum(q)
  PROVE  WithinLimits(Without(q, j)) /\ PlainSum(Without(q, j))
<1>1. q.msgs \in Seq(Messages) /\ q.size \in Ints /\ q.count \in Int
  BY DEF Queues
<1>2. Len(RemoveAt(q.msgs, j)) = q.count - 1
  BY <1>1, RemoveAtProperties DEF WithinLimits
<1>3. q.msgs # <<>>
  BY <1>1, EmptySeq
<1>4. /\ Without(q, j).msgs = RemoveAt(q.msgs, j)
      /\ Without(q, j).count = q.count - 1
      /\ Without(q, j).size = Wrap(q.size - q.msgs[j].size)
      /\ Without(q, j).sane = q.sane
  BY DEF Without, Queues
<1>5. ASSUME q.sane
      PROVE  /\ RemoveAt(q.msgs, j) \in Seq(SizedMessages)
             /\ Wrap(q.size - q.msgs[j].size) = SumSizes(RemoveAt(q.msgs, j))
             /\ Wrap(q.size - q.msgs[j].size) < KUIPC_MAXVOL
  <2>1. q.msgs \in Seq(SizedMessages) /\ q.size = SumSizes(q.msgs)
    BY <1>5 DEF PlainSum
  <2>2. q.msgs[j].size \in Nat
    BY <2>1, ElementOfSeq DEF SizedMessages
  <2>3. RemoveAt(q.msgs, j) \in Seq(SizedMessages)
    BY <2>1, RemoveAtProperties
  <2>4. SumSizes(RemoveAt(q.msgs, j)) = q.size - q.msgs[j].size
    BY <2>1, SumOfRemove DEF SizedMessages
  <2>5. q.size - q.msgs[j].size \in Nat
    BY <2>3, <2>4, SumIsNat
  <2>6. q.size - q.msgs[j].size \in Ints
    BY <1>1, <2>2, <2>5, KuIpcAssumption DEF Ints
  <2>7. q.size < KUIPC_MAXVOL
    BY <1>3, <1>5 DEF WithinLimits
  <2>8. q.size - q.msgs[j].size < KUIPC_MAXVOL
    <3>1. q.size \in Int
      BY <1>1, SizeIsInt
    <3> QED
      BY <2>2, <2>7, <3>1, KuIpcAssumption
  <2> QED
    BY <2>3, <2>4, <2>6, <2>8, WrapInside
<1>6. q.count - 1 <= KUIPC_MAXMSG
  BY <1>1, KuIpcAssumption DEF WithinLimits
<1> QED
  BY <1>2, <1>4, <1>5, <1>6 DEF WithinLimits, PlainSum

(* The limits that senders test hold of the lists themselves: the number of *)
(* messages whatever sizes are sent, the number of bytes in a queue that    *)
(* got sane sizes only.                                                     *)
THEOREM LimitsHold == Spec => []QueueLimits
<1> DEFINE G == {q \in Queues : WithinLimits(q) /\ PlainSum(q)}
<1>1. Lasting(G)
  BY NewQueueType, NewQueueLimits, WithType, WithLimits, WithoutType, WithoutLimits DEF Lasting
<1>2. AllIn(G) => QueueLimits
  BY DEF AllIn, QueueLimits
<1> HIDE DEF G
<1>3. Init => AllIn(G)
  BY EmptySeq DEF Init, AllIn
<1>4. IInv /\ AllIn(G) /\ [Next]_vars => AllIn(G)'
  BY <1>1, NextAllIn
<1> QED
  BY <1>2, <1>3, <1>4, Invariance, PTL DEF Spec

(***************************************************************************)
(* The walk of ku_ipc_read takes the message that Selected names: Scan is  *)
(* followed node by node, by induction over the list.                      *)
(***************************************************************************)
ScanStates == [found: Nat, min: Nat, flag: BOOLEAN, count: Nat]
ScanStart == [found |-> 0, min |-> 0, flag |-> FALSE, count |-> 0]
ScanTurn(msgs, r, s, i) == IF s.found # 0 THEN s ELSE ScanNode(msgs, r, s, i)

(* Scan goes through the nodes in order: h[i] is the loop's state after i.  *)
ScanStages(msgs, r, h) ==
  /\ h[0] = ScanStart
  /\ \A i \in 1..Len(msgs) : h[i] = ScanTurn(msgs, r, h[i - 1], i)

(* A turn keeps the types of the loop's locals.                             *)
LEMMA ScanTurnType ==
  ASSUME NEW msgs, NEW r, NEW s \in ScanStates, NEW i \in Nat
  PROVE  ScanTurn(msgs, r, s, i) \in ScanStates
<1> DEFINE m == msgs[i]
           min == IF s.count = 0 THEN i ELSE s.min
           wanted == IF r.type = 0 THEN s.count = 0 ELSE r.type > 0 /\ m.type = r.type
<1>1. s.min \in Nat /\ s.count \in Nat
  BY DEF ScanStates
<1>2. /\ (IF wanted /\ Fits(m, r) THEN i ELSE 0) \in Nat
      /\ (IF r.type < 0 /\ m.type <= -r.type /\ msgs[min].type > m.type THEN i ELSE min) \in Nat
      /\ (r.type < 0) \in BOOLEAN
      /\ s.count + 1 \in Nat
  BY <1>1
<1>3. ScanNode(msgs, r, s, i) \in ScanStates
  <2> HIDE DEF wanted, min
  <2> QED
    BY <1>2 DEF ScanNode, ScanStates, wanted, min
<1> QED
  BY <1>3 DEF ScanTurn

(* Scan, a fold over the list, is the last stage of such a walk.            *)
LEMMA ScanIsLastStage ==
  ASSUME NEW S, NEW msgs \in Seq(S), NEW r
  PROVE  \E h : ScanStages(msgs, r, h) /\ Scan(msgs, r) = h[Len(msgs)]
<1> DEFINE n == Len(msgs)
           step == [x \in ScanStates \X (1..n) |-> ScanTurn(msgs, r, x[1], x[2])]
           Body(g) == [s \in SUBSET (1..n) |->
                         IF s = {} THEN ScanStart
                         ELSE ScanTurn(msgs, r, g[s \ {Max(s)}], Max(s))]
<1>1. n \in Nat /\ DOMAIN msgs = 1..n
  OBVIOUS
<1>2. ScanStart \in ScanStates /\ step \in [ScanStates \X (1..n) -> ScanStates]
  <2>1. \A x \in ScanStates \X (1..n) : ScanTurn(msgs, r, x[1], x[2]) \in ScanStates
    BY ScanTurnType
  <2> QED
    BY <2>1 DEF ScanStart, ScanStates
<1>3. PICK f : IsFold(n, ScanStates, ScanStart, step, f)
  <2> HIDE DEF step, n
  <2> QED
    BY <1>1, <1>2, FoldExists
<1>4. ASSUME NEW s \in SUBSET (1..n), s # {}
      PROVE  f[s] = ScanTurn(msgs, r, f[s \ {Max(s)}], Max(s))
  <2>1. Max(s) \in 1..n
    BY <1>1, <1>4, MaxOfRange
  <2>2. s \ {Max(s)} \in SUBSET (1..n)
    OBVIOUS
  <2>3. <<f[s \ {Max(s)}], Max(s)>> \in ScanStates \X (1..n)
    BY <1>3, <2>1, <2>2 DEF IsFold
  <2>4. f[s] = step[<<f[s \ {Max(s)}], Max(s)>>]
    BY <1>3, <1>4 DEF IsFold
  <2> QED
    BY <2>3, <2>4
<1>5. f = Body(f)
  <2>1. f = [s \in SUBSET (1..n) |-> f[s]]
    BY <1>3 DEF IsFold
  <2>2. f[{}] = ScanStart
    BY <1>3 DEF IsFold
  <2> HIDE DEF n
  <2> QED
    BY <1>4, <2>1, <2>2
<1>6. PICK g : g = Body(g) /\ Scan(msgs, r) = g[1..n]
  <2> DEFINE Nodes == [i \in DOMAIN msgs |-> i]
             Loop(g) == [s \in SUBSET DOMAIN Nodes |->
                           IF s = {} THEN [found |-> 0, min |-> 0, flag |-> FALSE, count |-> 0]
                           ELSE IF g[s \ {Max(s)}].found # 0 THEN g[s \ {Max(s)}]
                                ELSE ScanNode(msgs, r, g[s \ {Max(s)}], Nodes[Max(s)])]
  <2>1. ASSUME NEW g PROVE Loop(g) = Body(g)
    <3>1. \A s \in SUBSET (1..n) : s # {} => Nodes[Max(s)] = Max(s)
      BY <1>1, MaxOfRange
    <3> QED
      BY <1>1, <3>1 DEF ScanTurn, ScanStart
  <2>2. f = Loop(f)
    <3> HIDE DEF Loop, Body
    <3> QED
      BY <1>5, <2>1
  <2>3. PICK g : g = Loop(g) /\ Scan(msgs, r) = g[DOMAIN Nodes]
    <3> HIDE DEF n, step
    <3> QED
      BY <2>2 DEF Scan, FoldLeftDomain, FoldLeft, MapThenFoldSet
  <2>4. DOMAIN Nodes = 1..n
    BY <1>1
  <2> HIDE DEF Loop, Body
  <2> QED
    BY <2>1, <2>3, <2>4
<1> DEFINE h == [i \in 0..n |-> g[1..i]]
<1>7. h[0] = ScanStart
  <2>1. 1..0 = {}
    OBVIOUS
  <2> QED
    BY <1>1, <1>6, <2>1
<1>8. ASSUME NEW i \in 1..n PROVE h[i] = ScanTurn(msgs, r, h[i - 1], i)
  <2>1. /\ (1..i) \in SUBSET (1..n) /\ (1..i) # {}
        /\ Max(1..i) = i
        /\ (1..i) \ {i} = 1..(i - 1)
    BY <1>1, FirstPositions
  <2>2. h[i] = g[1..i] /\ h[i - 1] = g[1..(i - 1)]
    BY <1>1
  <2>3. g[1..i] = ScanTurn(msgs, r, g[(1..i) \ {Max(1..i)}], Max(1..i))
    <3>1. g = [s \in SUBSET (1..n) |->
                 IF s = {} THEN ScanStart ELSE ScanTurn(msgs, r, g[s \ {Max(s)}], Max(s))]
      BY <1>6
    <3> HIDE DEF n
    <3> QED
      BY <2>1, <3>1
  <2> HIDE DEF h
  <2> QED
    BY <2>1, <2>2, <2>3
<1>9. Scan(msgs, r) = h[n]
  BY <1>1, <1>6
<1> QED
  <2> HIDE DEF h
  <2> QED
    BY <1>7, <1>8, <1>9 DEF ScanStages

(* What the loop knows after i nodes: either it broke off at the first node *)
(* that is wanted and fits, or there is none among the i, and min is the    *)
(* first of the smallest types within the bound (node 1, if there is none). *)
Wants(msgs, r, j) == /\ Fits(msgs[j], r)
                     /\ \/ r.type = 0 /\ j = 1
                        \/ r.type > 0 /\ msgs[j].type = r.type

Within(msgs, r, i) == {h \in 1..i : msgs[h].type <= -r.type}

FirstSmallest(msgs, r, i, j) ==
  IF Within(msgs, r, i) = {} THEN j = 1
  ELSE /\ j \in Within(msgs, r, i)
       /\ \A h \in Within(msgs, r, i) : \/ msgs[j].type < msgs[h].type
                                        \/ msgs[j].type = msgs[h].type /\ j <= h

ScanKnows(msgs, r, s, i) ==
  IF s.found # 0
  THEN /\ s.found \in 1..i /\ Wants(msgs, r, s.found)
       /\ \A h \in 1..(s.found - 1) : ~Wants(msgs, r, h)
  ELSE /\ \A h \in 1..i : ~Wants(msgs, r, h)
       /\ s.count = i
       /\ s.flag = (i > 0 /\ r.type < 0)
       /\ i > 0 /\ r.type < 0 => FirstSmallest(msgs, r, i, s.min)

(* The types that the walk compares are integers.                           *)
LEMMA TypesAreIntegers ==
  ASSUME NEW msgs \in Seq(Messages), NEW r \in ReadReq
  PROVE  /\ Len(msgs) \in Nat /\ DOMAIN msgs = 1..Len(msgs)
         /\ r.type \in Int
         /\ \A h \in 1..Len(msgs) : msgs[h].type \in Int
<1>1. r.type \in Int
  <2>1. r.type \in RcvTypes
    BY DEF ReadReq
  <2> QED
    BY <2>1, KuIpcAssumption
<1>2. ASSUME NEW h \in 1..Len(msgs) PROVE msgs[h].type \in Int
  <2>1. msgs[h] \in Messages
    BY ElementOfSeq
  <2>2. msgs[h].type \in Types
    BY <2>1 DEF Messages
  <2>3. Types \subseteq Int
    BY KuIpcAssumption
  <2> QED
    BY <2>2, <2>3
<1> QED
  BY <1>1, <1>2, LenProperties

(* One turn keeps what the loop knows.                                      *)
LEMMA ScanTurnKnows ==
  ASSUME NEW msgs \in Seq(Messages), NEW r \in ReadReq, NEW i \in 1..Len(msgs),
         NEW s, ScanKnows(msgs, r, s, i - 1)
  PROVE  ScanKnows(msgs, r, ScanTurn(msgs, r, s, i), i)
<1> DEFINE t == ScanTurn(msgs, r, s, i)
           min == IF s.count = 0 THEN i ELSE s.min
<1>1. /\ r.type \in Int /\ \A h \in 1..Len(msgs) : msgs[h].type \in Int
      /\ Len(msgs) \in Nat
  BY TypesAreIntegers
<1>2. CASE s.found # 0
  <2>1. t = s
    BY <1>2 DEF ScanTurn
  <2>2. /\ s.found \in 1..(i - 1) /\ Wants(msgs, r, s.found)
        /\ \A h \in 1..(s.found - 1) : ~Wants(msgs, r, h)
    BY <1>2 DEF ScanKnows
  <2>3. s.found \in 1..i
    BY <1>1, <2>2
  <2> QED
    BY <1>2, <2>1, <2>2, <2>3 DEF ScanKnows
<1>3. CASE s.found = 0
  <2>1. /\ \A h \in 1..(i - 1) : ~Wants(msgs, r, h)
        /\ s.count = i - 1
        /\ i - 1 > 0 /\ r.type < 0 => FirstSmallest(msgs, r, i - 1, s.min)
    BY <1>3 DEF ScanKnows
  <2>2. /\ t.found = IF Wants(msgs, r, i) THEN i ELSE 0
        /\ t.flag = (r.type < 0)
        /\ t.count = i
        /\ t.min = IF r.type < 0 /\ msgs[i].type <= -r.type /\ msgs[min].type > msgs[i].type
                   THEN i ELSE min
    <3>1. (IF r.type = 0 THEN s.count = 0 ELSE r.type > 0 /\ msgs[i].type = r.type)
            <=> ((r.type = 0 /\ i = 1) \/ (r.type > 0 /\ msgs[i].type = r.type))
      <4>1. (s.count = 0) <=> (i = 1)
        BY <2>1
      <4>2. msgs[i].type \in Int
        BY <1>1
      <4> QED
        BY <1>1, <4>1, <4>2
    <3> DEFINE wanted == IF r.type = 0 THEN s.count = 0
                         ELSE r.type > 0 /\ msgs[i].type = r.type
    <3>2. t = [ found |-> IF wanted /\ Fits(msgs[i], r) THEN i ELSE 0,
                min |-> IF r.type < 0 /\ msgs[i].type <= -r.type /\ msgs[min].type > msgs[i].type
                        THEN i ELSE min,
                flag |-> r.type < 0,
                count |-> s.count + 1 ]
      BY <1>3 DEF ScanTurn, ScanNode
    <3>3. s.count + 1 = i
      BY <1>1, <2>1
    <3>4. (wanted /\ Fits(msgs[i], r)) <=> Wants(msgs, r, i)
      BY <3>1 DEF Wants
    <3> HIDE DEF wanted, min, t
    <3> QED
      BY <3>2, <3>3, <3>4
  <2> HIDE DEF t
  <2>3. ASSUME Wants(msgs, r, i) PROVE ScanKnows(msgs, r, t, i)
    <3>1. t.found = i /\ i # 0
      BY <2>2, <2>3
    <3> QED
      BY <2>1, <2>3, <3>1 DEF ScanKnows
  <2>4. ASSUME ~Wants(msgs, r, i) PROVE ScanKnows(msgs, r, t, i)
    <3>1. \A h \in 1..i : ~Wants(msgs, r, h)
      BY <1>1, <2>1, <2>4
    <3>2. ASSUME r.type < 0 PROVE FirstSmallest(msgs, r, i, t.min)
      <4> DEFINE W == Within(msgs, r, i)
                 V == Within(msgs, r, i - 1)
      <4>1. W = IF msgs[i].type <= -r.type THEN V \cup {i} ELSE V
        <5>1. 1..i = (1..(i - 1)) \cup {i} /\ i \notin 1..(i - 1)
          BY <1>1
        <5> QED
          BY <5>1 DEF Within
      <4>2. V \subseteq 1..(i - 1) /\ \A h \in V : msgs[h].type \in Int /\ msgs[h].type <= -r.type
        BY <1>1 DEF Within
      <4>3. CASE i = 1
        <5>1. V = {} /\ min = 1 /\ t.min = 1
          <6>1. 1..(i - 1) = {}
            BY <4>3
          <6> QED
            BY <1>1, <2>1, <2>2, <4>2, <4>3, <6>1
        <5> HIDE DEF V, W, min
        <5>2. W = {} \/ W = {1}
          BY <4>1, <4>3, <5>1
        <5> QED
          BY <1>1, <4>3, <5>1, <5>2 DEF FirstSmallest, W
      <4>4. CASE i > 1
        <5>1. i - 1 > 0 /\ min = s.min /\ FirstSmallest(msgs, r, i - 1, s.min)
          BY <1>1, <2>1, <3>2, <4>4
        <5>2. s.min \in 1..(i - 1)
          BY <1>1, <4>2, <4>4, <5>1 DEF FirstSmallest
        <5>3. t.min = IF msgs[i].type <= -r.type /\ msgs[s.min].type > msgs[i].type
                      THEN i ELSE s.min
          BY <2>2, <3>2, <5>1
        <5>4. msgs[i].type \in Int /\ msgs[s.min].type \in Int
          BY <1>1, <5>2
        <5>5. V = {} => s.min = 1 /\ msgs[s.min].type > -r.type
          <6>1. V = {} => s.min = 1
            BY <5>1 DEF FirstSmallest
          <6>2. V = {} => ~(msgs[s.min].type <= -r.type)
            BY <5>2 DEF Within
          <6> QED
            BY <1>1, <5>4, <6>1, <6>2
        <5>6. V # {} => /\ s.min \in V
                        /\ \A h \in V : \/ msgs[s.min].type < msgs[h].type
                                        \/ msgs[s.min].type = msgs[h].type /\ s.min <= h
          BY <5>1 DEF FirstSmallest
        <5> HIDE DEF V, W, min
        <5>7. CASE ~(msgs[i].type <= -r.type)
          <6>1. W = V /\ t.min = s.min
            BY <4>1, <5>3, <5>7
          <6> QED
            BY <5>1, <6>1 DEF FirstSmallest, V, W
        <5>8. CASE msgs[i].type <= -r.type
          <6>1. W = V \cup {i} /\ W # {}
            BY <4>1, <5>8
          <6>2. CASE V = {}
            <7>1. t.min = i
              BY <1>1, <5>3, <5>4, <5>5, <5>8, <6>2
            <7> QED
              BY <1>1, <6>1, <6>2, <7>1 DEF FirstSmallest, W
          <6>3. CASE V # {} /\ msgs[s.min].type > msgs[i].type
            <7>1. t.min = i
              BY <5>3, <5>8, <6>3
            <7>2. \A h \in V : msgs[i].type < msgs[h].type
              BY <4>2, <5>4, <5>6, <6>3
            <7> QED
              BY <1>1, <6>1, <7>1, <7>2 DEF FirstSmallest, W
          <6>4. CASE V # {} /\ ~(msgs[s.min].type > msgs[i].type)
            <7>1. t.min = s.min /\ s.min <= i
              BY <1>1, <5>2, <5>3, <6>4
            <7>2. \/ msgs[s.min].type < msgs[i].type
                  \/ msgs[s.min].type = msgs[i].type /\ s.min <= i
              BY <5>4, <6>4, <7>1
            <7> QED
              BY <5>6, <6>1, <6>4, <7>1, <7>2 DEF FirstSmallest, W
          <6> QED
            BY <6>2, <6>3, <6>4
        <5> QED
          BY <5>7, <5>8
      <4> QED
        BY <1>1, <4>3, <4>4
    <3> QED
      <4>1. t.found = 0 /\ t.flag = (r.type < 0) /\ t.count = i /\ i > 0
        BY <2>2, <2>4
      <4> QED
        BY <3>1, <3>2, <4>1 DEF ScanKnows
  <2> QED
    BY <2>3, <2>4 DEF t
<1> QED
  BY <1>2, <1>3

(* The loop ends at the message that Selected names.                        *)
LEMMA TakenIsSelected ==
  ASSUME NEW msgs \in Seq(Messages), NEW r \in ReadReq
  PROVE  Taken(msgs, r) = Selected(msgs, r)
<1> DEFINE n == Len(msgs)
           s == Scan(msgs, r)
<1>1. PICK h : ScanStages(msgs, r, h) /\ Scan(msgs, r) = h[n]
  BY ScanIsLastStage
<1>2. /\ n \in Nat /\ DOMAIN msgs = 1..n /\ r.type \in Int
      /\ \A j \in 1..n : msgs[j].type \in Int
  BY TypesAreIntegers
<1>3. ScanKnows(msgs, r, s, n)
  <2> DEFINE I == {i \in Nat : i <= n => ScanKnows(msgs, r, h[i], i)}
  <2>1. 0 \in I
    <3>1. h[0].found = 0 /\ h[0].count = 0 /\ h[0].flag = FALSE
      BY <1>1 DEF ScanStages, ScanStart
    <3>2. (1..0) = {} /\ ~(0 > 0)
      OBVIOUS
    <3>3. ScanKnows(msgs, r, h[0], 0)
      BY <3>1, <3>2 DEF ScanKnows
    <3> QED
      BY <3>3
  <2>2. ASSUME NEW i \in I \cap Nat PROVE i + 1 \in I
    <3> SUFFICES ASSUME i + 1 <= n PROVE ScanKnows(msgs, r, h[i + 1], i + 1)
      BY <2>2
    <3>1. i + 1 \in 1..n /\ (i + 1) - 1 = i /\ ScanKnows(msgs, r, h[i], i)
      BY <1>2, <2>2
    <3>2. h[i + 1] = ScanTurn(msgs, r, h[i], i + 1)
      BY <1>1, <3>1 DEF ScanStages
    <3> QED
      BY <3>1, <3>2, ScanTurnKnows
  <2>3. Nat \subseteq I
    <3> HIDE DEF I
    <3> QED
      BY <2>1, <2>2, SetInduction
  <2> QED
    BY <1>1, <1>2, <2>3
<1> HIDE DEF s
<1>4. Taken(msgs, r) = IF s.found # 0 THEN {s.found}
                       ELSE {i \in 1..n : s.flag /\ i = s.min /\ Fits(msgs[i], r)}
  BY <1>2 DEF Taken, s
<1>5. Selected(msgs, r) =
        {i \in 1..n : \/ Wants(msgs, r, i) /\ \A g \in 1..(i - 1) : ~Wants(msgs, r, g)
                      \/ r.type < 0 /\ Fits(msgs[i], r) /\ FirstSmallest(msgs, r, n, i)}
  <2>1. ASSUME NEW i \in 1..n
        PROVE  Smallest(msgs, -r.type, i) <=> FirstSmallest(msgs, r, n, i)
    BY <1>2 DEF Smallest, FirstSmallest, Within
  <2>2. ASSUME NEW i \in 1..n, r.type = 0
        PROVE  (i = 1 /\ Fits(msgs[i], r))
                 <=> (Wants(msgs, r, i) /\ \A g \in 1..(i - 1) : ~Wants(msgs, r, g))
    BY <1>2, <2>2 DEF Wants
  <2>3. ASSUME NEW i \in 1..n, r.type > 0
        PROVE  ( /\ Fits(msgs[i], r) /\ msgs[i].type = r.type
                 /\ \A g \in 1..(i - 1) : ~(msgs[g].type = r.type /\ Fits(msgs[g], r)) )
                 <=> (Wants(msgs, r, i) /\ \A g \in 1..(i - 1) : ~Wants(msgs, r, g))
    BY <1>2, <2>3 DEF Wants
  <2>4. ASSUME NEW i \in 1..n, r.type < 0 PROVE ~Wants(msgs, r, i)
    BY <1>2, <2>4 DEF Wants
  <2> DEFINE First(i) == Wants(msgs, r, i) /\ \A g \in 1..(i - 1) : ~Wants(msgs, r, g)
             Least(i) == r.type < 0 /\ Fits(msgs[i], r) /\ FirstSmallest(msgs, r, n, i)
  <2>5. ASSUME NEW i \in 1..n PROVE i \in Selected(msgs, r) <=> (First(i) \/ Least(i))
    <3>1. CASE r.type = 0
      <4>1. i \in Selected(msgs, r) <=> (i = 1 /\ Fits(msgs[i], r))
        BY <1>2, <3>1 DEF Selected
      <4>2. ~Least(i)
        BY <3>1
      <4> QED
        BY <2>2, <3>1, <4>1, <4>2
    <3>2. CASE r.type > 0
      <4>1. i \in Selected(msgs, r)
              <=> ( /\ Fits(msgs[i], r) /\ msgs[i].type = r.type
                    /\ \A g \in 1..(i - 1) : ~(msgs[g].type = r.type /\ Fits(msgs[g], r)) )
        BY <1>2, <3>2 DEF Selected
      <4>2. ~Least(i)
        BY <1>2, <3>2
      <4> QED
        BY <2>3, <3>2, <4>1, <4>2
    <3>3. CASE r.type < 0
      <4>1. i \in Selected(msgs, r) <=> (Fits(msgs[i], r) /\ Smallest(msgs, -r.type, i))
        BY <1>2, <3>3 DEF Selected
      <4> QED
        BY <2>1, <2>4, <3>3, <4>1
    <3> QED
      BY <1>2, <3>1, <3>2, <3>3
  <2>6. Selected(msgs, r) \subseteq 1..n
    BY <1>2 DEF Selected
  <2> QED
    BY <2>5, <2>6
<1>6. CASE s.found # 0
  <2>1. /\ s.found \in 1..n /\ Wants(msgs, r, s.found)
        /\ \A g \in 1..(s.found - 1) : ~Wants(msgs, r, g)
    BY <1>3, <1>6 DEF ScanKnows
  <2>2. ~(r.type < 0)
    BY <1>2, <2>1 DEF Wants
  <2>3. ASSUME NEW i \in 1..n, Wants(msgs, r, i), \A g \in 1..(i - 1) : ~Wants(msgs, r, g)
        PROVE  i = s.found
    <3>1. ~(i < s.found) /\ ~(s.found < i)
      BY <2>1, <2>3
    <3> QED
      BY <2>1, <3>1
  <2> QED
    BY <1>4, <1>5, <1>6, <2>1, <2>2, <2>3
<1>7. CASE s.found = 0
  <2>1. /\ \A g \in 1..n : ~Wants(msgs, r, g)
        /\ s.flag = (n > 0 /\ r.type < 0)
        /\ n > 0 /\ r.type < 0 => FirstSmallest(msgs, r, n, s.min)
    BY <1>3, <1>7 DEF ScanKnows
  <2>2. ASSUME NEW i \in 1..n
        PROVE  (s.flag /\ i = s.min) <=> (r.type < 0 /\ FirstSmallest(msgs, r, n, i))
    <3>1. n > 0
      BY <1>2
    <3>2. ASSUME FirstSmallest(msgs, r, n, i), FirstSmallest(msgs, r, n, s.min)
          PROVE  i = s.min
      <4>1. CASE Within(msgs, r, n) = {}
        BY <3>2, <4>1 DEF FirstSmallest
      <4>2. CASE Within(msgs, r, n) # {}
        <5>1. /\ i \in Within(msgs, r, n) /\ s.min \in Within(msgs, r, n)
              /\ \/ msgs[i].type < msgs[s.min].type
                 \/ msgs[i].type = msgs[s.min].type /\ i <= s.min
              /\ \/ msgs[s.min].type < msgs[i].type
                 \/ msgs[s.min].type = msgs[i].type /\ s.min <= i
          BY <3>2, <4>2 DEF FirstSmallest
        <5>2. i \in 1..n /\ s.min \in 1..n
          BY <5>1 DEF Within
        <5>3. msgs[i].type \in Int /\ msgs[s.min].type \in Int
          BY <1>2, <5>2
        <5> QED
          BY <1>2, <5>1, <5>2, <5>3
      <4> QED
        BY <4>1, <4>2
    <3> QED
      BY <2>1, <3>1, <3>2
  <2> QED
    BY <1>4, <1>5, <1>7, <2>1, <2>2
<1> QED
  BY <1>6, <1>7

(* In every queue the driver can build, for every request, the loop takes   *)
(* the message that Selected names.                                         *)
THEOREM ScanIsSelected == Spec => []ScanAgrees
<1>1. TypeOK => ScanAgrees
  <2> SUFFICES ASSUME TypeOK, NEW i \in DOMAIN msg_q, NEW r \in ReadReq
               PROVE  Taken(msg_q[i].msgs, r) = Selected(msg_q[i].msgs, r)
    BY DEF ScanAgrees
  <2>1. msg_q[i].msgs \in Seq(Messages)
    <3>1. msg_q[i] \in Queues
      BY LenProperties, ElementOfSeq DEF TypeOK
    <3> QED
      BY <3>1 DEF Queues
  <2> QED
    BY <2>1, TakenIsSelected
<1> QED
  BY <1>1, TypeCorrect, PTL

(***************************************************************************)
(* A lost lock.  The thread that lost it had found a queue, and nothing    *)
(* can take that queue away: this is why rmmod still sees queues, tries to *)
(* take the lock, and waits for ever.                                      *)
(***************************************************************************)
WedgedQueue == Wedged /\ module # "unloaded" => msg_q # <<>>

(* A step of a call outside its critical section loses no lock.             *)
LEMMA NoNewWedge ==
  ASSUME NEW p \in Procs, call[p].at # "cs",
         \A o \in Procs \ {p} : call'[o] = call[o], UNCHANGED ku_lock, Wedged'
  PROVE  Wedged
BY DEF Wedged

LEMMA WedgedQueueStep ==
  ASSUME IInv, WedgedQueue, [Next]_vars
  PROVE  WedgedQueue'
<1>1. CASE UNCHANGED vars
  BY <1>1 DEF vars, WedgedQueue, Wedged
<1>2. ASSUME NEW p \in Procs, (\E r \in Requests : Call(p, r)) \/ Enter(p) PROVE WedgedQueue'
  <2>1. /\ call[p].at # "cs"
        /\ \A o \in Procs \ {p} : call'[o] = call[o]
        /\ UNCHANGED <<msg_q, ku_lock, module>>
    BY <1>2 DEF Call, Enter, GoTo, Return, IInv, TypeOK
  <2> QED
    BY <2>1, NoNewWedge DEF WedgedQueue
<1>3. ASSUME NEW p \in Procs, CallUnloaded(p) \/ Fault(p) PROVE WedgedQueue'
  BY <1>3 DEF CallUnloaded, Fault, WedgedQueue
<1>4. ASSUME NEW p \in Procs, Acquire(p) PROVE WedgedQueue'
  <2>1. ku_lock' = p /\ call'[p].at = "cs"
    BY <1>4, GoToProperties DEF Acquire, IInv, TypeOK
  <2> QED
    BY <2>1 DEF WedgedQueue, Wedged
<1>5. ASSUME NEW p \in Procs, CriticalSection(p) PROVE WedgedQueue'
  <2>1. CASE ku_lock' = Nobody
    BY <2>1, KuIpcAssumption DEF WedgedQueue, Wedged
  <2>2. CASE ku_lock' # Nobody
    <3>1. \E i \in Find(call[p].req.key) : UNCHANGED msg_q
      BY <1>5, <2>2 DEF CriticalSection, ku_ipc_read, ku_ipc_write, KU_CHECK, KU_CREAT,
                        KU_CLOSE, KU_EMPTY, Unlock
    <3>2. PICK i \in Find(call[p].req.key) : UNCHANGED msg_q
      BY <3>1
    <3>3. i \in 1..Len(msg_q)
      BY <3>2, FindInList DEF IInv, TypeOK
    <3> QED
      BY <3>2, <3>3, EmptySeq DEF WedgedQueue
  <2> QED
    BY <2>1, <2>2
<1>6. CASE ExitBegin
  BY <1>6 DEF ExitBegin, WedgedQueue, Wedged
<1>7. CASE ExitDrain
  BY <1>7, KuIpcAssumption DEF ExitDrain, WedgedQueue, Wedged
<1>8. CASE ExitEnd
  BY <1>8 DEF ExitEnd, WedgedQueue
<1> QED
  BY <1>1, <1>2, <1>3, <1>4, <1>5, <1>6, <1>7, <1>8 DEF Next, Step

(* What a step does while the lock is lost.                                 *)
LEMMA WedgedStep ==
  ASSUME IInv, WedgedQueue, Wedged, [Next]_vars
  PROVE  /\ UNCHANGED <<msg_q, ku_ipc_volume, ku_lock>>
         /\ Wedged'
         /\ module \in {"loaded", "exiting"} => module' \in {"loaded", "exiting"}
<1>1. ku_lock # Nobody /\ ku_lock # Rmmod
  BY KuIpcAssumption DEF Wedged
<1>2. \A p \in Procs : call[p].at # "cs"
  BY DEF Wedged, IInv, LockOwner
<1>3. CASE UNCHANGED vars
  BY <1>3 DEF vars, Wedged
<1>4. ASSUME NEW p \in Procs,
             (\E r \in Requests : Call(p, r)) \/ CallUnloaded(p) \/ Enter(p) \/ Fault(p)
      PROVE  UNCHANGED <<msg_q, ku_ipc_volume, ku_lock, module>> /\ Wedged'
  <2>1. UNCHANGED <<msg_q, ku_ipc_volume, ku_lock, module>>
    BY <1>4 DEF Call, CallUnloaded, Enter, Fault
  <2>2. \A o \in Procs : call'[o] = call[o] \/ call'[o].at \in {"enter", "lock", "user", "oops"}
    BY <1>4 DEF Call, CallUnloaded, Enter, Fault, GoTo, Return, Oops, IInv, TypeOK
  <2> QED
    BY <1>2, <2>1, <2>2 DEF Wedged
<1>5. ASSUME NEW p \in Procs PROVE ~Acquire(p) /\ ~CriticalSection(p)
  BY <1>1, <1>2, CsLeaves DEF Acquire
<1>6. CASE ExitBegin
  <2>1. ku_ipc_volume = Len(msg_q) /\ msg_q # <<>>
    BY <1>1, <1>6 DEF ExitBegin, WedgedQueue, IInv, VolumeExact
  <2>2. ku_ipc_volume > 0
    BY <2>1, EmptySeq DEF IInv, TypeOK
  <2> QED
    BY <1>6, <2>2 DEF ExitBegin, Wedged
<1>7. ~ExitDrain
  BY <1>1 DEF ExitDrain
<1>8. CASE ExitEnd
  BY <1>8 DEF ExitEnd, Wedged
<1> QED
  BY <1>3, <1>4, <1>5, <1>6, <1>7, <1>8 DEF Next, Step

(* Once ku_lock is lost it stays lost: no step changes a queue or the       *)
(* counter again, and an rmmod that has not passed its test of the counter  *)
(* never gets past it and the lock.                                         *)
THEOREM LostLockIsForever == Spec => WedgeIsForever
<1>1. Init => WedgedQueue
  BY KuIpcAssumption DEF Init, WedgedQueue, Wedged
<1>2. IInv /\ WedgedQueue /\ [Next]_vars => WedgedQueue'
  BY WedgedQueueStep
<1>3. IInv /\ WedgedQueue /\ [Next]_vars
        => [Wedged => /\ UNCHANGED <<msg_q, ku_ipc_volume, ku_lock>>
                      /\ Wedged'
                      /\ module \in {"loaded", "exiting"} =>
                           module' \in {"loaded", "exiting"}]_vars
  BY WedgedStep
<1> QED
  BY <1>1, <1>2, <1>3, Invariance, PTL DEF Spec, WedgeIsForever

(***************************************************************************)
(* The driver implements MsgQueues: seen through queues and open, each of  *)
(* its steps is one atomic operation on the list of queues, or none.       *)
(***************************************************************************)

(* The queues of MsgQueues.                                                 *)
Views == [key: Keys, msgs: Seq(Messages)]

(***************************************************************************)
(* Lemmas about View.                                                      *)
(***************************************************************************)
LEMMA ViewProperties ==
  ASSUME NEW s \in Seq(Queues)
  PROVE  /\ View(s) \in Seq(Views)
         /\ Len(View(s)) = Len(s)
         /\ DOMAIN View(s) = 1..Len(s)
         /\ \A i \in 1..Len(s) : View(s)[i] = [key |-> s[i].key, msgs |-> s[i].msgs]
<1>1. DOMAIN s = 1..Len(s) /\ Len(s) \in Nat
  BY LenProperties
<1>2. \A i \in 1..Len(s) : [key |-> s[i].key, msgs |-> s[i].msgs] \in Views
  <2> TAKE i \in 1..Len(s)
  <2>1. s[i] \in Queues
    BY ElementOfSeq
  <2> QED
    BY <2>1 DEF Queues, Views
<1>3. View(s) \in [1..Len(s) -> Views]
  BY <1>1, <1>2 DEF View
<1>4. View(s) \in Seq(Views)
  BY <1>1, <1>3
<1>5. Len(View(s)) = Len(s)
  BY <1>1, <1>3, <1>4
<1> QED
  BY <1>1, <1>3, <1>4, <1>5 DEF View

LEMMA ViewAppend ==
  ASSUME NEW s \in Seq(Queues), NEW q \in Queues
  PROVE  View(Append(s, q)) = Append(View(s), [key |-> q.key, msgs |-> q.msgs])
<1> DEFINE v == [key |-> q.key, msgs |-> q.msgs]
<1>1. v \in Views
  BY DEF Queues, Views
<1>2. /\ Append(s, q) \in Seq(Queues) /\ Len(Append(s, q)) = Len(s) + 1
      /\ \A i \in 1..Len(s) : Append(s, q)[i] = s[i]
      /\ Append(s, q)[Len(s) + 1] = q
      /\ Len(s) \in Nat
  BY AppendProperties, LenProperties
<1>3. /\ View(Append(s, q)) \in Seq(Views) /\ Len(View(Append(s, q))) = Len(s) + 1
      /\ \A i \in 1..(Len(s) + 1) :
           View(Append(s, q))[i] = [key |-> Append(s, q)[i].key, msgs |-> Append(s, q)[i].msgs]
  BY <1>2, ViewProperties
<1>4. /\ View(s) \in Seq(Views) /\ Len(View(s)) = Len(s)
      /\ \A i \in 1..Len(s) : View(s)[i] = [key |-> s[i].key, msgs |-> s[i].msgs]
  BY ViewProperties
<1> HIDE DEF v
<1>5. /\ Append(View(s), v) \in Seq(Views) /\ Len(Append(View(s), v)) = Len(s) + 1
      /\ \A i \in 1..Len(s) : Append(View(s), v)[i] = View(s)[i]
      /\ Append(View(s), v)[Len(s) + 1] = v
  BY <1>1, <1>4, AppendProperties
<1>6. ASSUME NEW i \in 1..(Len(s) + 1)
      PROVE  View(Append(s, q))[i] = Append(View(s), v)[i]
  <2>1. CASE i \in 1..Len(s)
    <3>1. View(Append(s, q))[i] = [key |-> s[i].key, msgs |-> s[i].msgs]
      BY <1>2, <1>3, <2>1
    <3>2. Append(View(s), v)[i] = [key |-> s[i].key, msgs |-> s[i].msgs]
      BY <1>4, <1>5, <2>1
    <3> QED
      BY <3>1, <3>2
  <2>2. CASE i = Len(s) + 1
    <3>1. View(Append(s, q))[i] = [key |-> Append(s, q)[i].key, msgs |-> Append(s, q)[i].msgs]
      BY <1>3
    <3>2. Append(s, q)[i] = q
      BY <1>2, <2>2
    <3>3. Append(View(s), v)[i] = v
      BY <1>5, <2>2
    <3>4. View(Append(s, q))[i] = [key |-> q.key, msgs |-> q.msgs]
      BY <3>1, <3>2
    <3>5. View(Append(s, q))[i] = v
      BY <3>4 DEF v
    <3> QED
      BY <3>3, <3>5
  <2>3. i \in 1..Len(s) \/ i = Len(s) + 1
    <3>1. Len(s) \in Nat
      BY <1>2
    <3> QED
      BY <3>1
  <2> QED
    BY <2>1, <2>2, <2>3
<1> QED
  BY <1>3, <1>5, <1>6, SeqEqual DEF v

LEMMA ViewRemoveAt ==
  ASSUME NEW s \in Seq(Queues), NEW i \in 1..Len(s)
  PROVE  View(RemoveAt(s, i)) = RemoveAt(View(s), i)
<1>1. /\ RemoveAt(s, i) \in Seq(Queues) /\ Len(RemoveAt(s, i)) = Len(s) - 1
      /\ \A j \in 1..(Len(s) - 1) : RemoveAt(s, i)[j] = IF j < i THEN s[j] ELSE s[j + 1]
      /\ Len(s) \in Nat
  BY RemoveAtProperties, LenProperties
<1>2. /\ View(RemoveAt(s, i)) \in Seq(Views) /\ Len(View(RemoveAt(s, i))) = Len(s) - 1
      /\ \A j \in 1..(Len(s) - 1) :
           View(RemoveAt(s, i))[j] = [key |-> RemoveAt(s, i)[j].key, msgs |-> RemoveAt(s, i)[j].msgs]
  BY <1>1, ViewProperties
<1>3. /\ View(s) \in Seq(Views) /\ Len(View(s)) = Len(s)
      /\ \A j \in 1..Len(s) : View(s)[j] = [key |-> s[j].key, msgs |-> s[j].msgs]
  BY ViewProperties
<1>4. /\ RemoveAt(View(s), i) \in Seq(Views) /\ Len(RemoveAt(View(s), i)) = Len(s) - 1
      /\ \A j \in 1..(Len(s) - 1) :
           RemoveAt(View(s), i)[j] = IF j < i THEN View(s)[j] ELSE View(s)[j + 1]
  <2> DEFINE w == View(s)
  <2>1. w \in Seq(Views) /\ i \in 1..Len(w) /\ Len(w) = Len(s)
    BY <1>3
  <2> HIDE DEF w
  <2>2. /\ RemoveAt(w, i) \in Seq(Views) /\ Len(RemoveAt(w, i)) = Len(w) - 1
        /\ \A j \in 1..(Len(w) - 1) : RemoveAt(w, i)[j] = IF j < i THEN w[j] ELSE w[j + 1]
    BY <2>1, RemoveAtProperties
  <2> QED
    BY <2>1, <2>2 DEF w
<1>5. ASSUME NEW j \in 1..(Len(s) - 1)
      PROVE  View(RemoveAt(s, i))[j] = RemoveAt(View(s), i)[j]
  <2>1. j \in 1..Len(s) /\ j + 1 \in 1..Len(s)
    BY <1>1
  <2>2. CASE j < i
    BY <1>1, <1>2, <1>3, <1>4, <2>1, <2>2
  <2>3. CASE ~(j < i)
    BY <1>1, <1>2, <1>3, <1>4, <2>1, <2>3
  <2> QED
    BY <2>2, <2>3
<1> QED
  BY <1>2, <1>4, <1>5, SeqEqual

(* A change of one queue's messages is a change of that queue's view.       *)
LEMMA ViewExcept ==
  ASSUME NEW s \in Seq(Queues), NEW i \in 1..Len(s), NEW q \in Queues, q.key = s[i].key
  PROVE  View([s EXCEPT ![i] = q]) = [View(s) EXCEPT ![i] = [key |-> q.key, msgs |-> q.msgs]]
<1> DEFINE t == [s EXCEPT ![i] = q]
<1>1. /\ t \in Seq(Queues) /\ Len(t) = Len(s)
      /\ \A j \in 1..Len(s) : t[j] = IF j = i THEN q ELSE s[j]
  BY ExceptSeq
<1> HIDE DEF t
<1>2. /\ View(t) = [j \in 1..Len(s) |-> [key |-> t[j].key, msgs |-> t[j].msgs]]
      /\ View(s) = [j \in 1..Len(s) |-> [key |-> s[j].key, msgs |-> s[j].msgs]]
  BY <1>1, LenProperties DEF View
<1>3. DOMAIN View(s) = 1..Len(s)
  BY <1>2
<1>4. ASSUME NEW j \in 1..Len(s)
      PROVE  View(t)[j] = IF j = i THEN [key |-> q.key, msgs |-> q.msgs] ELSE View(s)[j]
  BY <1>1, <1>2
<1>5. View(t) = [View(s) EXCEPT ![i] = [key |-> q.key, msgs |-> q.msgs]]
  BY <1>2, <1>3, <1>4
<1> QED
  BY <1>5 DEF t

(* The same for the queues of the driver.                                   *)
LEMMA QueuesExcept ==
  ASSUME TypeOK, NEW i \in 1..Len(msg_q), NEW q \in Queues, q.key = msg_q[i].key,
         msg_q' = [msg_q EXCEPT ![i] = q]
  PROVE  queues' = [queues EXCEPT ![i].msgs = q.msgs]
<1>1. queues' = [queues EXCEPT ![i] = [key |-> q.key, msgs |-> q.msgs]]
  BY ViewExcept DEF queues, TypeOK
<1>2. i \in DOMAIN queues /\ queues[i] = [key |-> q.key, msgs |-> msg_q[i].msgs]
  BY ViewProperties DEF queues, TypeOK
<1>3. [queues[i] EXCEPT !.msgs = q.msgs] = [key |-> q.key, msgs |-> q.msgs]
  BY <1>2
<1> QED
  BY <1>1, <1>2, <1>3

(***************************************************************************)
(* What a receive selects may leave its queue: it overtakes only messages  *)
(* of its type that the receiver's buffer cannot hold.                     *)
(***************************************************************************)
LEMMA SelectedMayLeave ==
  ASSUME NEW msgs \in Seq(Messages), NEW r \in ReadReq, NEW j \in Selected(msgs, r)
  PROVE  Abstract!MayLeave(msgs, j)
<1> SUFFICES ASSUME NEW h \in 1..(j - 1), msgs[h].type = msgs[j].type
             PROVE  msgs[h].size > msgs[j].size
  BY DEF Abstract!MayLeave
<1>1. DOMAIN msgs = 1..Len(msgs) /\ Len(msgs) \in Nat
  BY LenProperties
<1>2. j \in 1..Len(msgs)
  BY SelectedInQueue
<1>3. h \in 1..Len(msgs) /\ h < j
  BY <1>1, <1>2
<1>4. msgs[h] \in Messages /\ msgs[j] \in Messages
  BY <1>2, <1>3, ElementOfSeq
<1>5. /\ msgs[h].size \in Int /\ msgs[j].size \in Int
      /\ msgs[h].type \in Int /\ msgs[j].type \in Int
  BY <1>4, SizeIsInt, KuIpcAssumption DEF Messages
<1>6. r.size \in Int
  BY SizeIsInt
<1>7. j # 1
  BY <1>1, <1>2, <1>3
<1>8. CASE r.type > 0 /\ msgs[j].type = r.type
           /\ \A g \in 1..(j - 1) : ~(msgs[g].type = r.type /\ Fits(msgs[g], r))
  <2>1. ~Fits(msgs[h], r) /\ Fits(msgs[j], r)
    BY <1>8 DEF Selected
  <2> QED
    BY <1>5, <1>6, <2>1 DEF Fits
<1>9. CASE Smallest(msgs, -r.type, j)
  <2> DEFINE eligible == {g \in DOMAIN msgs : msgs[g].type <= -r.type}
  <2>1. eligible # {}
    BY <1>7, <1>9 DEF Smallest
  <2>2. /\ j \in eligible
        /\ \A g \in eligible : \/ msgs[j].type < msgs[g].type
                               \/ msgs[j].type = msgs[g].type /\ j <= g
    BY <1>9, <2>1 DEF Smallest
  <2>3. h \in eligible
    BY <1>1, <1>3, <2>2
  <2> QED
    BY <1>2, <1>3, <1>5, <2>2, <2>3
<1> QED
  BY <1>7, <1>8, <1>9 DEF Selected

(***************************************************************************)
(* The steps.                                                              *)
(***************************************************************************)
RefInv == BoundInv /\ QueueLimits

(* A thread in a critical section works while the service is open, and      *)
(* leaves it open.                                                          *)
LEMMA CsOpen ==
  ASSUME IInv, NEW p \in Procs, CriticalSection(p)
  PROVE  open /\ UNCHANGED open
<1>1. /\ call[p].at = "cs" /\ module # "unloaded" /\ UNCHANGED module
      /\ ku_lock' \in {ku_lock, Nobody}
  BY DEF CriticalSection, ku_ipc_read, ku_ipc_write, KU_CHECK, KU_CREAT, KU_CLOSE, KU_EMPTY,
         InCs, Unlock
<1>2. ku_lock # Rmmod
  BY <1>1, InCsProperties
<1> QED
  BY <1>1, <1>2, KuIpcAssumption DEF open

(* The first queue of a key is the one MsgQueues uses.                      *)
LEMMA FindUsed ==
  ASSUME TypeOK, NEW k, NEW i \in Find(k)
  PROVE  /\ i \in DOMAIN queues
         /\ queues[i].msgs = msg_q[i].msgs
         /\ Abstract!Used(i)
<1>1. /\ i \in 1..Len(msg_q) /\ msg_q[i].key = k
      /\ \A h \in 1..(i - 1) : msg_q[h].key # k
  BY FindInList DEF TypeOK
<1>2. /\ DOMAIN queues = 1..Len(msg_q)
      /\ \A h \in 1..Len(msg_q) : queues[h] = [key |-> msg_q[h].key, msgs |-> msg_q[h].msgs]
  BY ViewProperties DEF queues, TypeOK
<1>3. \A h \in 1..(i - 1) : queues[h].key # queues[i].key
  <2> TAKE h \in 1..(i - 1)
  <2>1. h \in 1..Len(msg_q)
    BY <1>1, LenProperties DEF TypeOK
  <2> QED
    BY <1>1, <1>2, <2>1
<1> QED
  BY <1>1, <1>2, <1>3 DEF Abstract!Used

LEMMA CreateStep ==
  ASSUME RefInv, NEW p \in Procs, KU_CREAT(p)
  PROVE  Abstract!Next
<1> DEFINE k == call[p].req.key
<1>1. call[p].at = "cs" /\ InKernel(p)
  BY InCsProperties DEF KU_CREAT, InCs, RefInv, BoundInv
<1>2. k \in Keys
  BY <1>1, RequestTypes DEF RefInv, BoundInv, IInv, TypeOK
<1>3. open /\ UNCHANGED open
  BY CsOpen DEF CriticalSection, RefInv, BoundInv
<1>4. Len(queues) < KUIPC_MAXVOL + Cardinality(Procs)
  <2>1. p \in Creators
    BY <1>1 DEF KU_CREAT, InCs, Creators
  <2>2. Cardinality(Creators) \in Nat /\ Cardinality(Creators) # 0
    BY <2>1, CreatorsFinite, FS_EmptySet
  <2>3. Len(queues) = Len(msg_q) /\ Len(msg_q) \in Nat
    BY ViewProperties, LenProperties DEF queues, RefInv, BoundInv, IInv, TypeOK
  <2> QED
    BY <2>2, <2>3, CreatorsFinite, KuIpcAssumption DEF RefInv, BoundInv, QueuesBound
<1>5. queues' = Append(queues, [key |-> k, msgs |-> <<>>])
  <2>1. NewQueue(k) \in Queues
    BY <1>2, NewQueueType
  <2>2. View(Append(msg_q, NewQueue(k))) =
          Append(View(msg_q), [key |-> NewQueue(k).key, msgs |-> NewQueue(k).msgs])
    BY <2>1, ViewAppend DEF RefInv, BoundInv, IInv, TypeOK
  <2>3. NewQueue(k).key = k /\ NewQueue(k).msgs = <<>>
    BY DEF NewQueue
  <2> QED
    BY <2>2, <2>3 DEF queues, KU_CREAT
<1>6. Abstract!Create(k)
  BY <1>3, <1>4, <1>5 DEF Abstract!Create
<1> QED
  BY <1>2, <1>6 DEF Abstract!Next

LEMMA DestroyStep ==
  ASSUME RefInv, NEW p \in Procs, KU_CLOSE(p)
  PROVE  Abstract!Next \/ UNCHANGED <<queues, open>>
<1>1. open /\ UNCHANGED open
  BY CsOpen DEF CriticalSection, RefInv, BoundInv
<1>2. CASE UNCHANGED msg_q
  BY <1>1, <1>2 DEF queues
<1>3. ASSUME NEW i \in Find(call[p].req.key), msg_q' = RemoveAt(msg_q, i)
      PROVE  Abstract!Next
  <2>1. i \in DOMAIN queues /\ Abstract!Used(i) /\ i \in 1..Len(msg_q)
    BY FindUsed, FindInList DEF RefInv, BoundInv, IInv, TypeOK
  <2>2. queues' = RemoveAt(queues, i)
    BY <1>3, <2>1, ViewRemoveAt DEF queues, RefInv, BoundInv, IInv, TypeOK
  <2>3. Abstract!Destroy(i)
    BY <1>1, <2>1, <2>2 DEF Abstract!Destroy, Abstract!RemoveAt, RemoveAt
  <2> QED
    BY <2>1, <2>3 DEF Abstract!Next
<1> QED
  BY <1>2, <1>3 DEF KU_CLOSE

LEMMA SendStep ==
  ASSUME RefInv, NEW p \in Procs, ku_ipc_write(p)
  PROVE  Abstract!Next \/ UNCHANGED <<queues, open>>
<1> DEFINE r == call[p].req
           m == [type |-> r.type, size |-> r.size, data |-> r.data, sent |-> ubuf[p][r.data]]
<1>1. open /\ UNCHANGED open
  BY CsOpen DEF CriticalSection, RefInv, BoundInv
<1>2. CASE UNCHANGED msg_q
  BY <1>1, <1>2 DEF queues
<1>3. m \in Messages
  <2>1. call[p].at = "cs" /\ InKernel(p) /\ r.op = "write"
    BY InCsProperties DEF ku_ipc_write, InCs, RefInv, BoundInv
  <2> QED
    BY <2>1, RequestTypes, SentMessageType DEF RefInv, BoundInv, IInv, TypeOK
<1>4. ASSUME NEW i \in Find(r.key), ~LacksSpace(msg_q[i], r),
             msg_q' = [msg_q EXCEPT ![i] = With(@, m)]
      PROVE  Abstract!Next
  <2>1. i \in DOMAIN queues /\ Abstract!Used(i) /\ queues[i].msgs = msg_q[i].msgs
    BY FindUsed DEF RefInv, BoundInv, IInv
  <2>2. i \in 1..Len(msg_q) /\ msg_q[i] \in Queues
    BY FindInList DEF RefInv, BoundInv, IInv, TypeOK
  <2>3. With(msg_q[i], m) \in Queues
    BY <1>3, <2>2, WithType
  <2>4. /\ With(msg_q[i], m).key = msg_q[i].key
        /\ With(msg_q[i], m).msgs = Append(msg_q[i].msgs, m)
    BY <2>2 DEF With, Queues
  <2>5. queues' = [queues EXCEPT ![i].msgs = Append(msg_q[i].msgs, m)]
    <3> DEFINE q == With(msg_q[i], m)
    <3>1. q \in Queues /\ q.key = msg_q[i].key /\ q.msgs = Append(msg_q[i].msgs, m)
      BY <2>3, <2>4
    <3>2. msg_q' = [msg_q EXCEPT ![i] = q]
      BY <1>4
    <3> HIDE DEF q
    <3>3. queues' = [queues EXCEPT ![i].msgs = q.msgs]
      BY <2>2, <3>1, <3>2, QueuesExcept DEF RefInv, BoundInv, IInv
    <3> QED
      BY <3>1, <3>3
  <2>6. Len(queues[i].msgs) < KUIPC_MAXMSG
    <3>1. WithinLimits(msg_q[i])
      BY <2>2, LenProperties DEF RefInv, QueueLimits, BoundInv, IInv, TypeOK
    <3>2. msg_q[i].count < KUIPC_MAXMSG
      BY <1>4, <2>2, KuIpcAssumption DEF LacksSpace, Queues
    <3> QED
      BY <2>1, <3>1, <3>2 DEF WithinLimits
  <2>7. Abstract!Send(i, m)
    BY <1>1, <2>1, <2>5, <2>6 DEF Abstract!Send
  <2> QED
    BY <1>3, <2>1, <2>7 DEF Abstract!Next
<1> QED
  BY <1>2, <1>4 DEF ku_ipc_write

LEMMA ReceiveStep ==
  ASSUME RefInv, NEW p \in Procs, ku_ipc_read(p)
  PROVE  Abstract!Next \/ UNCHANGED <<queues, open>>
<1> DEFINE r == call[p].req
<1>1. open /\ UNCHANGED open
  BY CsOpen DEF CriticalSection, RefInv, BoundInv
<1>2. CASE UNCHANGED msg_q
  BY <1>1, <1>2 DEF queues
<1>3. r \in ReadReq
  <2>1. call[p].at = "cs" /\ InKernel(p) /\ r.op = "read"
    BY InCsProperties DEF ku_ipc_read, InCs, RefInv, BoundInv
  <2> QED
    BY <2>1, RequestTypes DEF RefInv, BoundInv, IInv, TypeOK
<1>4. ASSUME NEW i \in Find(r.key), NEW j \in Selected(msg_q[i].msgs, r),
             msg_q' = [msg_q EXCEPT ![i] = Without(@, j)]
      PROVE  Abstract!Next
  <2>1. i \in DOMAIN queues /\ Abstract!Used(i) /\ queues[i].msgs = msg_q[i].msgs
    BY FindUsed DEF RefInv, BoundInv, IInv
  <2>2. i \in 1..Len(msg_q) /\ msg_q[i] \in Queues /\ msg_q[i].msgs \in Seq(Messages)
    BY FindInList DEF RefInv, BoundInv, IInv, TypeOK
  <2>3. j \in 1..Len(msg_q[i].msgs) /\ DOMAIN msg_q[i].msgs = 1..Len(msg_q[i].msgs)
    BY <2>2, SelectedInQueue, LenProperties
  <2>4. Without(msg_q[i], j) \in Queues
    BY <2>2, <2>3, WithoutType
  <2>5. /\ Without(msg_q[i], j).key = msg_q[i].key
        /\ Without(msg_q[i], j).msgs = RemoveAt(msg_q[i].msgs, j)
    BY <2>2 DEF Without, Queues
  <2>6. queues' = [queues EXCEPT ![i].msgs = RemoveAt(msg_q[i].msgs, j)]
    <3> DEFINE q == Without(msg_q[i], j)
    <3>1. q \in Queues /\ q.key = msg_q[i].key /\ q.msgs = RemoveAt(msg_q[i].msgs, j)
      BY <2>4, <2>5
    <3>2. msg_q' = [msg_q EXCEPT ![i] = q]
      BY <1>4
    <3> HIDE DEF q
    <3>3. queues' = [queues EXCEPT ![i].msgs = q.msgs]
      BY <2>2, <3>1, <3>2, QueuesExcept DEF RefInv, BoundInv, IInv
    <3> QED
      BY <3>1, <3>3
  <2>7. Abstract!MayLeave(msg_q[i].msgs, j)
    BY <1>3, <2>2, SelectedMayLeave
  <2>8. Abstract!Receive(i, j)
    BY <1>1, <2>1, <2>6, <2>7 DEF Abstract!Receive, Abstract!RemoveAt, RemoveAt
  <2> QED
    BY <2>1, <2>3, <2>8 DEF Abstract!Next
<1> QED
  BY <1>2, <1>4 DEF ku_ipc_read

LEMMA ExitStep ==
  ASSUME RefInv, ExitBegin \/ ExitDrain \/ ExitEnd
  PROVE  Abstract!Next \/ UNCHANGED <<queues, open>>
<1>1. CASE ExitBegin
  BY <1>1 DEF ExitBegin, queues, open
<1>2. CASE ExitDrain
  <2>1. open /\ open' = FALSE
    BY <1>2, KuIpcAssumption DEF ExitDrain, open
  <2>2. queues' = <<>>
    BY <1>2 DEF ExitDrain, queues, View
  <2> QED
    BY <2>1, <2>2 DEF Abstract!Next, Abstract!Stop
<1>3. CASE ExitEnd
  <2>1. UNCHANGED queues /\ open' = FALSE
    BY <1>3 DEF ExitEnd, queues, open
  <2>2. CASE open
    BY <2>1, <2>2 DEF Abstract!Next, Abstract!Stop
  <2>3. CASE ~open
    BY <2>1, <2>3 DEF open
  <2> QED
    BY <2>2, <2>3
<1> QED
  BY <1>1, <1>2, <1>3

THEOREM StepRefines ==
  RefInv /\ [Next]_vars => [Abstract!Next]_<<queues, open>>
<1> SUFFICES ASSUME RefInv, [Next]_vars
             PROVE  Abstract!Next \/ UNCHANGED <<queues, open>>
  OBVIOUS
<1>1. CASE UNCHANGED <<msg_q, ku_lock, module>>
  BY <1>1 DEF queues, open
<1>2. ASSUME NEW p \in Procs, Acquire(p) PROVE UNCHANGED <<queues, open>>
  BY <1>2, KuIpcAssumption DEF Acquire, queues, open
<1>3. ASSUME NEW p \in Procs, KU_CHECK(p) \/ KU_EMPTY(p) PROVE UNCHANGED <<queues, open>>
  <2>1. UNCHANGED open
    BY <1>3, CsOpen DEF CriticalSection, RefInv, BoundInv
  <2> QED
    BY <1>3, <2>1 DEF KU_CHECK, KU_EMPTY, queues
<1>4. ASSUME NEW p \in Procs, CriticalSection(p)
      PROVE  Abstract!Next \/ UNCHANGED <<queues, open>>
  BY <1>3, <1>4, CreateStep, DestroyStep, SendStep, ReceiveStep DEF CriticalSection
<1>5. CASE ExitBegin \/ ExitDrain \/ ExitEnd
  BY <1>5, ExitStep
<1> QED
  BY <1>1, <1>2, <1>4, <1>5 DEF Next, Step, vars, Call, CallUnloaded, Enter, Fault

(* For any number of threads and any bounds, the driver is an atomic list   *)
(* of bounded queues: at most KUIPC_MAXVOL and one for each thread of them, *)
(* KUIPC_MAXMSG messages in each, and order within a type but for smaller   *)
(* messages that overtake larger ones.                                      *)
THEOREM DriverImplementsMsgQueues == Spec => ImplementsMsgQueues
<1>1. Init => Abstract!Init
  BY KuIpcAssumption DEF Init, Abstract!Init, queues, View, open
<1>2. Spec => []RefInv
  <2>1. Spec => []BoundInv
    BY InitBoundInv, NextBoundInv, PTL DEF Spec
  <2> QED
    BY <2>1, LimitsHold, PTL DEF RefInv
<1> QED
  BY <1>1, <1>2, StepRefines, PTL DEF Spec, ImplementsMsgQueues, Abstract!Spec
=============================================================================
