------------------------------- MODULE KuIpc -------------------------------
(***************************************************************************)
(* The message-queue driver of as1/ku_ipc.c: a kernel module that keeps a  *)
(* list of message queues behind a character device.  User threads reach   *)
(* it through read (receive), write (send) and four ioctls.                *)
(*                                                                         *)
(* A call runs in up to three steps, because what it reads before taking   *)
(* ku_lock is stale by the time it holds the lock:                         *)
(*    "enter"  the code before spin_lock, with its early returns           *)
(*    "lock"   spinning on ku_lock                                         *)
(*    "cs"     the critical section, up to spin_unlock or a return         *)
(* A critical section is one step: only its holder writes the queues, and  *)
(* the unlocked code reads a single word of them (ku_ipc_volume, or        *)
(* whether the list is empty).                                             *)
(*                                                                         *)
(* A message carries the sender's POINTER (ku_ipc.c:230), which read hands *)
(* to copy_to_user in the receiver's context: it is resolved in the        *)
(* receiver's memory, ubuf[receiver].                                      *)
(***************************************************************************)
EXTENDS Integers, FiniteSets, SequencesExt

CONSTANTS
  Procs,          \* user threads that hold the device open
  Keys,           \* queue keys (ids)
  Types,          \* message types a sender uses
  RcvTypes,       \* type arguments a receiver uses: 0, positive or negative
  Sizes,          \* message and buffer sizes, which the driver does not check
  Flags,          \* flag words a caller passes, as sets of bit positions
  Addrs,          \* user-space addresses of message buffers
  Values,         \* contents of a message buffer
  MaxInt,         \* INT_MAX: sizes and their sums are C ints
  KUIPC_MAXMSG,   \* messages in a queue
  KUIPC_MAXVOL,   \* bytes in a queue, and also the bound on the number of queues
  Nobody,         \* ku_lock is free
  Rmmod           \* the thread that runs ku_ipc_exit

(* The values of an int, and the one that the low bits of x stand for (the  *)
(* kernel is built with -fno-strict-overflow: a sum wraps).                 *)
Ints == (-MaxInt - 1)..MaxInt
Wrap(x) == ((x + MaxInt + 1) % (2 * (MaxInt + 1))) - (MaxInt + 1)

ASSUME KuIpcAssumption ==
  /\ IsFiniteSet(Procs)
  /\ Nobody \notin Procs /\ Rmmod \notin Procs /\ Nobody # Rmmod
  /\ Keys \subseteq Nat
  /\ Types \subseteq Int
  /\ RcvTypes \subseteq Int
  /\ MaxInt \in Nat
  /\ Sizes \subseteq Ints
  /\ Flags \subseteq SUBSET (9..11)
  /\ KUIPC_MAXMSG \in Nat /\ KUIPC_MAXVOL \in 0..MaxInt

VARIABLES
  msg_q,          \* the list of queues
  ku_ipc_volume,  \* the number of queues, as the driver counts it
  ku_lock,        \* the holder of the spin lock, or Nobody
  module,         \* "loaded", "exiting" (rmmod waits for ku_lock), "drained"
                  \* (ku_ipc_exit has only cdev_del left), "unloaded"
  call,           \* call[p]: where p's system call is
  ubuf            \* ubuf[p][a]: the buffer at address a of p's memory

vars == <<msg_q, ku_ipc_volume, ku_lock, module, call, ubuf>>

-----------------------------------------------------------------------------
(* The octal flag words of ku_ipc.h, as sets of bits: 0001000 is bit 9,     *)
(* 0002000 bit 10, 0004000 bit 11, and 0005000 is bits 9 and 11.            *)
IPC_CREAT == {9}
IPC_EXCL == {10}
IPC_NOWAIT == {11}
MSG_NOERROR == {9, 11}

IoctlReq == [op: {"KU_CHECK", "KU_CREAT", "KU_CLOSE", "KU_EMPTY"}, key: Keys]
WriteReq == [op: {"write"}, key: Keys, type: Types, size: Sizes, data: Addrs]
ReadReq == [op: {"read"}, key: Keys, type: RcvTypes, size: Sizes, flag: Flags, data: Addrs]
Requests == IoctlReq \cup WriteReq \cup ReadReq

(* A KUMSG.  sent is history: the buffer's content when it was sent.        *)
Messages == [type: Types, size: Sizes, data: Addrs, sent: Values]

(* A QUEUE.  sane is history: every message that was ever put into it had   *)
(* a size the limits can be kept with (SaneSizes).                          *)
Queues == [key: Keys, size: Ints, count: Int, msgs: Seq(Messages), sane: BOOLEAN]

NewQueue(k) == [key |-> k, size |-> 0, count |-> 0, msgs |-> <<>>, sane |-> TRUE]

(* Neither negative nor so large that it wraps the sum of ku_ipc.c:221.     *)
SaneSizes == 0..(MaxInt - KUIPC_MAXVOL)

(* The queue a list walk for key k stops at: the first one, if there is any.*)
Find(k) == {i \in DOMAIN msg_q : /\ msg_q[i].key = k
                                 /\ \A h \in 1..(i-1) : msg_q[h].key # k}

-----------------------------------------------------------------------------
(* Which message a receive removes: its index, or none.                     *)

Fits(m, r) == m.size <= r.size \/ MSG_NOERROR \subseteq r.flag

(* Mutants of Smallest: <= instead of < in the scan, and no fallback.       *)
SmallestIsLast(msgs, bound, i) ==
  LET eligible == {h \in DOMAIN msgs : msgs[h].type <= bound}
  IN  i \in eligible /\ \A h \in eligible : \/ msgs[i].type < msgs[h].type
                                            \/ msgs[i].type = msgs[h].type /\ h <= i

SmallestWithinBound(msgs, bound, i) ==
  LET eligible == {h \in DOMAIN msgs : msgs[h].type <= bound}
  IN  i \in eligible /\ \A h \in eligible : \/ msgs[i].type < msgs[h].type
                                            \/ msgs[i].type = msgs[h].type /\ i <= h

(* The node "having smallest type value": the scan starts from the first    *)
(* node whatever its type, and moves to a smaller type only within |type|.  *)
Smallest(msgs, bound, i) ==
  LET eligible == {h \in DOMAIN msgs : msgs[h].type <= bound}
  IN  IF eligible = {} THEN i = 1
      ELSE /\ i \in eligible
           /\ \A h \in eligible : \/ msgs[i].type < msgs[h].type
                                  \/ msgs[i].type = msgs[h].type /\ i <= h

Selected(msgs, r) ==
  {i \in DOMAIN msgs :
     /\ Fits(msgs[i], r)
     /\ \/ r.type = 0 /\ i = 1
        \/ /\ r.type > 0
           /\ msgs[i].type = r.type
           /\ \A h \in 1..(i-1) : ~(msgs[h].type = r.type /\ Fits(msgs[h], r))
        \/ r.type < 0 /\ Smallest(msgs, -r.type, i)}

(* A mutant of Without: the size of the head goes, whatever message does.   *)
WithoutHeadSize(q, i) == [q EXCEPT !.size = Wrap(@ - q.msgs[1].size),
                                   !.count = @ - 1,
                                   !.msgs = RemoveAt(@, i)]

(* The queue after list_del of message i, with its counters brought down.   *)
Without(q, i) == [q EXCEPT !.size = Wrap(@ - q.msgs[i].size),
                           !.count = @ - 1,
                           !.msgs = RemoveAt(@, i)]

(* The queue after list_add_tail of message m.                              *)
With(q, m) == [q EXCEPT !.size = Wrap(@ + m.size),
                        !.count = @ + 1,
                        !.msgs = Append(@, m),
                        !.sane = @ /\ m.size \in SaneSizes]

(* A mutant of LacksSpace: the test of the size is off by one.              *)
LacksSpaceOffByOne(q, r) == \/ Wrap(q.size + r.size) > KUIPC_MAXVOL
                            \/ q.count >= KUIPC_MAXMSG

LacksSpace(q, r) == Wrap(q.size + r.size) >= KUIPC_MAXVOL \/ q.count >= KUIPC_MAXMSG

-----------------------------------------------------------------------------
Init ==
  /\ msg_q = <<>>
  /\ ku_ipc_volume = 0
  /\ ku_lock = Nobody
  /\ module = "loaded"
  /\ call = [p \in Procs |-> [at |-> "user", ret |-> 0]]
  /\ ubuf \in [Procs -> [Addrs -> Values]]

InKernel(p) == call[p].at \in {"enter", "lock", "cs"}

Return(p, value) == call' = [call EXCEPT ![p] = [at |-> "user", ret |-> value]]
GoTo(p, label) == call' = [call EXCEPT ![p] = [at |-> label, req |-> call[p].req]]
Oops(p) == call' = [call EXCEPT ![p] = [at |-> "oops"]]

Unlock == ku_lock' = Nobody

(* A thread enters the kernel.  Before a send the program fills the buffer  *)
(* it passes.  The device is not tied to its module (ku_ipc_fops names no   *)
(* owner), so calls still come in while rmmod waits in ku_ipc_exit.         *)
Call(p, r) ==
  /\ module # "unloaded"
  /\ call[p].at = "user"
  /\ call' = [call EXCEPT ![p] = [at |-> "enter", req |-> r]]
  /\ IF r.op = "write"
     THEN \E v \in Values : ubuf' = [ubuf EXCEPT ![p][r.data] = v]
     ELSE UNCHANGED ubuf
  /\ UNCHANGED <<msg_q, ku_ipc_volume, ku_lock, module>>

(* A call on a descriptor that is still open when the code is gone.         *)
CallUnloaded(p) ==
  /\ module = "unloaded"
  /\ call[p].at = "user"
  /\ Oops(p)
  /\ UNCHANGED <<msg_q, ku_ipc_volume, ku_lock, module, ubuf>>

(* A mutant of MustLock: KU_CREAT does not look at the volume.              *)
MustLockUnbounded(r) ==
  CASE r.op = "KU_CHECK" -> msg_q # <<>>
    [] r.op = "KU_CLOSE" -> ku_ipc_volume > 0
    [] OTHER -> TRUE

(* The unlocked test in front of spin_lock.                                 *)
MustLock(r) ==
  CASE r.op = "KU_CHECK" -> msg_q # <<>>
    [] r.op = "KU_CREAT" -> ku_ipc_volume <= KUIPC_MAXVOL
    [] r.op = "KU_CLOSE" -> ku_ipc_volume > 0
    [] OTHER -> TRUE

(* The code before spin_lock.  copy_from_user of a write may fault.         *)
Enter(p) ==
  /\ module # "unloaded"
  /\ call[p].at = "enter"
  /\ LET r == call[p].req
     IN  \/ MustLock(r) /\ GoTo(p, "lock")
         \/ ~MustLock(r) /\ Return(p, IF r.op = "KU_CHECK" THEN 0 ELSE -1)
         \/ r.op = "write" /\ Return(p, -1)
  /\ UNCHANGED <<msg_q, ku_ipc_volume, ku_lock, module, ubuf>>

(* A mutant of Acquire: the thread does not wait for the lock.              *)
AcquireUnguarded(p) ==
  /\ module # "unloaded"
  /\ call[p].at = "lock"
  /\ ku_lock' = p
  /\ GoTo(p, "cs")
  /\ UNCHANGED <<msg_q, ku_ipc_volume, module, ubuf>>

(* spin_lock(&ku_lock) succeeds.                                            *)
Acquire(p) ==
  /\ module # "unloaded"
  /\ call[p].at = "lock"
  /\ ku_lock = Nobody
  /\ ku_lock' = p
  /\ GoTo(p, "cs")
  /\ UNCHANGED <<msg_q, ku_ipc_volume, module, ubuf>>

InCs(p, op) ==
  /\ module # "unloaded"
  /\ call[p].at = "cs"
  /\ call[p].req.op = op

-----------------------------------------------------------------------------
(* The critical sections.                                                   *)

(* What copy_to_user of r.size bytes leaves in p's memory.                  *)
Copied(p, r, m) ==
  IF r.size = 0 THEN ubuf ELSE [ubuf EXCEPT ![p][r.data] = ubuf[p][m.data]]

(* A receive removes the selected message of the first queue with the key   *)
(* and returns the size of the caller's buffer; it returns -1 when no queue *)
(* has the key, no message is selected or copy_to_user faults, which it     *)
(* always does for a negative size (a huge unsigned length).                *)
ku_ipc_read(p) ==
  LET r == call[p].req
  IN  /\ InCs(p, "read")
      /\ \/ \E i \in Find(r.key) : \E j \in Selected(msg_q[i].msgs, r) :
              /\ r.size >= 0
              /\ msg_q' = [msg_q EXCEPT ![i] = Without(@, j)]
              /\ ubuf' = Copied(p, r, msg_q[i].msgs[j])
              /\ Return(p, r.size)
         \/ Return(p, -1) /\ UNCHANGED <<msg_q, ubuf>>
      /\ Unlock
      /\ UNCHANGED <<ku_ipc_volume, module>>

(* A mutant of ku_ipc_write: it waits for space inside the kernel.          *)
ku_ipc_write_waits(p) ==
  LET r == call[p].req
      m == [type |-> r.type, size |-> r.size, data |-> r.data, sent |-> ubuf[p][r.data]]
  IN  /\ InCs(p, "write")
      /\ \/ \E i \in Find(r.key) : LacksSpace(msg_q[i], r) /\ GoTo(p, "lock") /\ UNCHANGED msg_q
         \/ \E i \in Find(r.key) :
              /\ ~LacksSpace(msg_q[i], r)
              /\ msg_q' = [msg_q EXCEPT ![i] = With(@, m)]
              /\ Return(p, 0)
         \/ Find(r.key) = {} /\ Oops(p) /\ UNCHANGED msg_q
      /\ Unlock
      /\ UNCHANGED <<ku_ipc_volume, module, ubuf>>

(* A send.  The lack-of-space return leaves ku_lock held (ku_ipc.c:224).    *)
(* With no queue of that key the printk after the unlock dereferences the   *)
(* NULL msg (ku_ipc.c:245): the thread dies.                                *)
ku_ipc_write(p) ==
  LET r == call[p].req
      m == [type |-> r.type, size |-> r.size, data |-> r.data, sent |-> ubuf[p][r.data]]
  IN  /\ InCs(p, "write")
      /\ \/ \E i \in Find(r.key) :
              /\ LacksSpace(msg_q[i], r)
              /\ Return(p, -2)
              /\ UNCHANGED <<msg_q, ku_lock>>
         \/ \E i \in Find(r.key) :
              /\ ~LacksSpace(msg_q[i], r)
              /\ msg_q' = [msg_q EXCEPT ![i] = With(@, m)]
              /\ Unlock
              /\ Return(p, 0)
         \/ Find(r.key) = {} /\ Unlock /\ Oops(p) /\ UNCHANGED msg_q
      /\ UNCHANGED <<ku_ipc_volume, module, ubuf>>

(* A mutant of KU_CHECK: it overlooks the queue it finds.                   *)
KU_CHECK_blind(p) ==
  /\ InCs(p, "KU_CHECK")
  /\ Return(p, 0)
  /\ Unlock
  /\ UNCHANGED <<msg_q, ku_ipc_volume, module, ubuf>>

KU_CHECK(p) ==
  /\ InCs(p, "KU_CHECK")
  /\ Return(p, IF Find(call[p].req.key) # {} THEN -1 ELSE 0)
  /\ Unlock
  /\ UNCHANGED <<msg_q, ku_ipc_volume, module, ubuf>>

KU_CREAT(p) ==
  LET k == call[p].req.key
  IN  /\ InCs(p, "KU_CREAT")
      /\ msg_q' = Append(msg_q, NewQueue(k))
      /\ ku_ipc_volume' = ku_ipc_volume + 1
      /\ Unlock
      /\ Return(p, k)
      /\ UNCHANGED <<module, ubuf>>

(* A mutant of KU_CLOSE: a close that finds no queue counts one, too.       *)
KU_CLOSE_counts_misses(p) ==
  /\ InCs(p, "KU_CLOSE")
  /\ msg_q' = IF Find(call[p].req.key) = {} THEN msg_q
              ELSE RemoveAt(msg_q, CHOOSE i \in Find(call[p].req.key) : TRUE)
  /\ ku_ipc_volume' = ku_ipc_volume - 1
  /\ Return(p, 0)
  /\ Unlock
  /\ UNCHANGED <<module, ubuf>>

KU_CLOSE(p) ==
  LET k == call[p].req.key
  IN  /\ InCs(p, "KU_CLOSE")
      /\ \/ \E i \in Find(k) : /\ msg_q' = RemoveAt(msg_q, i)
                               /\ ku_ipc_volume' = ku_ipc_volume - 1
                               /\ Return(p, 0)
         \/ Find(k) = {} /\ Return(p, -1) /\ UNCHANGED <<msg_q, ku_ipc_volume>>
      /\ Unlock
      /\ UNCHANGED <<module, ubuf>>

KU_EMPTY(p) ==
  LET k == call[p].req.key
  IN  /\ InCs(p, "KU_EMPTY")
      /\ Return(p, IF \E i \in Find(k) : msg_q[i].count = 0 THEN 0 ELSE -1)
      /\ Unlock
      /\ UNCHANGED <<msg_q, ku_ipc_volume, module, ubuf>>

CriticalSection(p) ==
  \/ ku_ipc_read(p) \/ ku_ipc_write(p)
  \/ KU_CHECK(p) \/ KU_CREAT(p) \/ KU_CLOSE(p) \/ KU_EMPTY(p)

-----------------------------------------------------------------------------
(* ku_ipc_exit drains the list under the lock, which it takes only when     *)
(* there are queues and never releases; then the device goes and the code.  *)
ExitBegin ==
  /\ module = "loaded"
  /\ module' = IF ku_ipc_volume > 0 THEN "exiting" ELSE "drained"
  /\ UNCHANGED <<msg_q, ku_ipc_volume, ku_lock, call, ubuf>>

(* Mutants of ExitDrain: it drains without the lock, it releases the lock,  *)
(* or it waits until the clients have emptied the queues.                   *)
ExitDrainUnlocked ==
  /\ module = "exiting"
  /\ msg_q' = <<>>
  /\ module' = "drained"
  /\ UNCHANGED <<ku_ipc_volume, ku_lock, call, ubuf>>

ExitDrainReleases ==
  /\ module = "exiting"
  /\ ku_lock = Nobody
  /\ msg_q' = <<>>
  /\ module' = "drained"
  /\ UNCHANGED <<ku_ipc_volume, ku_lock, call, ubuf>>

ExitDrainWaits ==
  /\ module = "exiting"
  /\ ku_lock = Nobody
  /\ \A i \in DOMAIN msg_q : msg_q[i].msgs = <<>>
  /\ ku_lock' = Rmmod
  /\ msg_q' = <<>>
  /\ module' = "drained"
  /\ UNCHANGED <<ku_ipc_volume, call, ubuf>>

ExitDrain ==
  /\ module = "exiting"
  /\ ku_lock = Nobody
  /\ ku_lock' = Rmmod
  /\ msg_q' = <<>>
  /\ module' = "drained"
  /\ UNCHANGED <<ku_ipc_volume, call, ubuf>>

ExitEnd ==
  /\ module = "drained"
  /\ module' = "unloaded"
  /\ UNCHANGED <<msg_q, ku_ipc_volume, ku_lock, call, ubuf>>

(* A call that was inside the driver when its code was unloaded.            *)
Fault(p) ==
  /\ module = "unloaded"
  /\ InKernel(p)
  /\ Oops(p)
  /\ UNCHANGED <<msg_q, ku_ipc_volume, ku_lock, module, ubuf>>

Step(p) == Enter(p) \/ Acquire(p) \/ CriticalSection(p) \/ Fault(p)

Next ==
  \/ \E p \in Procs : \/ \E r \in Requests : Call(p, r)
                     \/ CallUnloaded(p)
                     \/ Step(p)
  \/ ExitBegin
  \/ ExitDrain
  \/ ExitEnd

(* Kernel code keeps running, and the ARM ticket spin lock serves its       *)
(* waiters in order; nothing makes a program issue a call or unload.        *)
Fairness ==
  /\ SF_vars(ExitDrain) /\ WF_vars(ExitEnd)
  /\ \A p \in Procs : /\ WF_vars(Enter(p))
                      /\ SF_vars(Acquire(p))
                      /\ WF_vars(CriticalSection(p))
                      /\ WF_vars(Fault(p))

Spec == Init /\ [][Next]_vars /\ Fairness

-----------------------------------------------------------------------------
Calls == [at: {"user"}, ret: Int]
         \cup [at: {"enter", "lock", "cs"}, req: Requests]
         \cup [at: {"oops"}]

(* The variables keep their types; in particular the queue counter never    *)
(* goes below zero, whatever calls close queues at the same time.           *)
TypeOK ==
  /\ msg_q \in Seq(Queues)
  /\ ku_ipc_volume \in Nat
  /\ ku_lock \in Procs \cup {Nobody, Rmmod}
  /\ module \in {"loaded", "exiting", "drained", "unloaded"}
  /\ call \in [Procs -> Calls]
  /\ ubuf \in [Procs -> [Addrs -> Values]]

(* Mutual exclusion: a thread that runs a critical section holds ku_lock.   *)
LockOwner == \A p \in Procs : call[p].at = "cs" => ku_lock = p

(* Threads past the unlocked test of KU_CREAT, which will add a queue       *)
(* however many there are by then.                                          *)
Creators == {p \in Procs : call[p].at \in {"lock", "cs"} /\ call[p].req.op = "KU_CREAT"}

VolumeExact == ku_lock # Rmmod => ku_ipc_volume = Len(msg_q)
QueuesBound == Len(msg_q) + Cardinality(Creators) <= KUIPC_MAXVOL + Cardinality(Procs)

(* Until ku_ipc_exit drains the list, ku_ipc_volume is the number of        *)
(* queues; and KU_CREAT's unlocked test (ku_ipc.c:280) bounds that number   *)
(* by KUIPC_MAXVOL plus one for each thread, not by KUIPC_MAXVOL.           *)
VolumeBound == VolumeExact /\ QueuesBound

SumSizes(msgs) == FoldLeft(LAMBDA sum, m : sum + m.size, 0, msgs)

WithinLimits(q) == /\ q.count = Len(q.msgs)
                   /\ q.count <= KUIPC_MAXMSG
                   /\ q.msgs # <<>> /\ q.sane => q.size < KUIPC_MAXVOL

(* A queue's count is the length of its list, which never exceeds           *)
(* KUIPC_MAXMSG, whatever sizes are sent.  Its size stays below             *)
(* KUIPC_MAXVOL (the test of ku_ipc.c:223 is >=) as long as every size sent *)
(* to it is sane: the driver checks none, and after a message of size -100  *)
(* is filled up to and then received, the size is KUIPC_MAXVOL + 99.        *)
QueueLimits == \A i \in DOMAIN msg_q : WithinLimits(msg_q[i])

(* A queue's size is the number of bytes in it, as far as an int can tell,  *)
(* after any mix of sends (of any size), receives that skip messages, and   *)
(* receives into buffers of another size than the message.                  *)
QueueBytes == \A i \in DOMAIN msg_q : msg_q[i].size = Wrap(SumSizes(msg_q[i].msgs))

(* ku_lock belongs to a thread that has left the driver (ku_ipc.c:224).     *)
Wedged == ku_lock \in Procs /\ call[ku_lock].at # "cs"

(* Once a sender has left with ku_lock held, nothing gets it back: no queue *)
(* changes again, no thread enters a critical section, and an rmmod that    *)
(* has not passed its volume test never finishes.                           *)
WedgeIsForever ==
  [][Wedged => /\ UNCHANGED <<msg_q, ku_ipc_volume, ku_lock>>
               /\ Wedged'
               /\ module \in {"loaded", "exiting"} =>
                    module' \in {"loaded", "exiting"}]_vars

(* The queues a client sees: what MsgQueues promises of them, as atomic     *)
(* steps, is what the locked driver does.                                   *)
View(q) == [i \in DOMAIN q |-> [key |-> q[i].key, msgs |-> q[i].msgs]]
queues == View(msg_q)
open == ku_lock # Rmmod /\ module # "unloaded"

Abstract == INSTANCE MsgQueues WITH
  MaxQueues <- KUIPC_MAXVOL + Cardinality(Procs),
  MaxMsgs <- KUIPC_MAXMSG

(* Every step of the driver is one atomic operation of MsgQueues, or none.  *)
ImplementsMsgQueues == Abstract!Spec

Receives(p) == /\ call[p].at = "cs" /\ call[p].req.op = "read"
               /\ call'[p].at = "user" /\ call'[p].ret # -1

(* "read = receive, write = send" (ku_ipc.h:46-48): a receive that succeeds *)
(* delivers the content that was sent with the message it removes.  The     *)
(* code breaks this: it keeps the sender's pointer (ku_ipc.c:230).          *)
DeliversWhatWasSent ==
  [][\A p \in Procs : Receives(p) =>
       LET r == call[p].req
       IN  \E i \in Find(r.key) : \E j \in DOMAIN msg_q[i].msgs :
             /\ msg_q' = [msg_q EXCEPT ![i] = Without(@, j)]
             /\ ubuf'[p][r.data] = msg_q[i].msgs[j].sent]_vars

(* A call that entered the kernel leaves it (it returns, or its thread is   *)
(* killed when the code is unloaded under it), unless a lost ku_lock keeps  *)
(* it spinning.                                                             *)
CallsReturn == \A p \in Procs : InKernel(p) ~> ~InKernel(p) \/ Wedged

(* rmmod ends, unless a lost ku_lock keeps it spinning.                     *)
UnloadEnds == module = "exiting" ~> module = "unloaded" \/ Wedged
=============================================================================
