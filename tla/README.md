# Verification of the embedded-system drivers

This directory holds TLA+ models of the Linux kernel modules in this repository, the TLC
configurations that check them on small instances, and TLAPS proofs of their main properties for
every value of the constants. The code is the reference: every definition was translated from the
lines `PROJECT.json` gives for it under `map`.

## 1. Inventory

The repository is a set of kernel modules for a Raspberry Pi (Linux 4.x, ARM, SMP), written for a
course, with the user-space programs that drive them. They share no code; each is a system of its
own: a kernel module, the threads that call it, and in some the interrupts and timers it answers to.

| Component | State | Operations | How it interacts |
|---|---|---|---|
| **as1 message-queue driver** (`as1/ku_ipc.c`) | list of queues `msg_q` (key, bytes, count, messages), counter `ku_ipc_volume`, spin lock `ku_lock` | read, write, ioctl `KU_CHECK`, `KU_CREAT`, `KU_CLOSE`, `KU_EMPTY`, module init and exit | system calls of any number of threads; shared list under one spin lock; exit runs against calls in flight |
| **as1 library** (`as1/ku_ipc_lib.c`) | none between calls | `ku_msgget`, `ku_msgclose`, `ku_msgsnd`, `ku_msgrcv` | each is one to many system calls; a blocking receive polls |
| **as2 motion-sensor driver** (`as2/ku_pir.c`) | per descriptor: in-use flag `fd_list`, list `ku_list`, counter `ku_pir_volume`; wait queue; interrupt depth | open/release (enable/disable the interrupt), read (blocking), write, ioctl `KU_OPEN`, `KU_CLOSE`, `KU_FLUSH`, `KU_PRINT`, interrupt handler, init and exit | the handler appends to every open descriptor's list and wakes readers; no locks |
| **as2 library** (`as2/ku_pir_lib.c`) | none | open, close, read, flush, insert, print | opens and closes the device around each call |
| **Blocking I/O** (`week7/simple_block.c`, `week7/ch4/simple_block_ch4.c`) | `my_data`, lock, wait queue | read waits for data (ch4: with a timeout) and takes one, write adds one and wakes | several readers and writers; the wait tests without the lock |
| **Spin-locked buffer** (`week4/multi/simple_spin.c`) | one message of two fields, lock | read copies it out and clears it, write copies one in | several threads; copies that fault; init and exit without the lock |
| **RCU list** (`week8/simple_rcu.c`) | list, spin lock, RCU | two reading calls, one that inserts; init fills the list, exit empties it | readers against writers that take no lock, and against exit |
| **Timers** (`week5/timer`, `ch2`) | a timer that its function adds again; three LEDs | the function, init, exit | exit races the function |
| **Sensor interrupts** (`week6/simple_sensor.c`, `ch3/c3_mod.c`) | interrupt depth; in ch3 `is_detect`, `light_status`, a lamp | open/release enable and disable the interrupt; handler; timer | handler and timer function share two flags and the lamp |
| **Deferred work** (`week9/*`) | tasklet; work queue; kernel threads; LEDs | the interrupt handler schedules, init sets up, exit tears down | order of setup and teardown |
| **Humidity sensor** (`week10/dht11`) | five data bytes, two counters | `dht11_read` times the sensor's pulses | a noisy line, and interrupts that hold the loop up |
| **Stepping motor** (`week11/stepping_motor.c`, `week11/temp`) | coils that are on | init moves to and fro through a table of half steps | the four pins are set one after another |
| **Shared counter** (`ch1`) | `global_value`, exported by one module and read by another | increment, read | no lock; one module needs the other |

Hard behaviours, each listed at its line under `hazards` in `PROJECT.json`:

* *as1*: what a call tests before it takes `ku_lock` is stale when it holds it (the volume tests of
  `KU_CREAT`, `KU_CLOSE` and of the exit function, the empty test of `KU_CHECK`); one return path
  keeps the lock; check-then-create and poll-then-read are separate system calls; a message holds a
  pointer into the sender's memory; receives skip messages; sizes are unchecked; rmmod is not held off
  by open files.
* *as2*: everything is shared between threads and an interrupt handler without a lock, and both append to
  the lists; blocking reads; a freed entry may still be read; enabling and disabling the interrupt is
  counted but the opens are not; the device answers, and the interrupt comes, before init has ended.
* *the exercises*: tests outside a lock; a device that answers before its init has ended and while its
  exit runs; lost insertions; a timer that is added again while it is being deleted; setup and teardown
  in the wrong order; two flags shared by a handler and a timer; a timeout that races a wake-up; copies
  that fail unnoticed; a loop with one turn too many, which reads its line twice a turn.

What makes each correct: *as1* - the service its clients see is a list of queues changed by atomic
operations, in bounds, calls end. *as2* - the lists stay lists, the counters follow them, a reader
gets entries in order and is woken, no interrupt is handled when the device is closed. *Exercises* -
what is read was written, once; the list stays a list; a waiting reader is woken; nothing runs after
its module is gone, and no pin is used that was given back; each of these often only under a condition,
and then the condition is part of the property.

## 2. Plan

Most important first; all of these modules exist.

1. `KuIpc`: the as1 driver. Runs `ipc_driver`, `ipc_queue`.
2. `MsgQueues`: the atomic service it implements.
3. `KuIpcScan`: the loop of `ku_ipc_read` against its specification.
4. `KuIpcLib`: the library on the driver. Run `ipc_lib`.
5. `KuIpcProofs`: types, mutual exclusion, volume, limits, bytes, the scan, the lost lock.
6. In the same module: the driver implements `MsgQueues`.
7. `KuPir`: the as2 driver and its library. Runs `pir_queue`, `pir_gate`, `pir_read`.
8. `SimpleBlock` (`week7`), `SimpleSpin` (`week4/multi`), `SimpleRcu` (`week8`), `DeferredWork`
   (`week5`, `ch2`, `ch3`, `week6`, `week9`), `Dht11` (`week10`), `StepMotor` (`week11`), `SharedCounter`
   (`ch1`): the exercises. Run `exercises`.
9. `Induction` (over natural numbers, as sets, and from it that a fold has its stages, and a recursive
   function on numbers its values), `KuIpcLibProofs`: the library implements the driver, and
   `DuplicateBound`.
10. `KuPirProofs`: the types of as2, its interrupt gate, its wake-ups. `KuPirLists`: its lists, and the
    order of what is read.
11. `SimpleRcuProofs` (the three properties of the list), `ExerciseProofs` (`BlockDebt`,
    `BlockSleepersWoken`, `SpinWhole`, `SpinReadOnce`, `DhtInBounds`, `DhtShowsSent`, `CounterExact`,
    `MotorInStep`), `DeferredWorkProofs` (`NothingOutlives`, `LedsHeld`, `LampOut`, `LampAgrees`,
    `SensorGate`).

What stays with TLC: liveness and the fairness it rests on (`CallsReturn`, `UnloadEnds`, `PollEnds`,
`NowaitReturns`, `ReadEnds`, `BlockReadReturns`, `ExitEnds`), which is out of the prover's reach;
and `ExercisesTypeOK`, which only conjoins the types of the exercises for their common run.

## 3. The as1 message-queue driver

### How the model corresponds to the code

`KuIpc` has the driver's own variables (`msg_q`, `ku_ipc_volume`, `ku_lock`) plus `call[p]` (where
thread *p*'s system call is), `module` (how far rmmod is) and `ubuf` (user memory, one map from
addresses to contents for each thread's address space). A system call goes through up to three steps:

| `call[p].at` | Code | Action |
|---|---|---|
| `user` | in the program | `Call` (or `CallUnloaded`, when the code is gone) |
| `enter` | before `spin_lock`: tests without the lock, `copy_from_user`, early returns | `Enter` |
| `lock` | spinning in `spin_lock(&ku_lock)` | `Acquire` |
| `cs` | the critical section, its returns included | `ku_ipc_read`, `ku_ipc_write`, `KU_CHECK`, `KU_CREAT`, `KU_CLOSE`, `KU_EMPTY` |
| `oops` | killed in the kernel | - |

A critical section is one step. That is sound because only the lock's holder writes the list, and the
code that runs without the lock reads a single word of it: `ku_ipc_volume`, or the head's `next`.
`ku_ipc_exit` is `ExitBegin` (the volume test), `ExitDrain` (lock and free the list; the lock is
never released) and `ExitEnd` (the device and the code go). `ku_ipc_fops` names no owner, so the
kernel does not hold rmmod off while files are open, and calls run through all of it.

Three things the code does that the model keeps exactly: the lack-of-space return of
`ku_ipc_write` leaves `ku_lock` held (`ku_ipc.c:224`); a write that finds no queue dereferences a
NULL pointer after it has unlocked (`:245`), which kills its thread; and a message holds the sender's
pointer (`:230`), resolved in the receiver's memory.

A size is any C int: the driver checks none, and the sum of line 221 wraps (the kernel is built with
`-fno-strict-overflow`). `MaxInt` is `INT_MAX`, `Wrap` what an int keeps of a sum. So a queue takes a
message of a negative size, and one of a size near `INT_MAX` once its own size is large enough for the
sum to wrap. A receive into a buffer of a negative size fails, as `copy_to_user` of a huge unsigned length
faults. The history `sane` of a queue says whether every message that was put into it had a size in
`SaneSizes`, which is 0 to `INT_MAX - KUIPC_MAXVOL`: for these the limit on bytes can be kept.

`Selected` says which message a receive removes. `KuIpcScan` is the loop node by node, and
`ScanAgrees` compares the two. For a negative type argument the loop falls back to the head when no
type is within |type|, because `min` starts there.

`KuIpcLib` runs the library over the same actions: a step of the library is the code from the return
of one system call to the next one. `Status` is the C library: a negative result of a driver is -1
to the program. So the retry of a blocking send (`ku_ipc_lib.c:91-93`), which waits for -2, is dead
code, in the model too.

`MsgQueues` is what a client may rely on: create, destroy, send, receive and stop as atomic
operations on a list of queues, without lock, counters or calls in progress. A receive takes a
message that no smaller-or-equal message of its type precedes.

Assumptions: memory is never exhausted; the calls of a program pass an accessible address (the
destination of `copy_to_user` may fault, `*buf` itself does not); a type argument is not `LONG_MIN`,
whose negation (`:136`) is no long; buffer addresses are valid in every process (what they hold
differs); `kfree` of the interior pointer `&msg->data` (`:324`, `:430`) is taken to do nothing; a copy
copies the whole buffer or fails. A device descriptor is opened once for each thread: open and release
keep no state. `ku_msgget` with both flags set behaves as with `IPC_EXCL`, and does not close its
descriptor (`ku_ipc_lib.c:41`), which changes no state modelled here.

### What the runs check

| Run | Instance | Checks |
|---|---|---|
| `ipc_driver` | 2 threads, 1 key, at most 1 message in a queue, `KUIPC_MAXVOL` 2 | `TypeOK`, `LockOwner`, `VolumeBound`, `WedgeIsForever`, `ImplementsMsgQueues`, `CallsReturn`, `UnloadEnds` |
| `ipc_queue` | 1 thread, 1 key, 2 types, the sizes -2, 1 and 4 with `MaxInt` 4, the type arguments 0, 1 and -1, with and without `MSG_NOERROR`, 3 messages | `QueueLimits`, `QueueBytes`, `ScanAgrees`, `ImplementsMsgQueues` |
| `ipc_lib` | 2 threads in the library, `IPC_CREAT` and `IPC_EXCL`, blocking and not | `DuplicateBound`, `PollEnds`, `NowaitReturns` |
| `ipc_lock_leak` | as `ipc_lib` | violates `FullQueueIsAnError` |
| `ipc_duplicate_keys` | as `ipc_lib` | violates `NoDuplicateKeys` |
| `ipc_payload` | as `ipc_driver`, two contents | violates `DeliversWhatWasSent` |

What they show. The unlocked tests do not corrupt the counter: a close that was overtaken finds no
queue and leaves the counter alone (`TypeOK`), and the counter is the length of the list until exit
drains it (`VolumeExact`). But they do let the list grow past its limit: each thread past the test of
`:280` may add one queue, so the bound is `KUIPC_MAXVOL` plus the number of threads (`QueuesBound`;
one more than `KUIPC_MAXVOL` even for a single thread, as the test is `<=`). Once a sender has met a
full queue, nothing moves any more (`WedgeIsForever`); that is the only way a call fails to return
(`CallsReturn`) and one that keeps rmmod from ending (`UnloadEnds`). No queue has more than
`KUIPC_MAXMSG` messages, and `size` is always the wrapped sum of theirs (`QueueBytes`). But `QueueLimits`
bounds the bytes only of a queue that got sane sizes: send one message of size -100, fill the queue to
8191 and receive the first, and its size is 8291, past `KUIPC_MAXVOL`. No text of the driver says what sizes
a program may pass, so this is a condition of the property and not a finding. Two threads may create one key
twice, but never more queues of a key exist than threads (`DuplicateBound`). A blocking receive does
not poll for ever on a queue that holds a message (`PollEnds`), and a non-blocking one always returns
(`NowaitReturns`).

Bounds. Two threads are enough for every race here: each unlocked test is overtaken by one other
thread. One key suffices because calls on different keys touch different queues and share only the
list and the counter; two queues of one key occur (through the create race). `KUIPC_MAXVOL` 2 lets
the list reach its limit and exceed it. In `ipc_queue`, three messages of two types and three sizes
give every order in which a scan can prefer, skip or fall back. With `KUIPC_MAXVOL` 3 and `KUIPC_MAXMSG` 3
both limits bite (a third message of size 1 is refused by bytes, a fourth message by count), a message of
size -2 lets a queue past its limit, and of size 4, which is `INT_MAX` there, wraps the sum with any
other positive size. The other runs use size 1 alone, as they ask other questions.

Deadlock is not checked: threads need not make calls, a lost lock stops everything, and after rmmod
nothing runs.

Fairness. Kernel code keeps running (weak fairness of `Enter`, of the critical sections, of a fault
and of the end of exit), and the ARM spin lock is a ticket lock, which serves waiters in order: strong
fairness of `Acquire` and `ExitDrain`. In the library, a thread inside a function keeps running (weak
fairness of `Continue`). No fairness makes a program call anything or unload the module.

### Findings

1. `ku_ipc.c:224` returns with `ku_lock` held (`ipc_lock_leak`).
2. `ku_ipc.c:268` promises that there are no duplicate keys; check and create are separate calls
   (`ipc_duplicate_keys`).
3. `ku_ipc.c:230` stores the pointer and not the data (`ipc_payload`).

### What is proved

`KuIpcProofs`, for any finite set of threads, any keys, types, sizes and limits
(assumption `KuIpcAssumption`, which TLC evaluates on each run):

* `TypeCorrect`, `MutualExclusion` from the inductive invariant `IInv`: types, the owner of the lock,
  and - what makes it inductive - that the counter equals the length of the list while rmmod does not
  own the lock.
  Without the counter's equation `KU_CLOSE` could not be shown to keep it in `Nat`.
* `VolumeBounded` from `BoundInv`: `IInv`, the bound on the list, and that a list which is drained
  stays empty. Each action that adds a queue removes a creator; each thread becomes a creator only when the
  counter, hence the list, is within the limit.
* `LimitsHold`: the count of every queue is the length of its list and within `KUIPC_MAXMSG`; and its size
  is below `KUIPC_MAXVOL` if it got sane sizes only. The limit is not inductive by itself: a receive takes the
  size of its message off, which keeps the limit since the rest is a sum of sizes that are not negative.
  So the proof goes through `PlainSum`, that the size of such a queue is the sum without a wrap.
* `BytesHold`: the size that a queue keeps is the sum of the sizes of its messages, whatever they are, as
  an int keeps it (`Wrap`, which adds up: a wrapped sum and a size wrap to what the whole sum does). `Lasting(G)` says of
  a set of queues *G* that a new queue is in it and that sends and receives lead from *G* to *G*; then
  every queue stays in *G* (`NextAllIn`), whatever calls and rmmod do. For this *G*, `SumSizes` is a
  fold: `FoldExists` gives it a function of the sums of its prefixes, by which appending a message adds its
  size and removing one from any place subtracts it (`SumOfAppend`, `SumOfRemove`).
* `ScanIsSelected`: the loop of `ku_ipc_read` ends at the message that `Selected` names, for lists of any
  length and every request. `ScanStages` are the loop's locals after each node; an induction over the nodes
  says what they know of the nodes passed (`ScanKnows`, `ScanTurnKnows`): the node found is the first that
  is wanted; while there is none, `count` is the number of nodes passed, and for a negative type `flag` is
  set and `min` is the first node of the smallest type within the bound (`FirstSmallest`).
* `LostLockIsForever`: from a state where a thread outside the critical section owns the lock, every
  step keeps it so and keeps the queues.
* `DriverImplementsMsgQueues`: the abstract list is `View(msg_q)`, the service is open while rmmod has
  neither taken the lock nor finished. Initial states map to initial states; enter and acquire
  steps, faults and look-ups stutter; create, close, send and receive map to their operations, and an exit that
  drains, or ends without draining, maps to `Stop`. `SelectedMayLeave` shows that what a receive takes
  is a message the abstract specification lets leave.

`KuIpcLibProofs`, for the same constants:

* `LibImplementsDriver`: `LibSpec => Spec`. The library's variable `api` is its own; what it does between
  two system calls is the driver's `Call`, and all else is a step of the driver (`LibStepIsDriverStep`).
  That needs `LibIInv`: a thread inside a function is in the call which that function made. The fairness
  of the driver is part of `LibSpec`.
* `LibKeepsDriverLimits`: so the theorems on volume, limits (with the same condition on sizes, which
  the library passes on unchecked) and the lost lock hold under the library.
* `DuplicatesBounded` from `DupInv`: the queues of a key, and the threads that were told it is free and
  have not created its queue yet (`Getting`), are together at most the threads. A look-up answers
  "free" only when there is no queue of the key (`CheckAnswers`), and then the threads in `Getting` are the
  whole sum; a create takes its thread out of them.

Model-checked only: the liveness properties.

## 4. The as2 motion-sensor driver

### How the model corresponds to the code

`KuPir` has the driver's `fd_list`, `ku_pir_volume` and lists, the interrupt's disable `depth`, the
state of the `module` (what init does next, or how far exit is), the list heads that are `made`, and a
frame `pc[a]` for each actor: the threads, the interrupt handler `Isr` and
`Rmmod`. Nothing in this driver takes a lock, so a step of the model is one access to shared memory
that another actor can come between. The lists are kept as the kernel keeps them: `next` and `prev` of
every cell, the head of descriptor *f* being the cell *f*, so that one node in two lists, a deleted
node that is followed, and a half-done insertion are what they are in memory.

| Code | Actions |
|---|---|
| `ku_pir_init`, from `cdev_add` on | `InitIrq`: `request_irq` enables the interrupt (`:279`), `disable_irq` disables it (`:286`) and waits for a handler that runs; `InitQueues`: the wait queue and the list heads (`:289-292`) |
| a call, or the handler, that meets in init what is not initialised | `Premature` |
| library call: open, one call, close (`ku_pir_lib.c`) | `ku_pir_open` begins a call, `ku_pir_release` ends it (`depth` first, then the wait for a running handler) |
| `ku_pir_read` | `Wait`, `Signal`, `Pick` (first cell), `Copy` (after `rcu_read_unlock`), then the loop that deletes |
| `ku_pir_write` | `Write` (allocate), `Full`, the loop that deletes, `AddTail`, `Increment`, `Wake` |
| `KU_OPEN` | `Find`, `Take`, `Reset` |
| `KU_CLOSE`, `KU_FLUSH` | `Take` (close), the loop that deletes, `Reset` |
| `ku_pir_isr` | `ku_pir_isr` or `Glitch` (allocate), `Push` for each descriptor, the loop that deletes, `AddTail`, `Increment`, `Wake` |
| `ku_pir_exit` | `ExitBegin`, the loop that deletes, `ExitNext`, `ExitEnd` |
| `list_for_each_entry_safe`, `list_del_rcu`, `kfree`, `volume--` | `Walk`, `Unlink`, `Free`, `Decrement`, shared by all of them |

`enable_irq` at depth 0 warns and leaves the depth, `disable_irq` counts up and waits for a running
handler. The two readings of the sensor in the handler may both miss the level (`Glitch`): it then
leaves with its node lost. An interrupt with no descriptor in use loses its node too.

Init is beside all this. The device is visible from `cdev_add` (`:274`), so that programs call while init
runs. From `request_irq` until `disable_irq` the interrupt is enabled, whoever has the device open: the
handler may run, and then crashes the machine, as the wait queue it wakes is zeroed memory until `:289`; a
list head that no `KU_OPEN` has initialised is a null pointer, too. An `open` in that window enables what
is enabled; then `disable_irq` of init takes its enable away, and a reader that is alone with the device
sleeps for ever. The driver has this race, and the properties say where it ends:
`HandlerNeedsDevice` claims the gate from the `disable_irq` on, `ReadEnds` excepts it (`early`).

Three history variables serve the properties. `early` says that an open came before init had disabled the
interrupt. `got` is what a thread's reads delivered. `contended` says
that two actors have taken entries off one list at the same time (or read the first entry while another
one takes it off), as when a read meets a handler that finds the queue full. After that the code
promises nothing: it may free an entry twice.

Assumptions: freed memory holds anything, following a pointer from it is fatal, and a write to it is
lost; a bad pointer kills a thread (and closes its device), stops rmmod, and crashes the machine in the
handler; stores become visible in program order; `request_irq` succeeds; programs pass a descriptor in
range. A few pairs of stores are one step: the two of an `INIT_LIST_HEAD`, and those of `:289-292` together.
An open before `request_irq` (`:274-279`) enables an interrupt that is not there; it is counted as `early`
if it is still open at `request_irq`. `KU_PRINT` writes to the log only and is left out. `jiffies` stops at `MaxTime`: entries of
that time are equal, and `InOrder` claims nothing of their order.

### What the runs check

| Run | Instance | Checks |
|---|---|---|
| `pir_queue` | 1 thread that opens, reads and flushes; 3 nodes, queue of 2 | `TypeOK`, `ListsWellFormed`, `InOrder`, `SleepersAreWoken` |
| `pir_gate` | 2 threads, one that reads, writes and closes, one that opens; init and rmmod; 1 node | `HandlerNeedsDevice` |
| `pir_read` | 1 thread that opens and reads; 2 nodes, queue of 1 | `ReadEnds` |
| `pir_irq_off` | as `pir_read`, 2 descriptors, a second program that opens | violates `ReadEnds` |
| `pir_shared_node` | as `pir_irq_off` | violates `ListsWellFormed` |

What they show. One reader and the handler on one descriptor get by without a lock: the forward chain
from the head always leads through live entries back to the head, since `list_add_tail_rcu` and
`list_del_rcu` order their writes; entries come in order and once; and although the counter and the
back pointers can be damaged by races, no reader sleeps while the counter it waits for is positive and
no producer is on its way (`SleepersAreWoken`). All this ends where the queue is full
and handler and reader delete from it together; and it is over with a second producer, a thread that
writes (see below). Once init has disabled the interrupt, the handler never runs when nobody
has the device open (`HandlerNeedsDevice`), however opens and releases overlap with each other, with the rest
of init and with exit; but the interrupt may stay disabled when somebody has. Before that, in init, neither is so.
`SleepersAreWoken` is a claim about a descriptor with one reader: two readers of one descriptor can
restore a stale counter.

Bounds. Three nodes are a full queue of two entries and the entry the handler brings; `MaxDepth` 2 lets
two users overlap and releases outnumber opens; `Drift` 0 stops new calls and interrupts once a counter
has left its range, which it does only in states where the list and the counter disagree. The constraint
`Claimed` stops the search after `contended`, where no property claims anything about lists; `pir_read`
has none. All of them begin with init, with calls and interrupts in every window of it. `pir_gate`
checks the device gate with every disjunct of a call and the exit, for which one node is enough; it has
no constraint either, and looks at states without the contents of entries, the clock and the histories
(`GateView`), on which neither the gate nor any guard depends. `pir_queue` uses the symmetry of the
nodes, which differ by contents only.
Deadlock is not checked: programs need not call, and a crashed machine stops.

Fairness. Code in the kernel keeps running (weak fairness of each thread's, the handler's, init's and
rmmod's steps), and the sensor keeps detecting motion while its interrupt is enabled (weak fairness of
`ku_pir_isr`). `pir_irq_off` grants more, so that the sensor is not to blame: the handler runs even if
the interrupt is enabled only again and again for moments (`SpecRestless`). Nothing makes a program
call, send a signal, or unload. `ReadEnds`
excepts a read in a machine that has crashed; one in a machine whose memory is used up by the nodes that
the handler leaks (`Exhausted`: no node is free, and no handler runs that is to free one); and one beside
an early open (see above), without which exception TLC finds it violated.

### Findings

1. `ku_pir.c:246` links one node into several lists (`pir_shared_node`).
2. `ku_pir.c:44`: closing the device disables the interrupt for other users who still wait for it
   (`pir_irq_off`).

A second producer. `write` (`ku_pir.c:123`) and the handler (`:246`) append to one list without a lock. With
one or two nodes nothing comes of it but a lost entry; with three, the claim that `pir_queue` checks of
the handler alone is false. `tlc -config MCTwoProducers.cfg MCKuPir` finds how in two minutes: the
writer reads the last cell; the handler appends another; a flush frees the cell that the writer is about
to append to, and goes on while both producers' stores fall due; in the end the list leads into a freed
entry, though no two actors ever took entries off it. `OneWrite` keeps that search to one write, as the
counterexample is long; a counterexample within a constraint is one without it.

### What is proved

`KuPirProofs`, for any threads, programs, nodes, queue lengths and numbers of descriptors:

* `PirTypeCorrect` from `Framed` (`TypeOK` and `FramesOK`): every pointer is to a cell or poisoned, each
  frame holds what its label needs (`FrameOK`: an actor that unlinks has a cell, the handler that adds
  has a node and a descriptor in range, ...), and only the handler and rmmod have their own labels.
* `HandlerHeld` from `IInv` (`Framed` and `GateHeld`), in each stage of the module from the `disable_irq` of
  init to the end of exit: a thread that has called `disable_irq` waits, with
  the device still open, until the handler is over, but does not keep the interrupt enabled. So the
  inductive claim is stronger than the property: while `depth` is 0 some thread has the device *and has
  not disabled the interrupt yet*. A release that takes `depth` from 0 leaves it above 0; an open
  that brings it to 0 is itself such a thread; and a killed thread releases as the others do.
* `ReadersWoken` from `WakeInv`: a thread that sleeps over a positive counter has an actor on its way to
  `wake_up`. `WakeInv` is `Framed`, that each thread runs calls of its program (`Called`), and the property
  with the actors spelt out that store a counter (`Roused`). It holds under two hypotheses on the
  programs, which are those of the run. `OneReader`: at most one thread reads; a second one's decrement
  can store a stale positive counter and wake nobody. `NoWriters`: no thread writes; a bad pointer can kill
  a writer between its store of the counter and its wake-up, and leave the reader asleep, whereas a
  handler that dies takes the machine with it.

`KuPirLists`, under `OneProducer`: there is one descriptor, and no thread writes into it, so that the
handler alone adds entries. Everything else is free: any number of threads that open, read, flush and
close it at the same time, init and rmmod, signals, any number of nodes and any length of the queue. The run
`pir_queue` is such an instance.

* `ListsHold` from `ListsInv`: the frames of `KuPirProofs`, that the head is never taken for an entry nor its
  *prev* poisoned (`HeadWhole`, until `contended`), that rmmod does not begin before init has ended
  (`Parked`), and `ListInv`. This one says two things as long as `contended` is false. `Linked`: *next* leads from live cells to live cells, from no two to the
  same entry, and a freed node to itself. `Chain`, while the driver runs, is what keeps it so at every access:
  at most one actor holds entries (`Exclusive`), and what it holds is the first entry, or was before
  an `INIT_LIST_HEAD` (`HolderOK`); *prev* leads back, but for an entry that is half taken out (`Back`);
  nothing leads to the node the handler is bringing until it is published (`Brought`); and the cell it
  appends to is the end of a list (`Tails`), though not always of this one, as `INIT_LIST_HEAD` and the
  handler's three stores overlap: then an entry is lost, but the list stays a list. The property itself
  follows from `Linked` and the number of nodes: a path from the head that came by an entry twice, or
  never returned, would need two cells that lead to the same entry, or more entries than there are
  (`PathReturns`, by `SetInduction` and a count).
* `ReadsInOrder` from `OrderInv` on top of `ListsInv`. `Ages`: nothing is newer than the clock, and the
  node that the handler brings is newer than all others and than all that was delivered (or, like
  them, of the time `MaxTime`, where the clock stops). `Sorted`: each
  entry is followed by a later one. `ReadOn`: the first entry, and what comes first once the holder is
  done, is new to every thread, but for the one entry that a read has copied and is taking out (`Mid`).
  The copy after `rcu_read_unlock` is safe for the same reason as the deletion: nobody else holds. And
  `ReadsMade`: a read that copies or deletes has found an initialised list, so that init's own
  `INIT_LIST_HEAD` and `Premature` interrupt none.

`OneProducer` is needed: with a thread that writes `ListsWellFormed` is false (see the second producer above), and so it
is with several descriptors (`pir_shared_node`). Closing the descriptor and rmmod, which frees the lists
before the interrupt that fills them, are in the theorems but not in `pir_queue`. Model-checked only: `ReadEnds`, which is liveness.

## 5. The exercises

Seven modules, one for each kind of exercise, every one with variables, constants and a specification
of its own. `MCExercises` puts them side by side for the run `exercises`: each behaviour starts with
one of them loaded (and, of `SimpleBlock`, `DeferredWork` and `StepMotor`, with one of the drivers that
the module stands for), the others are not there (`BlockStart("none")` and so on) and take no step.
They share nothing, so the reachable states are those of the seven specifications by themselves, and
each property is about the variables of one of them; `WorkFairness` and `BlockFairness` are the
fairness of the two that claim liveness.

All of them have in common that their `file_operations` name no owner: exit runs whoever has the device
open, and the code goes under calls in flight, which then take no further step in the models; and that
most call `cdev_add` before init has ended. What happens to a thread whose code is gone is not said.

### How the models correspond to the code

**`SimpleBlock`.** A reader is `idle`, `asleep`, `woken`, or at the `lock` with its test behind it; a
writer is `idle` or about to `wake`. `Read` is the test, `Consume` the critical section that follows
it, `Timeout` the end of ch4's two seconds, which a wake-up that found nothing does not start again. A
critical section is one step, because `my_data` is written in no other place and the code outside reads
it once; that `spin_lock_init` runs while a caller that came early may hold the lock is left out with
it. A call that meets the wait queue before `init_waitqueue_head` is an `oops`.

**`SimpleSpin`.** The buffer has the two fields of `struct str_st`, a message is a number that both
fields get, and each copy goes field by field and may fault before either (`copy_from_user` zeroes what
it could not copy). The ioctl returns 0 whatever happened, so a fault is invisible to its caller. Init
allocates after `cdev_add`, `kmalloc` may fail, and exit frees under the callers; what nobody has
initialised, or what is freed, reads as `SpinJunk`. The five seconds of `delay` only let other threads
run, which they may do anyway.

**`SimpleRcu`.** The pointers of the head and of each entry, one access a step: the three stores of
`list_add_rcu` in their order, the walk, the unlink and `kfree` of exit. `my_lock` is taken by one of
the reading calls only and so excludes nothing; the model leaves it out, and both reading calls are
`RcuWalk`. The two stores of `list_del_rcu` in exit are one step: readers follow *next* alone. Init runs
in steps beside early calls. A behaviour ends at its first oops.

**`DeferredWork`.** Init and exit of these eight drivers are sequences of kernel calls, and are
written as such (`Ch3Init`, `Ch3Exit`, ...). A call is one step of the thread of insmod or rmmod, with
what the kernel says of it: `del_timer` does not wait for a running function, `tasklet_kill`,
`free_irq`, `disable_irq`, `flush_workqueue` and `kthread_stop` wait; `request_irq`,
`create_workqueue`, `kthread_create` and the handlers' `kmalloc` may fail, with what the drivers then
do (they free what they do not have, wake NULL, flush NULL). Beside it run the timer function, the
handler, the tasklet, the worker, the threads, and open and release. ch3's timer function and handler
go access by access on `is_detect`, `light_status` and the lamp; otherwise a function's body is one
step. The history `faults` remembers the events that the properties except: a timer deleted while
its function ran (`late_timer`), a tasklet scheduled after the `tasklet_kill` of exit had returned
(`late_tasklet`), an unbalanced
`enable_irq`, handler and timer function overlapping (`crossed`), an LED written that the driver does
not hold, with the stage that was in. Left out: failures of `gpio_request_one` and `cdev_add`, that
the three LEDs are written one after another, and `kmalloc(GFP_KERNEL)` in a handler.

**`Dht11`.** A frame is a sequence of pulses; a turn of the outer loop times one. `Stored` is the branch
that puts a bit into `dht11_data[j/8]`. A turn reads the line twice: in the condition of the while loop
(`:32`), and once more for `last_state` (`:39`). The line and the scheduler disturb it: a length is
misread (a long one is a 1); the loop is held up while pulses pass (`DhtLose`), between two readings of
`:32`, which takes three pulses or five for one, or between the last of them and `:39`, which skips an
odd number of pulses and makes the next turns time low pulses for high ones; noise cuts a pulse in two
(`DhtNoise`). `MAX_TIMING` is 85 for 40 bits, the five turns more than two for a bit that the model's `2
* Bits + 5` keeps for other sizes.

**`StepMotor`.** `setStep` one pin at a time, so that the coils pass through states that are in no
table; the moves of init are data. `Coils` and `RotorTurns` are the motor, external: its rotor follows a field
that turns by half a step and not one that jumps. The copy under `temp` has its table the other way
round and leaves its last coil on at exit.

**`SharedCounter`.** `++global_value` is a load and a store. The kernel keeps `ch1_mod` loaded while
`ch1_mod2` uses its symbol; a reload starts from 0.

### What the run checks

| Property | What it shows |
|---|---|
| `BlockDebt` | two readers can take one datum, since they test without the lock; `my_data` then falls below zero, by less than there are readers, and not unless their tests overlapped |
| `BlockSleepersWoken` | no wake-up is lost between a reader's test and its sleep |
| `BlockReadReturns` | ch4's read always returns, also when every wake-up finds the data taken |
| `SpinWhole` | what is read is one write's message, never parts of two, except next to a fault, init or exit |
| `SpinReadOnce` | no message is read twice, not even when its copy to the reader faulted: then it is lost |
| `RcuWalkable` | a walk never leaves the list while writers insert without a lock, once the head is initialised and until exit |
| `RcuNoneLost` | an insertion is lost only if it overlapped another one (or init) |
| `RcuNoneLeaked` | exit frees every entry, unless insertions overlapped each other or exit |
| `NothingOutlives` | after exit no timer, tasklet, handler, work or thread remains, but a timer that was running when exit deleted it (week5, ch2, ch3) and a tasklet that an interrupt scheduled behind `tasklet_kill` (week9/pir) |
| `LedsHeld` | LEDs are written after exit has freed them in ch2 and ch5, and before init has requested them in ch5, and otherwise never |
| `LampOut` | ch3 leaves the lamp off |
| `LampAgrees` | `light_status` follows the lamp, to the next tick, unless handler and timer function overlap |
| `SensorGate` | the sensor interrupts only while the device is open, and then does, unless opens are unbalanced |
| `ExitEnds` | rmmod ends: all that exit waits for comes to an end |
| `DhtShowsSent` | what `dht11_read` shows was sent, in spite of one misread bit or any number of missed pulses, unless exactly one was missed |
| `DhtInBounds` | it stores outside its five bytes only if the line was noisy |
| `MotorInStep` | the rotor stays under the field through every pin that is set and every turn of direction, and ends where it began |
| `CounterExact` | increments that do not overlap are all counted, and `ch1_mod2` reads none that was not made |

The exceptions in these properties are the races of the code, found by checking the property without
them; no document of the exercises promises their absence, so they are not findings. A property does not
catch what it excepts: the late timer and the late tasklet, the LEDs that ch5 writes before it has requested
them and after it has freed them, the detection that ch3 forgets when handler and timer function overlap,
the lost update of ch1, the entry that a writer adds behind the exit of week8. Those happen, and the
properties say that nothing else of the kind does. The single missed pulse of `dht11_read` is of this
sort, too: skipped between lines 32 and 39, it leaves 40 bits, taken from low pulses from then on, and the sum
may happen to fit (*d3* shown as 127 when *d0* + *d2* = 128).

Bounds. Three readers and two writers (`MaxData` 2) let a third reader pay for the debt of two. Two threads
and two messages meet in the one buffer in every way. Two entries, one from init and one from a
writer, with a second writer that finds no memory, overlap all insertions, walks and the exit; an entry
that was freed is not allocated again, so that a stale pointer stays recognisable. Two interrupts
(`MaxDetections`) let one come at each of two moments, two openers (`MaxOpens`) overlap. Three bytes of
two bits have all frames, and two disturbances (`Faults`, which counts each lost pulse); `Bytes` 3 is the least number with a sum
of two bytes. `Turns` 1 stands for 512 turns of the table: a turn ends where it begins. Three callers
and four increments overlap in pairs and threes.

Deadlock is not checked: programs need not call, an oops or an unloaded module stops everything.

Fairness. `BlockFairness`: woken readers and writers run, and time passes; nobody has to call.
`WorkFairness`: the thread of insmod and rmmod, functions that have begun, scheduled tasklets, queued
work and threads run on. Detections, opens and rmmod itself are under no fairness.

### What is proved

* `DebtBounded` (`ExerciseProofs`), for any finite set of readers, any writers and any bound:
  `BlockTypeOK` and `BlockDebt` together are inductive. A reader that passes its test sees at least one
  datum, and if nobody is behind a test the readers' set is empty, so it has one to itself; if
  somebody is, `overlapped` weakens the claim by exactly one less than the number of readers. The lemmas
  on `PastTest` turn a step into a change of its cardinality by one.
* `NoLostWakeUp` (`ExerciseProofs`) from `WakeIInv`: the property is inductive with the types and the
  fact that nobody waits before init has made the wait queue. A wake-up wakes every sleeper, so the last
  writer on its way leaves none behind.
* `ListWalkable`, `ListNoneLost`, `ListNoneLeaked` (`SimpleRcuProofs`), for any readers, writers and
  entries, from `RcuIInv`. `Behind(c)`, the cells that *next* leads to, is the least set with *c* that
  *next* does not leave; so no induction over a path is needed, and how it changes is a lemma about closed
  sets (`FromNew`, `FromFirst`, `FromSame`). The invariant says: before exit the linked entries are
  allocated, lead to the head and never back to themselves (`Chained`); each insertion has an entry of
  its own to which nothing points before it is published (`Standing`); if no insertions overlapped,
  everything published is behind the head and the first entry points back at it (`Complete`); in
  exit, what is left is behind the entry that the loop has reached (`Emptying`). `RcuWalkable` needs
  the first two only: that is why readers may do without a lock against writers.
* `SpinReadsWhole`, `SpinReadsOnce` (`ExerciseProofs`), for any threads and messages, from `SpinIInv`: one
  thread is in the critical section (`SpinLocked`); outside of it the fields are of one message, or next to
  a fault (`SpinBuffer`); before `cdev_add` and after exit nothing is whole (`SpinBefore`); what a reader
  has copied so far is what the buffer had (`SpinReaders`); and a message is in the buffer, with one
  reader, or still with its writer, and in no two of those places (`SpinUnique`).
* `StoresInBounds` (`ExerciseProofs`), for frames of any size and any number of disturbances: *j* counts the
  even turns from the fourth on (`2j <= i - 3`), and without noise a turn uses up at least one pulse
  (`i <= pulse`); the 85th turn is never made then.
* `ShowsWhatWasSent` (`ExerciseProofs`), for bytes of any width and any number of them, from
  `ShowsIInv`. On a quiet line `i` and the lost pulses add up to the pulses that are over (`Quiet`), and
  `i` tells `j`; so a frame of which two pulses or more were lost ends before the last bit. If none was lost,
  each byte is compared with what its bits should have given so far, the quotient of the sent
  byte by a power of two (`Share`): the difference is 0 for all bytes (`Faithful`), or, after one bit that
  was misread, for all but one, where it is less than a whole byte (`OneOff`); a bit that follows doubles
  it (`OffNext`). In the end such a difference changes the sum by something that no multiple of
  256 makes good, or is in the sum itself (`SumFinds`). What `Pow2` and `Sums`, the recursive functions
  of the model, are for every argument comes from `IterationExists` of `Induction`.
* `CountsExactly` (`ExerciseProofs`), for any callers: without an overlap at most one caller is
  between load and store, and it has loaded what the counter still is.
* `RotorInStep` (`ExerciseProofs`), for any number of turns: a call of forward or backward is followed
  as a place on the table that runs from `From` to `To` while the four pins are set. The coils whose
  pins are set already are those of `To`, the others still those of `From` (`Mixed`); two neighbouring
  fields differ in one coil, so this is always one of the two (`NeverBetween`), and the rotor is where
  the field is (`RotorFollows`). The last phase of a call is the first of the next one or its
  neighbour (`Leg`), and the calls cancel each other out.

* `NoneOutlives`, `LedsAreHeld`, `LampIsOut`, `LampIsKnown`, `SensorIsGated` and `WorkTypeCorrect`
  (`DeferredWorkProofs`), for all eight drivers of `DeferredWork` and any number of interrupts and opens,
  from `WorkIInv`. Where init or exit is, the calls that are left tell (`Rest`: they are how the
  driver's sequence ends), so that a call that comes before one which is left no more is left no more
  either (`RestNames`). What runs was started by a call of init that is over (`TimerOK`, `IrqOK`,
  `QueueOK`, ...), and once the call of exit that stops it is over it rests; whatever init starts, exit
  stops (`StopFollowsStart`), in an order (`Orders`, `CallsOfExit`) that is a fact about each sequence:
  `free_irq` before `flush_workqueue`, or the interrupt would queue more; in ch3 `free_irq` and `del_timer`
  before the LEDs go. The lamp: each of the positions of the timer function says what the lamp, the
  two flags and the handler may be (`TicksOK`). The gate: depth of the interrupt and opens of the device
  add up to 1, or to 0 while init has `disable_irq` before it (`GateOK`).

Model-checked only: `ExercisesTypeOK` beyond the components whose types the theorems above include, and
the liveness properties.

## 6. Not modelled

* The one-shot exercises (`hello`, `week4/linked_list`, `week4/example`, `week5/led`,
  `week10/speaker`, `test.c`, `test2.c`): straight-line code that one thread runs in init and exit, with
  no state that outlives a call and nothing beside it. `week4/example/example.c` does not compile.
* The programs that call the drivers (`as1/test`, `as2/test`, `ch1_app.c`, the readers and writers of
  `week4`, `week7` and `week8`): they make one or two calls each, and the drivers' models make those
  calls in every order.
* Build files and device-node scripts have no behaviour to check.
