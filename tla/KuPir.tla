------------------------------- MODULE KuPir -------------------------------
(***************************************************************************)
(* The motion-sensor driver of as2/ku_pir.c and its library: descriptors   *)
(* with a queue of sensor entries each, shared WITHOUT A LOCK by the       *)
(* threads' system calls, by the sensor's interrupt handler and by rmmod.  *)
(* The queues are kernel lists, modelled as the kernel keeps them: cells   *)
(* with a next and a prev pointer, the head of descriptor f being f.       *)
(*                                                                         *)
(* An actor's step makes one access to a list that another actor can come  *)
(* between: list_del_rcu and list_add_tail_rcu take two or three steps,    *)
(* ++ and -- of a counter a load and a store.                              *)
(***************************************************************************)
EXTENDS Integers, FiniteSets, Sequences

CONSTANTS
  Procs,          \* user threads
  Programs,       \* the pairs <<p, op>> of what each of them calls, and
                  \* <<Rmmod, "exit">> if the driver may be unloaded
  Nodes,          \* addresses of list entries
  KUPIR_MAX_DEV,  \* descriptors
  KUPIR_MAX_MSG,  \* entries in a queue
  MaxTime,        \* a bound: jiffies stays at MaxTime
  MaxDepth,       \* a bound: no opens when the interrupt is disabled so often
  Drift,          \* a bound: how far a counter runs out of 0..KUPIR_MAX_MSG
  Isr, Rmmod      \* the interrupt handler, and the thread that runs ku_pir_exit

Fds == 1..KUPIR_MAX_DEV
Actors == Procs \cup {Isr, Rmmod}
Ops == {"KU_OPEN", "KU_CLOSE", "KU_FLUSH", "read", "write"}
Poison == -1   \* LIST_POISON2

ASSUME KuPirAssumption ==
  /\ IsFiniteSet(Nodes) /\ Nodes \cap Int = {}
  /\ Isr \notin Procs /\ Rmmod \notin Procs /\ Isr # Rmmod
  /\ Programs \subseteq (Procs \X Ops) \cup {<<Rmmod, "exit">>}
  /\ KUPIR_MAX_DEV \in Nat \ {0} /\ KUPIR_MAX_MSG \in Nat \ {0}
  /\ MaxTime \in Nat \ {0} /\ MaxDepth \in Nat /\ Drift \in Nat

VARIABLES
  fd_list,        \* fd_list[f]: descriptor f is in use
  ku_pir_volume,  \* ku_pir_volume[f]: the entries in its queue, as the driver counts
  next, prev,     \* the pointers of every cell
  data,           \* data[n]: the timestamp in node n
  allocated,      \* the nodes that are not free
  depth,          \* how often the interrupt is disabled
  jiffies,
  module,         \* what ku_pir_init does next: "request" (the interrupt),
                  \* "disable" (it), "quiet" (wait for the handler), "queues"
                  \* (initialise them); then "loaded", "exiting", "unloaded"
  made,           \* the descriptors whose list heads are initialised
  pc,             \* pc[a]: the frame of actor a
  got,            \* history: what a thread's last read delivered, and the last
                  \* sensor entry it was delivered before that
  contended,      \* history: two actors took entries off one list at the same time
  early           \* history: an open before init had disabled the interrupt, which
                  \* therefore did not count

memory == <<next, prev, data, allocated>>
gate == <<depth, module, made>>
history == <<got, contended, early>>
vars == <<fd_list, ku_pir_volume, memory, gate, jiffies, pc, history>>

Cells == Fds \cup Nodes

(* What a read delivers, when it is not the timestamp of a sensor entry: the*)
(* zeros behind a list head, an entry of ku_pir_insertData, freed memory.   *)
NoEntry == 0
UserEntry == -1
Junk == -2

Frame(at, op, f) == [at |-> at, op |-> op, fd |-> f, pos |-> 0, q |-> 0,
                     prv |-> 0, nxt |-> 0, item |-> 0, n |-> 0]
Idle == [at |-> "idle"]

Init ==
  /\ fd_list = [f \in Fds |-> 0]
  /\ ku_pir_volume = [f \in Fds |-> 0]
  /\ next = [c \in Fds \cup Nodes |-> c]
  /\ prev = [c \in Fds \cup Nodes |-> c]
  /\ data = [n \in Nodes |-> Junk]
  /\ allocated = {}
  /\ depth = 1
  /\ jiffies = 0
  /\ module = "request"
  /\ made = {}
  /\ pc = [a \in Actors |-> Idle]
  /\ got = [p \in Procs |-> [now |-> Junk, last |-> 0]]
  /\ contended = FALSE
  /\ early = FALSE

-----------------------------------------------------------------------------
(* An actor takes steps while the handler has not crashed the machine and   *)
(* the driver's code is there.                                              *)
Running == pc[Isr].at # "oops" /\ module # "unloaded"
At(a, label) == Running /\ pc[a].at = label

(* ku_pir_init, from cdev_add on: the device is there, and is called.       *)
Loading == module \in {"request", "disable", "quiet", "queues"}

HasDevice(p) == pc[p].at \notin {"idle", "dead"}

Goto(a, label) == pc' = [pc EXCEPT ![a].at = label]
Become(a, frame) == pc' = [pc EXCEPT ![a] = frame]

(* A bad pointer kills a thread, and its device is then closed; it stops    *)
(* rmmod; in the handler it takes the machine down.                         *)
Oops(a) == Become(a, Frame(IF a \in Procs THEN "release" ELSE "oops", "dead", 1))

(* A bound on what the counters drift to; no call or interrupt beyond it.   *)
Bounded == \A f \in Fds : ku_pir_volume[f] \in -Drift .. KUPIR_MAX_MSG + Drift

-----------------------------------------------------------------------------
(* The loops that delete entries delete one, for a read, or for a producer  *)
(* that finds the queue full; or all, for flush, close and exit.            *)
DropsOne(a) == pc[a].op \in {"read", "write", "isr"}

(* Where a call goes on when its loop is over.                              *)
AfterLoop == [read |-> "release", write |-> "add", isr |-> "add",
              KU_FLUSH |-> "init", KU_CLOSE |-> "zero", exit |-> "next"]

(* Freed memory holds anything: following a pointer from it is fatal, and   *)
(* what is written to it is lost.                                           *)
Live == Fds \cup allocated

(* Whether another actor holds a pointer to an entry that it takes off the  *)
(* list of f.                                                               *)
Contends(a, f) ==
  \E b \in Actors \ {a} : /\ pc[b].at \in {"copy", "walk", "unlink", "free"}
                          /\ pc[b].fd = f
                          /\ pc[b].pos # 0 \/ pc[b].q # 0

(* list_for_each_entry_safe: the entry to delete, and its successor in q.   *)
Walk(a) ==
  /\ At(a, "walk") /\ pc[a].fd \in made
  /\ LET f == pc[a].fd
         x == IF pc[a].q = 0 THEN next[f] ELSE pc[a].q
     IN  \/ x = f /\ Become(a, [pc[a] EXCEPT !.at = AfterLoop[pc[a].op], !.q = 0])
         \/ /\ x # f /\ x \in Live
            /\ Become(a, [pc[a] EXCEPT !.at = "unlink", !.pos = x, !.q = next[x]])
         \/ x \notin Live /\ Oops(a)
  /\ contended' = (contended \/ Contends(a, pc[a].fd))
  /\ UNCHANGED <<fd_list, ku_pir_volume, memory, gate, jiffies, got, early>>

(* list_del_rcu, to its first write; the second follows the prev pointer.   *)
Unlink(a) ==
  /\ At(a, "unlink")
  /\ LET x == pc[a].pos
     IN  /\ prev' = IF next[x] \in Live THEN [prev EXCEPT ![next[x]] = prev[x]] ELSE prev
         /\ \/ prev[x] = Poison /\ Oops(a)
            \/ /\ prev[x] # Poison
               /\ Become(a, [pc[a] EXCEPT !.at = "free", !.prv = prev[x], !.nxt = next[x]])
  /\ UNCHANGED <<fd_list, ku_pir_volume, next, data, allocated, gate, jiffies, history>>

(* The rest of list_del_rcu, and kfree, which takes live entries only.      *)
Free(a) ==
  /\ At(a, "free")
  /\ LET x == pc[a].pos
         bypassed == IF pc[a].prv \in Live THEN [next EXCEPT ![pc[a].prv] = pc[a].nxt] ELSE next
     IN  /\ next' = [bypassed EXCEPT ![x] = x]
         /\ prev' = [prev EXCEPT ![x] = Poison]
         /\ data' = [n \in Nodes |-> IF n = x THEN Junk ELSE data[n]]
         /\ allocated' = allocated \ {x}
         /\ IF x \in allocated
            THEN Become(a, [pc[a] EXCEPT !.at = IF DropsOne(a) THEN "dec" ELSE "walk",
                                         !.q = IF DropsOne(a) THEN 0 ELSE @,
                                         !.pos = 0, !.prv = 0, !.nxt = 0])
            ELSE Oops(a)
  /\ UNCHANGED <<fd_list, ku_pir_volume, gate, jiffies, history>>

(* ku_pir_volume[fd]-- and ku_pir_volume[fd]++: a load and a store each.    *)
Load(a, label, after, change) ==
  /\ At(a, label)
  /\ Become(a, [pc[a] EXCEPT !.at = after, !.n = ku_pir_volume[pc[a].fd] + change])
  /\ UNCHANGED <<fd_list, ku_pir_volume, memory, gate, jiffies, history>>

Store(a, label, after) ==
  /\ At(a, label)
  /\ ku_pir_volume' = [ku_pir_volume EXCEPT ![pc[a].fd] = pc[a].n]
  /\ Become(a, [pc[a] EXCEPT !.at = after, !.n = 0])
  /\ UNCHANGED <<fd_list, memory, gate, jiffies, history>>

Decrement(a) ==
  \/ Load(a, "dec", "dec2", -1)
  \/ Store(a, "dec2", IF pc[a].op = "read" THEN "release" ELSE "add")

Increment(a) ==
  \/ Load(a, "inc", "inc2", 1)
  \/ Store(a, "inc2", IF a = Isr THEN "next" ELSE "wake")

(* A mutant of AddTail: the node is linked before its own pointers are set. *)
AddTailEarly(a) ==
  LET f == pc[a].fd
      x == pc[a].item
  IN  /\ \/ /\ At(a, "add") /\ Goto(a, "add2")
            /\ next' = [next EXCEPT ![prev[f]] = x]
            /\ UNCHANGED prev
         \/ /\ At(a, "add2") /\ Goto(a, "add3")
            /\ next' = [next EXCEPT ![x] = f]
            /\ prev' = [prev EXCEPT ![x] = prev[f]]
         \/ /\ At(a, "add3") /\ Goto(a, "inc")
            /\ prev' = [prev EXCEPT ![f] = x]
            /\ UNCHANGED next
      /\ UNCHANGED <<fd_list, ku_pir_volume, data, allocated, gate, jiffies, history>>

(* list_add_tail_rcu: the new node's own pointers, next of the last cell    *)
(* (a poisoned pointer is no cell), prev of the head.                       *)
AddTail(a) ==
  LET f == pc[a].fd
      x == pc[a].item
  IN  /\ \/ /\ At(a, "add")
            /\ f \in made
            /\ Become(a, [pc[a] EXCEPT !.at = "add2", !.prv = prev[f]])
            /\ next' = [next EXCEPT ![x] = f]
            /\ prev' = [prev EXCEPT ![x] = prev[f]]
         \/ /\ At(a, "add2")
            /\ IF pc[a].prv = Poison THEN Oops(a)
               ELSE Become(a, [pc[a] EXCEPT !.at = "add3", !.prv = 0])
            /\ next' = IF pc[a].prv \in Live THEN [next EXCEPT ![pc[a].prv] = x] ELSE next
            /\ UNCHANGED prev
         \/ /\ At(a, "add3")
            /\ Goto(a, "inc")
            /\ prev' = [prev EXCEPT ![f] = x]
            /\ UNCHANGED next
      /\ UNCHANGED <<fd_list, ku_pir_volume, data, allocated, gate, jiffies, history>>

(* wake_up_interruptible: every sleeper tests its condition again.          *)
Wake(a) ==
  /\ At(a, "wake") /\ ~Loading
  /\ pc' = [b \in Actors |->
              IF b = a THEN IF a = Isr THEN Idle ELSE [pc[a] EXCEPT !.at = "release"]
              ELSE IF pc[b].at = "asleep" THEN [pc[b] EXCEPT !.at = "wait"] ELSE pc[b]]
  /\ UNCHANGED <<fd_list, ku_pir_volume, memory, gate, jiffies, history>>

(* During init, what is not initialised is zero: to sleep on the wait queue,*)
(* to wake it, or to enter a list follows a null pointer.                   *)
Premature(a) ==
  /\ \/ At(a, "wait") /\ Loading /\ ku_pir_volume[pc[a].fd] <= 0
     \/ At(a, "wake") /\ Loading
     \/ Running /\ pc[a].at \in {"walk", "pick", "add"} /\ pc[a].fd \notin made
  /\ Oops(a)
  /\ UNCHANGED <<fd_list, ku_pir_volume, memory, gate, jiffies, history>>

ListStep(a) ==
  \/ Walk(a) \/ Unlink(a) \/ Free(a) \/ Decrement(a)
  \/ AddTail(a) \/ Increment(a) \/ Wake(a) \/ Premature(a)

-----------------------------------------------------------------------------
(* The calls.  The library opens the device for each of them, which enables *)
(* the interrupt, and closes it afterwards, which disables it.              *)
Entry == [read |-> "read", write |-> "write",
          KU_OPEN |-> "find", KU_CLOSE |-> "close", KU_FLUSH |-> "walk"]

ku_pir_open(p, op, f) ==
  /\ Running /\ pc[p] = Idle
  /\ pc[Rmmod].at # "free_irq"
  /\ depth < MaxDepth /\ Bounded
  /\ depth' = IF depth > 0 THEN depth - 1 ELSE 0
  /\ Become(p, Frame(Entry[op], op, f))
  /\ early' = (early \/ module = "disable")
  /\ UNCHANGED <<fd_list, ku_pir_volume, memory, module, made, jiffies, got, contended>>

(* A mutant of ku_pir_release: it does not wait for the handler.            *)
ku_pir_release_nosync(p) ==
  /\ At(p, "release")
  /\ depth' = depth + 1
  /\ Become(p, IF pc[p].op = "dead" THEN [at |-> "dead"] ELSE Idle)
  /\ UNCHANGED <<fd_list, ku_pir_volume, memory, module, made, jiffies, history>>

(* disable_irq waits for a handler that is running.                         *)
ku_pir_release(p) ==
  /\ \/ At(p, "release") /\ depth' = depth + 1 /\ Goto(p, "sync")
     \/ /\ At(p, "sync") /\ pc[Isr] = Idle
        /\ Become(p, IF pc[p].op = "dead" THEN [at |-> "dead"] ELSE Idle)
        /\ UNCHANGED depth
  /\ UNCHANGED <<fd_list, ku_pir_volume, memory, module, made, jiffies, history>>

(* A mutant of Wait: the thread sleeps without testing the counter again.   *)
WaitUntested(p) ==
  /\ \/ /\ At(p, "read")
        /\ Goto(p, IF ku_pir_volume[pc[p].fd] = 0 THEN "wait" ELSE "pick")
     \/ At(p, "wait") /\ Goto(p, "asleep")
  /\ UNCHANGED <<fd_list, ku_pir_volume, memory, gate, jiffies, history>>

(* A read waits for the counter, picks the first cell of the list, copies   *)
(* from it after rcu_read_unlock, and then deletes the first entry.         *)
Wait(p) ==
  /\ LET volume == ku_pir_volume[pc[p].fd]
     IN  \/ At(p, "read") /\ Goto(p, IF volume = 0 THEN "wait" ELSE "pick")
         \/ /\ At(p, "wait") /\ ~(Loading /\ volume <= 0)
            /\ Goto(p, IF volume > 0 THEN "pick" ELSE "asleep")
  /\ UNCHANGED <<fd_list, ku_pir_volume, memory, gate, jiffies, history>>

(* The result of wait_event_interruptible is ignored.                       *)
Signal(p) ==
  /\ At(p, "asleep") /\ Goto(p, "pick")
  /\ UNCHANGED <<fd_list, ku_pir_volume, memory, gate, jiffies, history>>

Pick(p) ==
  /\ At(p, "pick") /\ pc[p].fd \in made
  /\ Become(p, [pc[p] EXCEPT !.at = "copy", !.pos = next[pc[p].fd]])
  /\ contended' = (contended \/ Contends(p, pc[p].fd))
  /\ UNCHANGED <<fd_list, ku_pir_volume, memory, gate, jiffies, got, early>>

(* A mutant of Copy: the entry stays in the queue.                          *)
CopyOnly(p) ==
  /\ At(p, "copy")
  /\ LET value == IF pc[p].pos \in Fds THEN NoEntry ELSE data[pc[p].pos]
     IN  got' = [got EXCEPT ![p] = [now |-> value,
                                    last |-> IF @.now > 0 THEN @.now ELSE @.last]]
  /\ Become(p, [pc[p] EXCEPT !.at = "release", !.pos = 0])
  /\ UNCHANGED <<fd_list, ku_pir_volume, memory, gate, jiffies, contended, early>>

Copy(p) ==
  /\ At(p, "copy")
  /\ \/ /\ LET value == IF pc[p].pos \in Fds THEN NoEntry ELSE data[pc[p].pos]
            IN  got' = [got EXCEPT ![p] = [now |-> value,
                                        last |-> IF @.now > 0 THEN @.now ELSE @.last]]
        /\ Become(p, [pc[p] EXCEPT !.at = "walk", !.pos = 0])
     \/ Become(p, [pc[p] EXCEPT !.at = "release", !.pos = 0]) /\ UNCHANGED got
  /\ UNCHANGED <<fd_list, ku_pir_volume, memory, gate, jiffies, contended, early>>

(* A call that inserts an entry, of any descriptor, in use or not.          *)
Write(p) ==
  /\ At(p, "write")
  /\ \/ \E n \in Nodes \ allocated :
           /\ allocated' = allocated \cup {n}
           /\ data' = [data EXCEPT ![n] = UserEntry]
           /\ Become(p, [pc[p] EXCEPT !.at = "full", !.item = n])
     \/ Goto(p, "release") /\ UNCHANGED <<data, allocated>>
  /\ UNCHANGED <<fd_list, ku_pir_volume, next, prev, gate, jiffies, history>>

Full(p) ==
  /\ At(p, "full")
  /\ Goto(p, IF ku_pir_volume[pc[p].fd] = KUPIR_MAX_MSG THEN "walk" ELSE "add")
  /\ UNCHANGED <<fd_list, ku_pir_volume, memory, gate, jiffies, history>>

(* KU_OPEN looks for a free descriptor, then takes it.                      *)
Find(p) ==
  /\ At(p, "find")
  /\ \/ \E f \in Fds : /\ fd_list[f] = 0 /\ \A e \in 1..(f-1) : fd_list[e] # 0
                       /\ Become(p, [pc[p] EXCEPT !.at = "take", !.fd = f])
     \/ (\A f \in Fds : fd_list[f] # 0) /\ Goto(p, "release")
  /\ UNCHANGED <<fd_list, ku_pir_volume, memory, gate, jiffies, history>>

Take(p) ==
  /\ \/ /\ At(p, "take") /\ Goto(p, "init")
        /\ fd_list' = [fd_list EXCEPT ![pc[p].fd] = 1]
     \/ /\ At(p, "close") /\ Goto(p, "walk")
        /\ fd_list' = [fd_list EXCEPT ![pc[p].fd] = 0]
  /\ UNCHANGED <<ku_pir_volume, memory, gate, jiffies, history>>

(* INIT_LIST_HEAD and the reset of the counter, of KU_OPEN and KU_FLUSH;    *)
(* KU_CLOSE only resets the counter.                                        *)
Reset(p) ==
  LET f == pc[p].fd
  IN  /\ \/ /\ At(p, "init") /\ Goto(p, "zero")
            /\ next' = [next EXCEPT ![f] = f] /\ prev' = [prev EXCEPT ![f] = f]
            /\ made' = made \cup {f}
            /\ UNCHANGED ku_pir_volume
         \/ /\ At(p, "zero") /\ Goto(p, "release")
            /\ ku_pir_volume' = [ku_pir_volume EXCEPT ![f] = 0]
            /\ UNCHANGED <<next, prev, made>>
      /\ UNCHANGED <<fd_list, data, allocated, depth, module, jiffies, history>>

(* A thread that is inside the driver when its code is freed.               *)
Fault(p) ==
  /\ module = "unloaded" /\ pc[p].at \notin {"idle", "dead"}
  /\ Become(p, [at |-> "dead"])
  /\ UNCHANGED <<fd_list, ku_pir_volume, memory, gate, jiffies, history>>

ThreadStep(p) ==
  \/ Wait(p) \/ Pick(p) \/ Copy(p) \/ Write(p) \/ Full(p)
  \/ Find(p) \/ Take(p) \/ Reset(p) \/ ku_pir_release(p) \/ Fault(p)

-----------------------------------------------------------------------------
(* The interrupt handler takes one node, and links it into the list of      *)
(* every descriptor in use.  It reads the sensor twice: an edge between the *)
(* readings makes it leave, with the node lost.                             *)
ku_pir_isr ==
  /\ Running /\ pc[Isr] = Idle /\ depth = 0 /\ module # "request"
  /\ Bounded
  /\ jiffies' = IF jiffies < MaxTime THEN jiffies + 1 ELSE MaxTime
  /\ \E n \in Nodes \ allocated :
       /\ allocated' = allocated \cup {n}
       /\ data' = [data EXCEPT ![n] = jiffies']
       /\ Become(Isr, [Frame("fd", "isr", 1) EXCEPT !.item = n])
  /\ UNCHANGED <<fd_list, ku_pir_volume, next, prev, gate, history>>

Glitch ==
  /\ Running /\ pc[Isr] = Idle /\ depth = 0 /\ module # "request"
  /\ \E n \in Nodes \ allocated : allocated' = allocated \cup {n}
  /\ UNCHANGED <<fd_list, ku_pir_volume, next, prev, data, gate, jiffies, pc, history>>

(* Mutants of Push: the handler's loop runs one descriptor too far, or it   *)
(* returns without waking the readers.                                      *)
PushPastEnd ==
  LET f == pc[Isr].fd
  IN  /\ \/ /\ At(Isr, "fd")
            /\ Goto(Isr, CASE fd_list[f] = 0 -> "next"
                           [] ku_pir_volume[f] = KUPIR_MAX_MSG -> "walk"
                           [] OTHER -> "add")
         \/ /\ At(Isr, "next")
            /\ Become(Isr, IF f <= KUPIR_MAX_DEV THEN [pc[Isr] EXCEPT !.at = "fd", !.fd = f + 1]
                                                 ELSE [pc[Isr] EXCEPT !.at = "wake"])
      /\ UNCHANGED <<fd_list, ku_pir_volume, memory, gate, jiffies, history>>

PushSilently ==
  LET f == pc[Isr].fd
  IN  /\ \/ /\ At(Isr, "fd")
            /\ Goto(Isr, CASE fd_list[f] = 0 -> "next"
                           [] ku_pir_volume[f] = KUPIR_MAX_MSG -> "walk"
                           [] OTHER -> "add")
         \/ /\ At(Isr, "next")
            /\ Become(Isr, IF f < KUPIR_MAX_DEV THEN [pc[Isr] EXCEPT !.at = "fd", !.fd = f + 1]
                                                ELSE Idle)
      /\ UNCHANGED <<fd_list, ku_pir_volume, memory, gate, jiffies, history>>

Push ==
  LET f == pc[Isr].fd
  IN  /\ \/ /\ At(Isr, "fd")
            /\ Goto(Isr, CASE fd_list[f] = 0 -> "next"
                           [] ku_pir_volume[f] = KUPIR_MAX_MSG -> "walk"
                           [] OTHER -> "add")
         \/ /\ At(Isr, "next")
            /\ Become(Isr, IF f < KUPIR_MAX_DEV THEN [pc[Isr] EXCEPT !.at = "fd", !.fd = f + 1]
                                                ELSE [pc[Isr] EXCEPT !.at = "wake"])
      /\ UNCHANGED <<fd_list, ku_pir_volume, memory, gate, jiffies, history>>

-----------------------------------------------------------------------------
(* request_irq enables the interrupt, whoever has the device open: only     *)
(* then disable_irq disables it, and waits for a handler that is running.   *)
InitIrq ==
  /\ Running
  /\ \/ /\ module = "request" /\ module' = "disable"
        /\ depth' = 0
        /\ early' = \E p \in Procs : HasDevice(p) /\ pc[p].at # "sync"
     \/ /\ module = "disable" /\ module' = "quiet"
        /\ depth' = depth + 1
        /\ UNCHANGED early
     \/ /\ module = "quiet" /\ pc[Isr] = Idle /\ module' = "queues"
        /\ UNCHANGED <<depth, early>>
  /\ UNCHANGED <<fd_list, ku_pir_volume, memory, made, jiffies, pc, got, contended>>

InitQueues ==
  /\ Running /\ module = "queues"
  /\ module' = "loaded"
  /\ made' = Fds
  /\ next' = [c \in Cells |-> IF c \in Fds THEN c ELSE next[c]]
  /\ prev' = [c \in Cells |-> IF c \in Fds THEN c ELSE prev[c]]
  /\ UNCHANGED <<fd_list, ku_pir_volume, data, allocated, depth, jiffies, pc, history>>

(* rmmod frees every list, deletes the device and frees the interrupt, for  *)
(* which it waits for the handler.                                          *)
ExitBegin ==
  /\ Running /\ module = "loaded" /\ <<Rmmod, "exit">> \in Programs
  /\ module' = "exiting"
  /\ Become(Rmmod, Frame("walk", "exit", 1))
  /\ UNCHANGED <<fd_list, ku_pir_volume, memory, depth, made, jiffies, history>>

ExitNext ==
  LET f == pc[Rmmod].fd
  IN  /\ At(Rmmod, "next")
      /\ Become(Rmmod, IF f < KUPIR_MAX_DEV THEN Frame("walk", "exit", f + 1)
                                            ELSE Frame("free_irq", "exit", 1))
      /\ UNCHANGED <<fd_list, ku_pir_volume, memory, gate, jiffies, history>>

ExitEnd ==
  /\ At(Rmmod, "free_irq") /\ pc[Isr] = Idle
  /\ module' = "unloaded"
  /\ Become(Rmmod, Idle)
  /\ UNCHANGED <<fd_list, ku_pir_volume, memory, depth, made, jiffies, history>>

Next ==
  \/ \E call \in Programs \cap (Procs \X Ops), f \in Fds : ku_pir_open(call[1], call[2], f)
  \/ \E a \in Actors : ListStep(a)
  \/ \E p \in Procs : ThreadStep(p) \/ Signal(p)
  \/ ku_pir_isr \/ Glitch \/ Push
  \/ InitIrq \/ InitQueues
  \/ ExitBegin \/ ExitNext \/ ExitEnd

(* Code that runs keeps running, and the sensor keeps detecting motion      *)
(* whenever its interrupt is enabled.  Nothing makes a program call, send a *)
(* signal, or unload.                                                       *)
Fairness ==
  /\ \A a \in Actors : WF_vars(ListStep(a))
  /\ \A p \in Procs : WF_vars(ThreadStep(p))
  /\ WF_vars(ku_pir_isr) /\ WF_vars(Push)
  /\ WF_vars(InitIrq) /\ WF_vars(InitQueues)
  /\ WF_vars(ExitNext) /\ WF_vars(ExitEnd)

Spec == Init /\ [][Next]_vars /\ Fairness

-----------------------------------------------------------------------------
Labels == {"walk", "unlink", "free", "dec", "dec2", "add", "add2", "add3", "inc", "inc2",
           "wake", "read", "wait", "asleep", "pick", "copy", "write", "full", "find", "take",
           "close", "init", "zero", "release", "sync", "fd", "next", "free_irq", "oops"}

NoFrames == [at: {"idle", "dead"}]
CallFrames == [at: Labels, op: Ops \cup {"isr", "exit", "dead"}, fd: Fds,
               pos: Cells \cup {0}, q: Cells \cup {0}, prv: Cells \cup {0, Poison},
               nxt: Cells \cup {0}, item: Nodes \cup {0}, n: Int]
Frames == NoFrames \cup CallFrames

(* The variables keep their types: every pointer is to a cell or poisoned,  *)
(* the handler's loop stays within the descriptors, and the interrupt is    *)
(* never enabled more often than it was disabled.                           *)
TypeOK ==
  /\ fd_list \in [Fds -> {0, 1}]
  /\ ku_pir_volume \in [Fds -> Int]
  /\ next \in [Cells -> Cells]
  /\ prev \in [Cells -> Cells \cup {Poison}]
  /\ data \in [Nodes -> {UserEntry, Junk} \cup (1..MaxTime)]
  /\ allocated \subseteq Nodes
  /\ depth \in Nat /\ jiffies \in 0..MaxTime
  /\ module \in {"request", "disable", "quiet", "queues", "loaded", "exiting", "unloaded"}
  /\ made \subseteq Fds
  /\ pc \in [Actors -> Frames]
  /\ got \in [Procs -> [now: {UserEntry, Junk} \cup (0..MaxTime), last: 0..MaxTime]]
  /\ contended \in BOOLEAN /\ early \in BOOLEAN

(* Once init has disabled the interrupt it is enabled, and once the disable *)
(* has waited for the handler that runs, only while some thread has the     *)
(* device open, however opens and releases overlap, with init and exit too. *)
HandlerNeedsDevice ==
  /\ module \notin {"request", "disable", "unloaded"} /\ depth = 0
       => \E p \in Procs : HasDevice(p)
  /\ module \in {"queues", "loaded", "exiting"} /\ pc[Isr] # Idle
       => \E p \in Procs : HasDevice(p)

(* The cell i steps from the head of f.                                     *)
Step(f) ==
  LET s[i \in 0..Cardinality(Nodes)] ==
        IF i = 0 THEN next[f] ELSE IF s[i-1] \in Nodes THEN next[s[i-1]] ELSE s[i-1]
  IN  s

(* "Push to queue(linked list)" (ku_pir.c:229): from the head of every      *)
(* descriptor, next leads through live entries back to the head, until two  *)
(* actors take entries off a list at the same time (one consumer, and a     *)
(* handler that finds it full).  Not so with several descriptors in use,    *)
(* as an interrupt links one node into all their lists; and not with a      *)
(* second producer, which may append to a last cell that is freed already.  *)
ListsWellFormed ==
  ~contended =>
    \A f \in Fds : /\ Step(f)[Cardinality(Nodes)] = f
                   /\ \A i \in DOMAIN Step(f) : Step(f)[i] \in allocated \cup {f}

(* A thread is delivered sensor entries in the order of their detection,    *)
(* and none twice, though counters and back pointers are damaged by races,  *)
(* until two actors take entries off a list at the same time: while the     *)
(* handler alone fills it.                                                  *)
InOrder ==
  \A p \in Procs :
    LET g == got[p]
    IN  g.now > 0 => g.now > g.last \/ g.now = MaxTime \/ contended

Producing(a) == /\ pc[a].at \notin {"idle", "dead", "release", "sync"}
                /\ pc[a].op \in {"isr", "write"}

(* No lost wake-up: while a read sleeps and its counter says that there are *)
(* entries, a producer is on its way to wake it.                            *)
SleepersAreWoken ==
  \A p \in Procs :
    Running /\ pc[p].at = "asleep" /\ ku_pir_volume[pc[p].fd] > 0
      => \E a \in Actors : Producing(a)

(* No memory for the next interrupt, and no handler that is to free some.   *)
Exhausted == allocated = Nodes /\ pc[Isr] = Idle

(* A blocking read returns while the sensor detects motion, unless memory   *)
(* is used up, the machine has crashed, or the device was opened before     *)
(* init had disabled the interrupt.                                         *)
ReadEnds ==
  \A p \in Procs :
    pc[p].at = "asleep" ~> pc[p].at # "asleep" \/ Exhausted \/ ~Running \/ early
=============================================================================
